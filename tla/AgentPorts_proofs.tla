-------------------------- MODULE AgentPorts_proofs --------------------------
(***************************************************************************)
(* Theorems about AgentPorts, for any number of ports and requests.        *)
(***************************************************************************)
EXTENDS AgentPorts, TLAPS

-----------------------------------------------------------------------------
(* Type correctness. *)

\* Moving a request to another step leaves the requests well typed.
LEMMA GotoType ==
  ASSUME req \in [Reqs -> Request], NEW r \in Reqs, NEW pc, Goto(r, pc),
         pc \in Ended \cup {"load", "remove", "close", "udpload", "udpremove", "udpclose",
                            "probe", "bind", "spin", "store", "udpstore"}
  PROVE  /\ req' \in [Reqs -> Request]
         /\ req'[r].pc = pc
         /\ \A s \in Reqs : req'[s] = [req[s] EXCEPT !.pc = req'[s].pc]
         /\ \A s \in Reqs \ {r} : req'[s] = req[s]
BY DEF Goto, Request

LEMMA InitType == Init => TypeOK
BY DEF Init, TypeOK, PortsGiven, Idle, Request, Ended

LEMMA ArriveType ==
  ASSUME TypeOK, NEW r \in Reqs, Arrive(r)
  PROVE  TypeOK'
<1>1. PICK old \in Ports \cup {None}, port \in Ports \cup {None} :
        /\ {old, port} # {None}
        /\ req' = [req EXCEPT ![r] =
                     [op   |-> IF old = None THEN "add" ELSE IF port = None THEN "del" ELSE "move",
                      old  |-> old, port |-> port, got |-> None, udpGot |-> None,
                      pc   |-> IF old = None THEN "probe" ELSE "load"]]
        /\ crossed' = crossed \cup {p \in {old, port} \ {None} : ~Quiet(p)}
  BY DEF Arrive
<1>2. req' \in [Reqs -> Request]
  BY <1>1 DEF TypeOK, Request
<1>3. crossed' \subseteq Ports
  BY <1>1 DEF TypeOK
<1>4. \A s \in Reqs : s # r => req'[s] = req[s]
  BY <1>1 DEF TypeOK
<1>5. req'[r].pc \in {"probe", "load"}
  BY <1>1 DEF TypeOK
<1>6. PortsGiven'
  BY <1>1, <1>4 DEF TypeOK, PortsGiven
<1> QED
  BY <1>2, <1>3, <1>4, <1>5, <1>6 DEF TypeOK, Arrive, tcp, udp

LEMMA DelPortType ==
  ASSUME TypeOK, NEW r \in Reqs, DelPort(r)
  PROVE  TypeOK'
<1>1. CASE Load(r)
  BY <1>1 DEF Load, TypeOK, PortsGiven, Goto, AfterDelPort, At, Request, Ended, tcp, udp
<1>2. CASE Remove(r)
  BY <1>2 DEF Remove, TypeOK, PortsGiven, Goto, At, Request, Ended, udp
<1>3. CASE Close(r)
  BY <1>3 DEF Close, TypeOK, PortsGiven, Goto, At, Request, Ended, udp
<1>4. CASE UdpLoad(r)
  BY <1>4 DEF UdpLoad, TypeOK, PortsGiven, Goto, AfterDelPort, At, Request, Ended, tcp, udp
<1>5. CASE UdpRemove(r)
  BY <1>5 DEF UdpRemove, TypeOK, PortsGiven, Goto, At, Request, Ended, tcp
<1>6. CASE UdpClose(r)
  BY <1>6 DEF UdpClose, TypeOK, PortsGiven, Goto, AfterDelPort, At, Request, Ended, tcp
<1> QED
  BY <1>1, <1>2, <1>3, <1>4, <1>5, <1>6 DEF DelPort

LEMMA AddRuleType ==
  ASSUME TypeOK, NEW r \in Reqs, AddRule(r) \/ UdpStart(r)
  PROVE  TypeOK'
<1>1. CASE Probe(r)
  BY <1>1 DEF Probe, TypeOK, PortsGiven, Goto, At, Request, Ended, tcp, udp
<1>2. CASE Listen(r)
  <2>1. req[r].pc = "bind" /\ req[r].port \in Ports /\ UNCHANGED <<entry, udp, crossed>>
    BY <1>2 DEF Listen, At, TypeOK, PortsGiven
  <2>2. CASE bound' = [bound EXCEPT ![req[r].port] = r] /\ Goto(r, "store")
    BY <2>1, <2>2 DEF TypeOK, PortsGiven, Goto, Request, Ended, udp
  <2>3. CASE bound' = bound /\ Goto(r, "spin")
    BY <2>1, <2>3 DEF TypeOK, PortsGiven, Goto, Request, Ended, udp
  <2> QED
    BY <1>2, <2>2, <2>3 DEF Listen
<1>3. CASE StoreConn(r)
  BY <1>3 DEF StoreConn, TypeOK, PortsGiven, Goto, At, Request, Ended, udp
<1>4. CASE UdpStore(r)
  BY <1>4 DEF UdpStore, TypeOK, PortsGiven, Goto, At, Request, Ended, tcp
<1>5. CASE UdpStart(r)
  BY <1>5 DEF UdpStart, TypeOK, PortsGiven, Request, Ended, tcp
<1> QED
  BY <1>1, <1>2, <1>3, <1>4, <1>5 DEF AddRule

\* The end of the process ends every request and closes every socket.
LEMMA DiesParts ==
  ASSUME TypeOK, NEW r \in Reqs, Dies(r)
  PROVE  /\ \A p \in Ports : /\ bound'[p] = None /\ entry'[p] = None
                             /\ udpBound'[p] = None /\ udpEntry'[p] = None
         /\ \A s \in Reqs : fwd'[s] = "none"
         /\ crossed' = crossed /\ req' \in [Reqs -> Request]
         /\ \A s \in Reqs : /\ req'[s].pc \in {"ok", "error", "panic", "cut"}
                            /\ req'[s].pc # req[s].pc => req'[s].pc = "cut"
                            /\ req'[s].op = req[s].op /\ req'[s].port = req[s].port
                            /\ req'[s].old = req[s].old /\ req'[s].got = req[s].got
<1>1. \A s \in Reqs : req[s] \in Request
  BY DEF TypeOK
<1>2. \A s \in Reqs : req'[s] = IF req[s].pc \in {"ok", "error", "panic"} THEN req[s]
                              ELSE [req[s] EXCEPT !.pc = "cut"]
  BY DEF Dies
<1>3. \A s \in Reqs : [req[s] EXCEPT !.pc = "cut"] \in Request
  BY <1>1 DEF Request, Ended
<1>4. req' \in [Reqs -> Request]
  BY <1>1, <1>2, <1>3 DEF Dies
<1>5. ASSUME NEW s \in Reqs
      PROVE  /\ req'[s].pc \in {"ok", "error", "panic", "cut"}
             /\ req'[s].pc # req[s].pc => req'[s].pc = "cut"
             /\ req'[s].op = req[s].op /\ req'[s].port = req[s].port
             /\ req'[s].old = req[s].old /\ req'[s].got = req[s].got
  <2>1. CASE req[s].pc \in {"ok", "error", "panic"}
    BY <1>2, <2>1
  <2>2. CASE req[s].pc \notin {"ok", "error", "panic"}
    <3>1. req'[s] = [req[s] EXCEPT !.pc = "cut"] /\ req[s] \in Request
      BY <1>1, <1>2, <2>2
    <3>. QED
      BY <3>1 DEF Request
  <2>. QED
    BY <2>1, <2>2
<1>. QED
  BY <1>4, <1>5 DEF Dies

LEMMA DiesType ==
  ASSUME TypeOK, NEW r \in Reqs, Dies(r)
  PROVE  TypeOK'
<1>1. PortsGiven'
  BY DiesParts DEF TypeOK, PortsGiven
<1>2. /\ bound' \in [Ports -> Reqs \cup {None}] /\ entry' \in [Ports -> Reqs \cup {None}]
      /\ udpBound' \in [Ports -> Reqs \cup {None}] /\ udpEntry' \in [Ports -> Reqs \cup {None}]
      /\ fwd' \in [Reqs -> {"none", "new", "bound", "failed", "cut", "nil", "closed"}]
  BY DEF Dies
<1>. QED
  BY <1>1, <1>2, DiesParts DEF TypeOK

LEMMA NextType == TypeOK /\ [Next]_vars => TypeOK'
<1> SUFFICES ASSUME TypeOK, [Next]_vars PROVE TypeOK'
  OBVIOUS
<1>1. CASE UNCHANGED vars
  BY <1>1 DEF vars, TypeOK, PortsGiven
<1>2. CASE Next
  BY <1>2, ArriveType, DelPortType, AddRuleType, DiesType DEF Next, Work
<1> QED
  BY <1>1, <1>2

\* The map, the sockets and the requests stay well typed, and a DelPort removes
\* and closes only what it has loaded.
THEOREM TypeCorrect == Spec => []TypeOK
BY InitType, NextType, PTL DEF Spec

-----------------------------------------------------------------------------
(* The map and the sockets. *)

\* What a move of one request to another step does to the others.
LEMMA GotoOnly ==
  ASSUME TypeOK, NEW r \in Reqs, NEW pc, Goto(r, pc)
  PROVE  /\ req'[r] = [req[r] EXCEPT !.pc = pc]
         /\ req'[r].pc = pc /\ req'[r].old = req[r].old /\ req'[r].port = req[r].port
         /\ req'[r].got = req[r].got /\ req'[r].op = req[r].op
         /\ \A s \in Reqs \ {r} : req'[s] = req[s]
BY DEF Goto, TypeOK, Request

LEMMA InitPort == Init => PortInv
BY PortsAssumption
   DEF Init, PortInv, StoringIsBound, EntryIsStored, LoadedWasStored, CrossingsKnown,
       RemovesLoaded, BoundIsReachable, Idle, At, Running, Ended

LEMMA ArrivePort ==
  ASSUME TypeOK, PortInv, NEW r \in Reqs, Arrive(r)
  PROVE  PortInv'
<1>1. PICK old \in Ports \cup {None}, port \in Ports \cup {None} :
        /\ {old, port} # {None}
        /\ req' = [req EXCEPT ![r] =
                     [op   |-> IF old = None THEN "add" ELSE IF port = None THEN "del" ELSE "move",
                      old  |-> old, port |-> port, got |-> None, udpGot |-> None,
                      pc   |-> IF old = None THEN "probe" ELSE "load"]]
        /\ crossed' = crossed \cup {p \in {old, port} \ {None} : ~Quiet(p)}
  BY DEF Arrive
<1>2. /\ \A s \in Reqs \ {r} : req'[s] = req[s]
      /\ req'[r].pc \in {"probe", "load"} /\ req'[r].old = old /\ req'[r].port = port
      /\ req[r].pc = "idle"
  BY <1>1 DEF TypeOK, Arrive, At
<1>3. bound' = bound /\ entry' = entry /\ crossed \subseteq crossed'
  BY <1>1 DEF Arrive, tcp
<1>4. StoringIsBound'
  BY <1>2, <1>3 DEF PortInv, StoringIsBound, At
<1>5. EntryIsStored'
  BY <1>2, <1>3, PortsAssumption DEF PortInv, EntryIsStored, HasStored, TypeOK
<1>6. LoadedWasStored'
  BY <1>2, <1>3, PortsAssumption DEF PortInv, LoadedWasStored, HasStored, At, TypeOK, Request
<1>7. CrossingsKnown'
  <2> SUFFICES ASSUME NEW s \in Reqs, NEW t \in Reqs, s # t, Running(s)', Running(t)',
                      NEW p \in PortsOf(s)', p \in PortsOf(t)'
               PROVE  p \in crossed'
    BY DEF CrossingsKnown
  <2>1. CASE s # r /\ t # r
    BY <2>1, <1>2, <1>3 DEF PortInv, CrossingsKnown, Running, PortsOf
  <2>2. CASE s = r
    <3>1. ~Quiet(p)
      BY <2>2, <1>2 DEF Quiet, Running, PortsOf
    <3> QED
      BY <2>2, <3>1, <1>1, <1>2 DEF PortsOf
  <2>3. CASE t = r
    <3>1. ~Quiet(p)
      BY <2>3, <1>2 DEF Quiet, Running, PortsOf
    <3> QED
      BY <2>3, <3>1, <1>1, <1>2 DEF PortsOf
  <2> QED
    BY <2>1, <2>2, <2>3
<1>8. RemovesLoaded'
  BY <1>2, <1>3 DEF PortInv, RemovesLoaded, At
<1>9. BoundIsReachable'
  BY <1>2, <1>3, PortsAssumption DEF PortInv, BoundIsReachable, At, TypeOK
<1> QED
  BY <1>4, <1>5, <1>6, <1>7, <1>8, <1>9 DEF PortInv

\* No step of a request that is at work brings it to a port it was not at.
LEMMA KeepsCrossings ==
  ASSUME TypeOK, PortInv, NEW r \in Reqs, Running(r), crossed' = crossed,
         req'[r].old = req[r].old, req'[r].port = req[r].port,
         \A s \in Reqs \ {r} : req'[s] = req[s]
  PROVE  CrossingsKnown'
<1>1. \A s \in Reqs : PortsOf(s)' = PortsOf(s) /\ (Running(s)' => Running(s))
  BY DEF PortsOf, Running
<1> QED
  BY <1>1 DEF PortInv, CrossingsKnown

\* A step that leaves the TCP half alone, and is neither to nor from a state in
\* which a request has a listener in hand.
LEMMA TcpUntouched ==
  ASSUME TypeOK, PortInv, NEW r \in Reqs, Running(r),
         bound' = bound, entry' = entry, crossed' = crossed,
         req'[r].old = req[r].old, req'[r].port = req[r].port, req'[r].got = req[r].got,
         \A s \in Reqs \ {r} : req'[s] = req[s],
         req[r].pc \notin {"remove", "close", "store"},
         req'[r].pc \notin {"remove", "close", "store"},
         HasStored(r) => HasStored(r)'
  PROVE  PortInv'
<1>1. \A s \in Reqs : HasStored(s) => HasStored(s)'
  BY DEF HasStored
<1>2. StoringIsBound'
  BY DEF PortInv, StoringIsBound, At
<1>3. EntryIsStored'
  <2> SUFFICES ASSUME NEW p \in Ports, entry[p] # None
               PROVE  req'[entry[p]].pc \in {"udpstore", "ok"} /\ bound[p] = entry[p]
    BY DEF EntryIsStored, HasStored
  <2>1. HasStored(entry[p]) /\ bound[p] = entry[p] /\ entry[p] \in Reqs
    BY DEF PortInv, EntryIsStored, TypeOK
  <2> QED
    BY <2>1, <1>1 DEF HasStored
<1>4. LoadedWasStored'
  <2> SUFFICES ASSUME NEW s \in Reqs, req'[s].pc \in {"remove", "close"}
               PROVE  /\ req'[req'[s].got].pc \in {"udpstore", "ok"}
                      /\ req'[s].pc = "close" => entry[req'[s].old] # req'[s].got
    BY DEF LoadedWasStored, At, HasStored
  <2>1. /\ s # r /\ req'[s] = req[s] /\ req[s].got \in Reqs /\ HasStored(req[s].got)
        /\ req[s].pc = "close" => entry[req[s].old] # req[s].got
    BY DEF PortInv, LoadedWasStored, At, TypeOK, Request
  <2> QED
    BY <2>1, <1>1 DEF HasStored
<1>5. CrossingsKnown'
  BY KeepsCrossings
<1>6. RemovesLoaded'
  BY DEF PortInv, RemovesLoaded, At
<1>7. BoundIsReachable'
  BY DEF PortInv, BoundIsReachable, At, TypeOK
<1> QED
  BY <1>2, <1>3, <1>4, <1>5, <1>6, <1>7 DEF PortInv

LEMMA LoadPort ==
  ASSUME TypeOK, PortInv, NEW r \in Reqs, Load(r)
  PROVE  PortInv'
<1>1. req[r].pc = "load" /\ req[r].old \in Ports /\ Running(r) /\ ~HasStored(r)
  BY DEF Load, At, TypeOK, PortsGiven, Running, Ended, HasStored
<1>2. CASE Goto(r, AfterDelPort(r))
  <2>1. AfterDelPort(r) \in {"probe", "ok"}
    BY DEF AfterDelPort
  <2>2. bound' = bound /\ entry' = entry /\ crossed' = crossed
    BY DEF Load, tcp
  <2>3. /\ req'[r].pc = AfterDelPort(r)
        /\ req'[r].old = req[r].old /\ req'[r].port = req[r].port /\ req'[r].got = req[r].got
        /\ \A s \in Reqs \ {r} : req'[s] = req[s]
    BY <1>2, GotoOnly
  <2> QED
    BY <2>1, <2>2, <2>3, <1>1, TcpUntouched
<1>3. CASE /\ entry[req[r].old] # None
           /\ req' = [req EXCEPT ![r].pc = "remove", ![r].got = entry[req[r].old]]
  <2>1. /\ bound' = bound /\ entry' = entry /\ crossed' = crossed
        /\ \A s \in Reqs \ {r} : req'[s] = req[s]
        /\ req'[r].old = req[r].old /\ req'[r].port = req[r].port
        /\ req'[r].pc = "remove" /\ req'[r].got = entry[req[r].old]
    BY <1>3 DEF Load, tcp, TypeOK, Request
  <2>2. \A s \in Reqs : HasStored(s) => req'[s].pc \in {"udpstore", "ok"}
    BY <1>1, <2>1 DEF HasStored
  <2>3. StoringIsBound'
    BY <2>1 DEF PortInv, StoringIsBound, At
  <2>4. EntryIsStored'
    <3> SUFFICES ASSUME NEW p \in Ports, entry[p] # None
                 PROVE  req'[entry[p]].pc \in {"udpstore", "ok"} /\ bound[p] = entry[p]
      BY <2>1 DEF EntryIsStored, HasStored
    <3> QED
      BY <2>2 DEF PortInv, EntryIsStored, TypeOK
  <2>5. LoadedWasStored'
    <3> SUFFICES ASSUME NEW s \in Reqs, req'[s].pc \in {"remove", "close"}
                 PROVE  /\ req'[req'[s].got].pc \in {"udpstore", "ok"}
                        /\ req'[s].pc = "close" => entry[req'[s].old] # req'[s].got
      BY <2>1 DEF LoadedWasStored, At, HasStored
    <3>1. CASE s = r
      <4>1. entry[req[r].old] \in Reqs /\ HasStored(entry[req[r].old])
        BY <1>1, <1>3 DEF PortInv, EntryIsStored, TypeOK
      <4> QED
        BY <3>1, <4>1, <2>1, <2>2
    <3>2. CASE s # r
      <4>1. /\ req'[s] = req[s] /\ req[s].got \in Reqs /\ HasStored(req[s].got)
            /\ req[s].pc = "close" => entry[req[s].old] # req[s].got
        BY <3>2, <2>1 DEF PortInv, LoadedWasStored, At, TypeOK, Request
      <4> QED
        BY <4>1, <2>2
    <3> QED
      BY <3>1, <3>2
  <2>6. CrossingsKnown'
    BY <1>1, <2>1, KeepsCrossings
  <2>7. RemovesLoaded'
    BY <2>1 DEF PortInv, RemovesLoaded, At
  <2>8. BoundIsReachable'
    BY <1>1, <2>1 DEF PortInv, BoundIsReachable, At, TypeOK
  <2> QED
    BY <2>3, <2>4, <2>5, <2>6, <2>7, <2>8 DEF PortInv
<1> QED
  BY <1>2, <1>3 DEF Load

\* On a port without crossings the removed entry is the one about to be closed;
\* elsewhere it may be another, which is why NoLeak excepts those ports.
LEMMA RemovePort ==
  ASSUME TypeOK, PortInv, NEW r \in Reqs, Remove(r)
  PROVE  PortInv'
<1> DEFINE old == req[r].old
<1>1. /\ req[r].pc = "remove" /\ old \in Ports /\ Running(r)
      /\ req[r].got \in Reqs /\ HasStored(req[r].got)
  BY DEF Remove, At, TypeOK, PortsGiven, Running, Ended, Request, PortInv, LoadedWasStored
<1>2. /\ bound' = bound /\ crossed' = crossed
      /\ entry' = [entry EXCEPT ![old] = None]
      /\ req'[r].pc = "close" /\ req'[r].old = old /\ req'[r].port = req[r].port
      /\ req'[r].got = req[r].got
      /\ \A s \in Reqs \ {r} : req'[s] = req[s]
  BY GotoOnly DEF Remove
<1>3. entry'[old] = None /\ \A p \in Ports \ {old} : entry'[p] = entry[p]
  BY <1>1, <1>2 DEF TypeOK
<1>4. \A s \in Reqs : HasStored(s) => s # r /\ req'[s].pc \in {"udpstore", "ok"}
  BY <1>1, <1>2 DEF HasStored
<1>5. StoringIsBound'
  BY <1>2 DEF PortInv, StoringIsBound, At
<1>6. EntryIsStored'
  <2> SUFFICES ASSUME NEW p \in Ports, entry'[p] # None
               PROVE  req'[entry'[p]].pc \in {"udpstore", "ok"} /\ bound'[p] = entry'[p]
    BY DEF EntryIsStored, HasStored
  <2>1. p # old /\ entry'[p] = entry[p] /\ entry[p] \in Reqs /\ HasStored(entry[p])
        /\ bound[p] = entry[p]
    BY <1>3 DEF PortInv, EntryIsStored, TypeOK
  <2> QED
    BY <2>1, <1>2, <1>4
<1>7. LoadedWasStored'
  <2> SUFFICES ASSUME NEW s \in Reqs, req'[s].pc \in {"remove", "close"}
               PROVE  /\ req'[req'[s].got].pc \in {"udpstore", "ok"}
                      /\ req'[s].pc = "close" => entry'[req'[s].old] # req'[s].got
    BY DEF LoadedWasStored, At, HasStored
  <2>1. CASE s = r
    BY <2>1, <1>1, <1>2, <1>3, <1>4, PortsAssumption
  <2>2. CASE s # r
    <3>1. /\ req'[s] = req[s] /\ req[s].got \in Reqs /\ HasStored(req[s].got)
          /\ req[s].old \in Ports
          /\ req[s].pc = "close" => entry[req[s].old] # req[s].got
      BY <2>2, <1>2 DEF PortInv, LoadedWasStored, At, TypeOK, Request, PortsGiven
    <3> QED
      BY <3>1, <1>3, <1>4, PortsAssumption
  <2> QED
    BY <2>1, <2>2
<1>8. CrossingsKnown'
  BY <1>1, <1>2, KeepsCrossings
<1>9. RemovesLoaded'
  <2> SUFFICES ASSUME NEW s \in Reqs, req'[s].pc = "remove", req'[s].old \notin crossed
               PROVE  entry'[req'[s].old] = req'[s].got
    BY <1>2 DEF RemovesLoaded, At
  <2>1. s # r /\ req'[s] = req[s] /\ Running(s) /\ req[s].old \in Ports
    BY <1>2 DEF Running, Ended, TypeOK, PortsGiven
  <2>2. req[s].old # old
    BY <1>1, <2>1, PortsAssumption DEF PortInv, CrossingsKnown, PortsOf
  <2> QED
    BY <2>1, <2>2, <1>3 DEF PortInv, RemovesLoaded, At
<1>10. BoundIsReachable'
  <2> SUFFICES ASSUME NEW p \in Ports, p \notin crossed, bound[p] # None
               PROVE  \/ entry'[p] = bound[p]
                      \/ req'[bound[p]].pc = "store" /\ req'[bound[p]].port = p
                      \/ \E s \in Reqs : req'[s].pc = "close" /\ req'[s].old = p /\ req'[s].got = bound[p]
    BY <1>2 DEF BoundIsReachable, At
  <2>1. bound[p] \in Reqs
    BY DEF TypeOK
  <2>2. CASE entry[p] = bound[p]
    <3>1. CASE p = old
      <4>1. entry[p] = req[r].got
        BY <3>1, <1>1 DEF PortInv, RemovesLoaded, At
      <4> QED
        BY <4>1, <2>2, <3>1, <1>2
    <3>2. CASE p # old
      BY <2>2, <3>2, <1>3
    <3> QED
      BY <3>1, <3>2
  <2>3. CASE At(bound[p], "store") /\ req[bound[p]].port = p
    BY <2>1, <2>3, <1>1, <1>2 DEF At
  <2>4. CASE \E s \in Reqs : At(s, "close") /\ req[s].old = p /\ req[s].got = bound[p]
    BY <2>4, <1>1, <1>2 DEF At
  <2> QED
    BY <2>2, <2>3, <2>4 DEF PortInv, BoundIsReachable
<1> QED
  BY <1>5, <1>6, <1>7, <1>8, <1>9, <1>10 DEF PortInv

\* The listener closed is one the map no longer names.
LEMMA ClosePort ==
  ASSUME TypeOK, PortInv, NEW r \in Reqs, Close(r)
  PROVE  PortInv'
<1> DEFINE old == req[r].old
           got == req[r].got
<1>1. /\ req[r].pc = "close" /\ old \in Ports /\ Running(r)
      /\ got \in Reqs /\ HasStored(got) /\ entry[old] # got
  BY DEF Close, At, TypeOK, PortsGiven, Running, Ended, Request, PortInv, LoadedWasStored
<1>2. /\ entry' = entry /\ crossed' = crossed
      /\ bound' = [bound EXCEPT ![old] = IF @ = got THEN None ELSE @]
      /\ req'[r].pc = "udpload" /\ req'[r].old = old /\ req'[r].port = req[r].port
      /\ req'[r].got = got
      /\ \A s \in Reqs \ {r} : req'[s] = req[s]
  BY GotoOnly DEF Close
<1>3. /\ \A p \in Ports : bound'[p] = bound[p] \/ (p = old /\ bound[p] = got /\ bound'[p] = None)
      /\ bound'[old] # got
  BY <1>1, <1>2, PortsAssumption DEF TypeOK
<1>4. \A s \in Reqs : HasStored(s) => s # r /\ req'[s].pc \in {"udpstore", "ok"}
  BY <1>1, <1>2 DEF HasStored
<1>5. StoringIsBound'
  <2> SUFFICES ASSUME NEW s \in Reqs, req'[s].pc = "store"
               PROVE  bound'[req'[s].port] = s
    BY DEF StoringIsBound, At
  <2>1. s # r /\ req'[s] = req[s] /\ bound[req[s].port] = s /\ ~HasStored(s) /\ req[s].port \in Ports
    BY <1>2 DEF PortInv, StoringIsBound, At, HasStored, TypeOK, PortsGiven
  <2> QED
    BY <2>1, <1>1, <1>3
<1>6. EntryIsStored'
  <2> SUFFICES ASSUME NEW p \in Ports, entry[p] # None
               PROVE  req'[entry[p]].pc \in {"udpstore", "ok"} /\ bound'[p] = entry[p]
    BY <1>2 DEF EntryIsStored, HasStored
  <2>1. entry[p] \in Reqs /\ HasStored(entry[p]) /\ bound[p] = entry[p]
    BY DEF PortInv, EntryIsStored, TypeOK
  <2> QED
    BY <2>1, <1>1, <1>3, <1>4
<1>7. LoadedWasStored'
  <2> SUFFICES ASSUME NEW s \in Reqs, req'[s].pc \in {"remove", "close"}
               PROVE  /\ req'[req'[s].got].pc \in {"udpstore", "ok"}
                      /\ req'[s].pc = "close" => entry[req'[s].old] # req'[s].got
    BY <1>2 DEF LoadedWasStored, At, HasStored
  <2>1. /\ req'[s] = req[s] /\ req[s].got \in Reqs /\ HasStored(req[s].got)
        /\ req[s].pc = "close" => entry[req[s].old] # req[s].got
    BY <1>2 DEF PortInv, LoadedWasStored, At, TypeOK, Request
  <2> QED
    BY <2>1, <1>4
<1>8. CrossingsKnown'
  BY <1>1, <1>2, KeepsCrossings
<1>9. RemovesLoaded'
  BY <1>2 DEF PortInv, RemovesLoaded, At
<1>10. BoundIsReachable'
  <2> SUFFICES ASSUME NEW p \in Ports, p \notin crossed, bound'[p] # None
               PROVE  \/ entry[p] = bound'[p]
                      \/ req'[bound'[p]].pc = "store" /\ req'[bound'[p]].port = p
                      \/ \E s \in Reqs : req'[s].pc = "close" /\ req'[s].old = p /\ req'[s].got = bound'[p]
    BY <1>2 DEF BoundIsReachable, At
  <2>1. bound'[p] = bound[p] /\ bound[p] \in Reqs /\ (p = old => bound[p] # got)
    BY <1>3 DEF TypeOK
  <2>2. CASE At(bound[p], "store") /\ req[bound[p]].port = p
    BY <2>1, <2>2, <1>1, <1>2 DEF At
  <2>3. CASE \E s \in Reqs : At(s, "close") /\ req[s].old = p /\ req[s].got = bound[p]
    BY <2>1, <2>3, <1>1, <1>2 DEF At
  <2> QED
    BY <2>1, <2>2, <2>3 DEF PortInv, BoundIsReachable
<1> QED
  BY <1>5, <1>6, <1>7, <1>8, <1>9, <1>10 DEF PortInv

\* The UDP half of DelPort and the answer.
LEMMA UdpHalfPort ==
  ASSUME TypeOK, PortInv, NEW r \in Reqs, UdpLoad(r) \/ UdpRemove(r) \/ UdpClose(r)
  PROVE  PortInv'
<1>1. req[r].pc \in {"udpload", "udpremove", "udpclose"} /\ Running(r) /\ ~HasStored(r)
  BY DEF UdpLoad, UdpRemove, UdpClose, At, Running, Ended, HasStored
<1>2. bound' = bound /\ entry' = entry /\ crossed' = crossed
  BY DEF UdpLoad, UdpRemove, UdpClose, tcp
<1>3. /\ req'[r].pc \in {"udpremove", "udpclose", "probe", "ok", "panic"}
      /\ req'[r].old = req[r].old /\ req'[r].port = req[r].port /\ req'[r].got = req[r].got
      /\ \A s \in Reqs \ {r} : req'[s] = req[s]
  <2>1. CASE \E pc \in {"udpremove", "udpclose", "probe", "ok", "panic"} : Goto(r, pc)
    BY <2>1, GotoOnly
  <2>2. CASE req' = [req EXCEPT ![r].pc = "udpremove", ![r].udpGot = udpEntry[req[r].old]]
    BY <2>2 DEF TypeOK, Request
  <2> QED
    BY <2>1, <2>2 DEF UdpLoad, UdpRemove, UdpClose, AfterDelPort
<1> QED
  BY <1>1, <1>2, <1>3, TcpUntouched

LEMMA ListenPort ==
  ASSUME TypeOK, PortInv, NEW r \in Reqs, Listen(r)
  PROVE  PortInv'
<1> DEFINE port == req[r].port
<1>1. req[r].pc = "bind" /\ port \in Ports /\ Running(r) /\ ~HasStored(r)
  BY DEF Listen, At, TypeOK, PortsGiven, Running, Ended, HasStored
<1>2. CASE bound' = bound /\ Goto(r, "spin")
  <2>1. entry' = entry /\ crossed' = crossed
    BY DEF Listen
  <2>2. /\ req'[r].pc = "spin"
        /\ req'[r].old = req[r].old /\ req'[r].port = req[r].port /\ req'[r].got = req[r].got
        /\ \A s \in Reqs \ {r} : req'[s] = req[s]
    BY <1>2, GotoOnly
  <2> QED
    BY <1>1, <1>2, <2>1, <2>2, TcpUntouched
<1>3. CASE /\ bound[port] = None
           /\ bound' = [bound EXCEPT ![port] = r]
           /\ Goto(r, "store")
  <2>1. /\ entry' = entry /\ crossed' = crossed
        /\ bound'[port] = r /\ \A p \in Ports \ {port} : bound'[p] = bound[p]
        /\ req'[r].pc = "store" /\ req'[r].old = req[r].old /\ req'[r].port = port
        /\ req'[r].got = req[r].got
        /\ \A s \in Reqs \ {r} : req'[s] = req[s]
    BY <1>1, <1>3, GotoOnly DEF Listen, TypeOK
  <2>2. \A s \in Reqs : HasStored(s) => s # r /\ req'[s].pc \in {"udpstore", "ok"}
    BY <1>1, <2>1 DEF HasStored
  <2>3. StoringIsBound'
    <3> SUFFICES ASSUME NEW s \in Reqs, s # r, req'[s].pc = "store"
                 PROVE  bound'[req'[s].port] = s
      BY <2>1 DEF StoringIsBound, At
    <3>1. req'[s] = req[s] /\ bound[req[s].port] = s /\ req[s].port \in Ports
      BY <2>1 DEF PortInv, StoringIsBound, At, TypeOK, PortsGiven
    <3> QED
      BY <3>1, <2>1, <1>3, PortsAssumption
  <2>4. EntryIsStored'
    <3> SUFFICES ASSUME NEW p \in Ports, entry[p] # None
                 PROVE  req'[entry[p]].pc \in {"udpstore", "ok"} /\ bound'[p] = entry[p]
      BY <2>1 DEF EntryIsStored, HasStored
    <3>1. entry[p] \in Reqs /\ HasStored(entry[p]) /\ bound[p] = entry[p]
      BY DEF PortInv, EntryIsStored, TypeOK
    <3> QED
      BY <3>1, <2>1, <2>2, <1>3
  <2>5. LoadedWasStored'
    <3> SUFFICES ASSUME NEW s \in Reqs, req'[s].pc \in {"remove", "close"}
                 PROVE  /\ req'[req'[s].got].pc \in {"udpstore", "ok"}
                        /\ req'[s].pc = "close" => entry[req'[s].old] # req'[s].got
      BY <2>1 DEF LoadedWasStored, At, HasStored
    <3>1. /\ req'[s] = req[s] /\ req[s].got \in Reqs /\ HasStored(req[s].got)
          /\ req[s].pc = "close" => entry[req[s].old] # req[s].got
      BY <2>1 DEF PortInv, LoadedWasStored, At, TypeOK, Request
    <3> QED
      BY <3>1, <2>2
  <2>6. CrossingsKnown'
    BY <1>1, <2>1, KeepsCrossings
  <2>7. RemovesLoaded'
    BY <2>1 DEF PortInv, RemovesLoaded, At
  <2>8. BoundIsReachable'
    <3> SUFFICES ASSUME NEW p \in Ports, p # port, p \notin crossed, bound[p] # None
                 PROVE  \/ entry[p] = bound[p]
                        \/ req'[bound[p]].pc = "store" /\ req'[bound[p]].port = p
                        \/ \E s \in Reqs : req'[s].pc = "close" /\ req'[s].old = p /\ req'[s].got = bound[p]
      BY <2>1 DEF BoundIsReachable, At
    <3>1. bound[p] \in Reqs
      BY DEF TypeOK
    <3>2. CASE At(bound[p], "store") /\ req[bound[p]].port = p
      BY <3>1, <3>2, <1>1, <2>1 DEF At
    <3>3. CASE \E s \in Reqs : At(s, "close") /\ req[s].old = p /\ req[s].got = bound[p]
      BY <3>3, <1>1, <2>1 DEF At
    <3> QED
      BY <3>2, <3>3 DEF PortInv, BoundIsReachable
  <2> QED
    BY <2>3, <2>4, <2>5, <2>6, <2>7, <2>8 DEF PortInv
<1> QED
  BY <1>2, <1>3 DEF Listen

LEMMA StoreConnPort ==
  ASSUME TypeOK, PortInv, NEW r \in Reqs, StoreConn(r)
  PROVE  PortInv'
<1> DEFINE port == req[r].port
<1>1. req[r].pc = "store" /\ port \in Ports /\ Running(r) /\ ~HasStored(r) /\ bound[port] = r
  BY DEF StoreConn, At, TypeOK, PortsGiven, Running, Ended, HasStored, PortInv, StoringIsBound
<1>2. /\ bound' = bound /\ crossed' = crossed
      /\ entry'[port] = r /\ \A p \in Ports \ {port} : entry'[p] = entry[p]
      /\ req'[r].pc \in {"udpstore", "ok"} /\ req'[r].old = req[r].old /\ req'[r].port = port
      /\ req'[r].got = req[r].got
      /\ \A s \in Reqs \ {r} : req'[s] = req[s]
  BY <1>1, GotoOnly DEF StoreConn, TypeOK
<1>3. \A s \in Reqs : HasStored(s) => s # r /\ req'[s].pc \in {"udpstore", "ok"}
  BY <1>1, <1>2 DEF HasStored
<1>4. StoringIsBound'
  BY <1>2 DEF PortInv, StoringIsBound, At
<1>5. EntryIsStored'
  <2> SUFFICES ASSUME NEW p \in Ports, p # port, entry[p] # None
               PROVE  req'[entry[p]].pc \in {"udpstore", "ok"} /\ bound[p] = entry[p]
    BY <1>1, <1>2 DEF EntryIsStored, HasStored
  <2> QED
    BY <1>3 DEF PortInv, EntryIsStored, TypeOK
<1>6. LoadedWasStored'
  <2> SUFFICES ASSUME NEW s \in Reqs, req'[s].pc \in {"remove", "close"}
               PROVE  /\ req'[req'[s].got].pc \in {"udpstore", "ok"}
                      /\ req'[s].pc = "close" => entry'[req'[s].old] # req'[s].got
    BY DEF LoadedWasStored, At, HasStored
  <2>1. /\ s # r /\ req'[s] = req[s] /\ req[s].got \in Reqs /\ HasStored(req[s].got)
        /\ req[s].old \in Ports
        /\ req[s].pc = "close" => entry[req[s].old] # req[s].got
    BY <1>2 DEF PortInv, LoadedWasStored, At, TypeOK, Request, PortsGiven
  <2> QED
    BY <2>1, <1>2, <1>3
<1>7. CrossingsKnown'
  BY <1>1, <1>2, KeepsCrossings
<1>8. RemovesLoaded'
  <2> SUFFICES ASSUME NEW s \in Reqs, req'[s].pc = "remove", req'[s].old \notin crossed
               PROVE  entry'[req'[s].old] = req'[s].got
    BY <1>2 DEF RemovesLoaded, At
  <2>1. s # r /\ req'[s] = req[s] /\ Running(s) /\ req[s].old \in Ports
    BY <1>2 DEF Running, Ended, TypeOK, PortsGiven
  <2>2. req[s].old # port
    BY <1>1, <2>1, PortsAssumption DEF PortInv, CrossingsKnown, PortsOf
  <2> QED
    BY <2>1, <2>2, <1>2 DEF PortInv, RemovesLoaded, At
<1>9. BoundIsReachable'
  <2> SUFFICES ASSUME NEW p \in Ports, p # port, p \notin crossed, bound[p] # None
               PROVE  \/ entry[p] = bound[p]
                      \/ req'[bound[p]].pc = "store" /\ req'[bound[p]].port = p
                      \/ \E s \in Reqs : req'[s].pc = "close" /\ req'[s].old = p /\ req'[s].got = bound[p]
    BY <1>1, <1>2 DEF BoundIsReachable, At
  <2>1. bound[p] \in Reqs
    BY DEF TypeOK
  <2>2. CASE At(bound[p], "store") /\ req[bound[p]].port = p
    BY <2>1, <2>2, <1>1, <1>2 DEF At
  <2>3. CASE \E s \in Reqs : At(s, "close") /\ req[s].old = p /\ req[s].got = bound[p]
    BY <2>3, <1>1, <1>2 DEF At
  <2> QED
    BY <2>2, <2>3 DEF PortInv, BoundIsReachable
<1> QED
  BY <1>4, <1>5, <1>6, <1>7, <1>8, <1>9 DEF PortInv

\* The probe and the UDP half of AddRule.
LEMMA ProbePort ==
  ASSUME TypeOK, PortInv, NEW r \in Reqs, Probe(r) \/ UdpStore(r)
  PROVE  PortInv'
<1>1. bound' = bound /\ entry' = entry /\ crossed' = crossed
  BY DEF Probe, UdpStore, tcp
<1>2. CASE Probe(r)
  <2>1. req[r].pc = "probe" /\ Running(r) /\ ~HasStored(r)
    BY <1>2 DEF Probe, At, Running, Ended, HasStored
  <2>2. PICK pc \in {"bind", "error"} : Goto(r, pc)
    BY <1>2 DEF Probe
  <2>3. /\ req'[r].pc \in {"bind", "error"}
        /\ req'[r].old = req[r].old /\ req'[r].port = req[r].port /\ req'[r].got = req[r].got
        /\ \A s \in Reqs \ {r} : req'[s] = req[s]
    BY <2>2, GotoOnly
  <2> QED
    BY <2>1, <2>3, <1>1, TcpUntouched
<1>3. CASE UdpStore(r)
  <2>1. req[r].pc = "udpstore" /\ Running(r) /\ Goto(r, "ok")
    BY <1>3 DEF UdpStore, At, Running, Ended
  <2>2. HasStored(r)'
    BY <2>1, GotoOnly DEF HasStored
  <2>3. /\ req'[r].pc = "ok"
        /\ req'[r].old = req[r].old /\ req'[r].port = req[r].port /\ req'[r].got = req[r].got
        /\ \A s \in Reqs \ {r} : req'[s] = req[s]
    BY <2>1, GotoOnly
  <2> QED
    BY <2>1, <2>2, <2>3, <1>1, TcpUntouched
<1> QED
  BY <1>2, <1>3

LEMMA DiesPort ==
  ASSUME TypeOK, PortInv, NEW r \in Reqs, Dies(r)
  PROVE  PortInv'
<1>1. \A s \in Reqs : ~Running(s)'
  BY DiesParts DEF Running, Ended
<1>2. StoringIsBound' /\ EntryIsStored' /\ LoadedWasStored' /\ RemovesLoaded' /\ BoundIsReachable'
  BY DiesParts DEF StoringIsBound, EntryIsStored, LoadedWasStored, RemovesLoaded, BoundIsReachable, At
<1>3. CrossingsKnown'
  BY <1>1 DEF CrossingsKnown
<1>. QED
  BY <1>2, <1>3 DEF PortInv

\* TypeOK and PortInv are inductive.
LEMMA NextPort ==
  ASSUME TypeOK, PortInv, [Next]_vars
  PROVE  PortInv'
<1>1. CASE bound' = bound /\ entry' = entry /\ req' = req /\ crossed' = crossed
  BY <1>1 DEF PortInv, StoringIsBound, EntryIsStored, LoadedWasStored, CrossingsKnown,
              RemovesLoaded, BoundIsReachable, HasStored, At, Running, PortsOf
<1>2. ASSUME NEW r \in Reqs, Arrive(r) PROVE PortInv'
  BY <1>2, ArrivePort
<1>3. ASSUME NEW r \in Reqs, DelPort(r) PROVE PortInv'
  BY <1>3, LoadPort, RemovePort, ClosePort, UdpHalfPort DEF DelPort
<1>4. ASSUME NEW r \in Reqs, AddRule(r) PROVE PortInv'
  BY <1>4, ProbePort, ListenPort, StoreConnPort DEF AddRule
<1>5. ASSUME NEW r \in Reqs, UdpStart(r) PROVE PortInv'
  BY <1>5, <1>1 DEF UdpStart, tcp
<1>6. CASE UNCHANGED vars
  BY <1>6, <1>1 DEF vars
<1> QED
  BY <1>2, <1>3, <1>4, <1>5, <1>6, DiesPort DEF Next, Work

\* The map is behind the sockets only by what some request has in hand,
\* whatever requests cross each other.
THEOREM PortInvariant == Spec => []PortInv
<1>1. TypeOK /\ PortInv /\ [Next]_vars => PortInv'
  BY NextPort
<1> QED
  BY InitPort, TypeCorrect, <1>1, PTL DEF Spec

\* The map never names a listener that is closed.
THEOREM EntriesAreLive == Spec => []EntryIsLive
<1>1. PortInv => EntryIsLive
  BY DEF PortInv, EntryIsStored, EntryIsLive
<1> QED
  BY <1>1, PortInvariant, PTL

\* A listener gets out of the map's reach only on a port two requests crossed on.
THEOREM NoListenerLost == Spec => []NoLeak
<1>1. TypeOK /\ PortInv => NoLeak
  <2> SUFFICES ASSUME TypeOK, PortInv, NEW p \in Ports, p \notin crossed, Quiet(p)
               PROVE  entry[p] = bound[p]
    BY DEF NoLeak
  <2>1. CASE bound[p] = None
    BY <2>1 DEF PortInv, EntryIsStored
  <2>2. CASE bound[p] # None
    <3>1. bound[p] \in Reqs /\ p # None
      BY <2>2, PortsAssumption DEF TypeOK
    <3>2. ~(At(bound[p], "store") /\ req[bound[p]].port = p)
      BY <3>1 DEF Quiet, At, Running, Ended, PortsOf
    <3>3. ~\E r \in Reqs : At(r, "close") /\ req[r].old = p /\ req[r].got = bound[p]
      BY <3>1 DEF Quiet, At, Running, Ended, PortsOf
    <3> QED
      BY <2>2, <3>2, <3>3 DEF PortInv, BoundIsReachable
  <2> QED
    BY <2>1, <2>2
<1> QED
  BY <1>1, TypeCorrect, PortInvariant, PTL

-----------------------------------------------------------------------------
(***************************************************************************)
(* The UDP half.  AddRule does not look for a socket there: that none is   *)
(* lost rests on the listener, which is opened first, and whose deletion   *)
(* goes on to close the socket.                                            *)
(***************************************************************************)

\* Who is in the map, or was loaded from it, left a forwarder on that port.
UdpEntryIsOwn ==
  /\ \A p \in Ports : udpEntry[p] # None => At(udpEntry[p], "ok") /\ req[udpEntry[p]].port = p
  /\ \A r \in Reqs : req[r].pc \in {"udpremove", "udpclose"} =>
       At(req[r].udpGot, "ok") /\ req[req[r].udpGot].port = req[r].old

\* A forwarder is what a request that is done has left.
LeftByDone == \A r \in Reqs : fwd[r] # "none" => At(r, "ok") /\ req[r].port \in Ports

AtWork(s, p) == (Running(s) /\ p \in PortsOf(s)) \/ (Starting(s) /\ p = req[s].port)

\* Whoever is on a port beside a forwarder that starts there has crossed it.
StartsKnown ==
  \A r, s \in Reqs : r # s /\ Starting(r) /\ AtWork(s, req[r].port) => req[r].port \in crossed

StartIsListed ==
  \A r \in Reqs : Starting(r) /\ req[r].port \notin crossed =>
    fwd[r] \in {"new", "nil"} /\ udpEntry[req[r].port] = r /\ bound[req[r].port] # None

\* On a port without crossings what is to be removed is what was loaded.
UdpInHand ==
  \A r \in Reqs : req[r].old \notin crossed =>
    /\ At(r, "udpremove") => udpEntry[req[r].old] = req[r].udpGot
    /\ At(r, "udpclose") => udpEntry[req[r].old] = None

UdpReachable ==
  \A p \in Ports \ crossed : udpBound[p] # None =>
    /\ fwd[udpBound[p]] = "bound" /\ req[udpBound[p]].port = p
    /\ \/ udpEntry[p] = udpBound[p]
       \/ \E r \in Reqs : At(r, "udpclose") /\ req[r].old = p /\ req[r].udpGot = udpBound[p]

\* The socket is closed after the listener.
UdpBehindTcp ==
  \A p \in Ports \ crossed : udpBound[p] # None =>
    \/ bound[p] # None
    \/ \E r \in Reqs : req[r].pc \in {"udpload", "udpremove", "udpclose"} /\ req[r].old = p

\* A request that has seen the port free has no socket there to lose.
NoSocketYet ==
  \A r \in Reqs : req[r].port \notin crossed =>
    /\ req[r].pc \in {"bind", "store", "udpstore"} => udpBound[req[r].port] = None
    /\ At(r, "udpstore") => bound[req[r].port] # None

UdpInv ==
  /\ UdpEntryIsOwn /\ LeftByDone /\ StartsKnown /\ StartIsListed
  /\ UdpInHand /\ UdpReachable /\ UdpBehindTcp /\ NoSocketYet

\* On a port without crossings a request is alone.
LEMMA AloneOnPort ==
  ASSUME TypeOK, PortInv, UdpInv, NEW r \in Reqs, Running(r), NEW p \in PortsOf(r), p \notin crossed
  PROVE  /\ fwd[r] = "none"
         /\ \A s \in Reqs \ {r} : ~AtWork(s, p)
<1>1. fwd[r] = "none"
  BY DEF UdpInv, LeftByDone, Running, Ended, At
<1>2. \A s \in Reqs \ {r} : ~(Running(s) /\ p \in PortsOf(s))
  BY DEF PortInv, CrossingsKnown
<1>3. \A s \in Reqs \ {r} : ~(Starting(s) /\ p = req[s].port)
  BY DEF UdpInv, StartsKnown, AtWork
<1> QED BY <1>1, <1>2, <1>3 DEF AtWork

\* A forwarder that starts beside nobody goes on to do so.
LEMMA KeepsStarts ==
  ASSUME TypeOK, UdpInv, NEW r \in Reqs, Running(r), crossed' = crossed, fwd' = fwd,
         req'[r].old = req[r].old, req'[r].port = req[r].port,
         \A s \in Reqs \ {r} : req'[s] = req[s]
  PROVE  StartsKnown'
<1>1. \A s \in Reqs : PortsOf(s)' = PortsOf(s) /\ (Running(s)' => Running(s)) /\ req'[s].port = req[s].port
  BY DEF PortsOf, Running
<1> QED BY <1>1 DEF UdpInv, StartsKnown, AtWork, Starting

\* A step of the TCP half, or one that finds nothing to do in the UDP half.
LEMMA UdpUntouched ==
  ASSUME TypeOK, PortInv, UdpInv, NEW r \in Reqs, Running(r),
         udpBound' = udpBound, udpEntry' = udpEntry, fwd' = fwd, crossed' = crossed,
         req'[r].old = req[r].old, req'[r].port = req[r].port,
         \A s \in Reqs \ {r} : req'[s] = req[s],
         req[r].pc \notin {"udpremove", "udpclose"}, req'[r].pc \notin {"udpremove", "udpclose"},
         \A p \in Ports : bound'[p] = None => bound[p] = None \/ (p = req[r].old /\ req'[r].pc = "udpload"),
         req[r].pc = "udpload" => req[r].old \in crossed \/ udpBound[req[r].old] = None,
         req'[r].pc \in {"bind", "store", "udpstore"} /\ req[r].port \notin crossed =>
           udpBound[req[r].port] = None,
         req'[r].pc = "udpstore" /\ req[r].port \notin crossed => bound'[req[r].port] # None
  PROVE  UdpInv'
<1>1. fwd[r] = "none"
  BY DEF UdpInv, LeftByDone, Running, Ended, At
<1>2. UdpEntryIsOwn'
  BY DEF UdpInv, UdpEntryIsOwn, At, Running, Ended, TypeOK, Request
<1>3. LeftByDone'
  BY <1>1 DEF UdpInv, LeftByDone, At
<1>4. StartsKnown'
  BY KeepsStarts
<1>5. StartIsListed'
  <2> SUFFICES ASSUME NEW s \in Reqs, Starting(s), req[s].port \notin crossed
               PROVE  fwd[s] \in {"new", "nil"} /\ udpEntry[req[s].port] = s /\ bound'[req[s].port] # None
    BY <1>1 DEF StartIsListed, Starting
  <2>1. s # r /\ req[s].port \in Ports
    BY <1>1 DEF UdpInv, LeftByDone, Starting
  <2>2. fwd[s] \in {"new", "nil"} /\ udpEntry[req[s].port] = s /\ bound[req[s].port] # None
    BY DEF UdpInv, StartIsListed
  <2>3. req[s].port # req[r].old
    BY <2>1, PortsAssumption DEF UdpInv, StartsKnown, AtWork, PortsOf
  <2> QED BY <2>1, <2>2, <2>3
<1>6. UdpInHand'
  BY DEF UdpInv, UdpInHand, At
<1>7. UdpReachable'
  <2> SUFFICES ASSUME NEW p \in Ports, p \notin crossed, udpBound[p] # None
               PROVE  /\ fwd[udpBound[p]] = "bound" /\ req'[udpBound[p]].port = p
                      /\ \/ udpEntry[p] = udpBound[p]
                         \/ \E s \in Reqs : req'[s].pc = "udpclose" /\ req'[s].old = p /\ req'[s].udpGot = udpBound[p]
    BY DEF UdpReachable, At
  <2>1. udpBound[p] \in Reqs
    BY DEF TypeOK
  <2>2. fwd[udpBound[p]] = "bound" /\ req[udpBound[p]].port = p
    BY DEF UdpInv, UdpReachable
  <2>3. \/ udpEntry[p] = udpBound[p]
        \/ \E s \in Reqs : req[s].pc = "udpclose" /\ req[s].old = p /\ req[s].udpGot = udpBound[p]
    BY DEF UdpInv, UdpReachable, At
  <2> QED BY <2>1, <2>2, <2>3, <1>1
<1>8. UdpBehindTcp'
  <2> SUFFICES ASSUME NEW p \in Ports, p \notin crossed, udpBound[p] # None, bound'[p] = None
               PROVE  \E s \in Reqs : req'[s].pc \in {"udpload", "udpremove", "udpclose"} /\ req'[s].old = p
    BY DEF UdpBehindTcp
  <2>1. CASE bound[p] # None
    BY <2>1
  <2>2. CASE bound[p] = None
    <3>1. PICK s \in Reqs : req[s].pc \in {"udpload", "udpremove", "udpclose"} /\ req[s].old = p
      BY <2>2 DEF UdpInv, UdpBehindTcp
    <3>2. s # r
      BY <3>1
    <3> QED BY <3>1, <3>2
  <2> QED BY <2>1, <2>2
<1>9. NoSocketYet'
  <2> SUFFICES ASSUME NEW s \in Reqs, s # r, req[s].port \notin crossed
               PROVE  /\ req[s].pc \in {"bind", "store", "udpstore"} => udpBound[req[s].port] = None
                      /\ req[s].pc = "udpstore" => bound'[req[s].port] # None
    BY DEF NoSocketYet, At
  <2>1. /\ req[s].pc \in {"bind", "store", "udpstore"} => udpBound[req[s].port] = None
        /\ req[s].pc = "udpstore" => bound[req[s].port] # None
    BY DEF UdpInv, NoSocketYet, At
  <2>2. ASSUME req[s].pc = "udpstore" PROVE req[s].port \in Ports /\ req[s].port # req[r].old
    <3>1. req[s].port \in PortsOf(s) /\ Running(s) /\ req[s].port \in Ports
      BY <2>2, PortsAssumption DEF TypeOK, PortsGiven, PortsOf, Running, Ended
    <3>2. req[s].port \notin PortsOf(r)
      BY <3>1 DEF PortInv, CrossingsKnown
    <3> QED BY <3>1, <3>2, PortsAssumption DEF PortsOf
  <2> QED BY <2>1, <2>2
<1> QED BY <1>2, <1>3, <1>4, <1>5, <1>6, <1>7, <1>8, <1>9 DEF UdpInv

\* What is at rest on a port without a listener and without crossings.
LEMMA NoListenerNoSocket ==
  ASSUME TypeOK, PortInv, UdpInv, NEW r \in Reqs, Running(r), NEW p \in PortsOf(r), p \notin crossed,
         p \in Ports, bound[p] = None, ~(req[r].pc \in {"udpload", "udpremove", "udpclose"} /\ req[r].old = p)
  PROVE  udpBound[p] = None
<1> SUFFICES ASSUME udpBound[p] # None PROVE FALSE
  OBVIOUS
<1>1. PICK s \in Reqs : req[s].pc \in {"udpload", "udpremove", "udpclose"} /\ req[s].old = p
  BY DEF UdpInv, UdpBehindTcp
<1>2. s # r /\ AtWork(s, p)
  BY <1>1, PortsAssumption DEF AtWork, Running, Ended, PortsOf
<1> QED BY <1>2, AloneOnPort

LEMMA TcpHalfUdp ==
  ASSUME TypeOK, PortInv, UdpInv, NEW r \in Reqs,
         Load(r) \/ Remove(r) \/ Close(r) \/ Probe(r) \/ Listen(r) \/ StoreConn(r)
  PROVE  UdpInv'
<1>1. udpBound' = udpBound /\ udpEntry' = udpEntry /\ fwd' = fwd /\ crossed' = crossed
  BY DEF Load, Remove, Close, Probe, Listen, StoreConn, udp
<1>2. Running(r) /\ req[r].pc \in {"load", "remove", "close", "probe", "bind", "store"}
  BY DEF Load, Remove, Close, Probe, Listen, StoreConn, At, Running, Ended
<1>3. req[r].pc \in {"probe", "bind", "store"} => req[r].port \in Ports /\ req[r].port \in PortsOf(r)
  BY PortsAssumption DEF TypeOK, PortsGiven, PortsOf
<1>4. CASE Load(r)
  <2>1. bound' = bound /\ req[r].pc = "load"
    BY <1>4 DEF Load, tcp, At
  <2>2. CASE Goto(r, AfterDelPort(r))
    <3>1. req'[r].pc \in {"probe", "ok"} /\ req'[r].old = req[r].old /\ req'[r].port = req[r].port
          /\ \A s \in Reqs \ {r} : req'[s] = req[s]
      BY <2>2, GotoOnly DEF AfterDelPort
    <3> QED BY <1>1, <1>2, <2>1, <3>1, UdpUntouched
  <2>3. CASE req' = [req EXCEPT ![r].pc = "remove", ![r].got = entry[req[r].old]]
    <3>1. req'[r].pc = "remove" /\ req'[r].old = req[r].old /\ req'[r].port = req[r].port
          /\ \A s \in Reqs \ {r} : req'[s] = req[s]
      BY <2>3 DEF TypeOK, Request
    <3> QED BY <1>1, <1>2, <2>1, <3>1, UdpUntouched
  <2> QED BY <1>4, <2>2, <2>3 DEF Load
<1>5. CASE Remove(r)
  <2>1. bound' = bound /\ req[r].pc = "remove" /\ Goto(r, "close")
    BY <1>5 DEF Remove, At
  <2>2. req'[r].pc = "close" /\ req'[r].old = req[r].old /\ req'[r].port = req[r].port
        /\ \A s \in Reqs \ {r} : req'[s] = req[s]
    BY <2>1, GotoOnly
  <2> QED BY <1>1, <1>2, <2>1, <2>2, UdpUntouched
<1>6. CASE Close(r)
  <2>1. req[r].pc = "close" /\ Goto(r, "udpload")
        /\ \A p \in Ports : bound'[p] = None => bound[p] = None \/ p = req[r].old
    BY <1>6 DEF Close, At, TypeOK
  <2>2. req'[r].pc = "udpload" /\ req'[r].old = req[r].old /\ req'[r].port = req[r].port
        /\ \A s \in Reqs \ {r} : req'[s] = req[s]
    BY <2>1, GotoOnly
  <2> QED BY <1>1, <1>2, <2>1, <2>2, UdpUntouched
<1>7. CASE Probe(r)
  <2>1. bound' = bound /\ req[r].pc = "probe"
        /\ Goto(r, IF bound[req[r].port] = None THEN "bind" ELSE "error")
    BY <1>7 DEF Probe, At, tcp
  <2>2. /\ req'[r].pc = IF bound[req[r].port] = None THEN "bind" ELSE "error"
        /\ req'[r].old = req[r].old /\ req'[r].port = req[r].port
        /\ \A s \in Reqs \ {r} : req'[s] = req[s]
    BY <2>1, GotoOnly
  <2>3. req'[r].pc = "bind" /\ req[r].port \notin crossed => udpBound[req[r].port] = None
    BY <1>2, <1>3, <2>1, <2>2, NoListenerNoSocket
  <2>4. req'[r].pc \in {"bind", "error"}
    BY <2>2
  <2> QED BY <1>1, <1>2, <2>1, <2>2, <2>3, <2>4, UdpUntouched
<1>8. CASE Listen(r)
  <2>1. /\ req[r].pc = "bind"
        /\ \A p \in Ports : bound'[p] = None => bound[p] = None
        /\ Goto(r, "store") \/ Goto(r, "spin")
    BY <1>8, PortsAssumption DEF Listen, At, TypeOK
  <2>2. /\ req'[r].pc \in {"store", "spin"}
        /\ req'[r].old = req[r].old /\ req'[r].port = req[r].port
        /\ \A s \in Reqs \ {r} : req'[s] = req[s]
    BY <2>1, GotoOnly
  <2>3. req[r].port \notin crossed => udpBound[req[r].port] = None
    BY <2>1 DEF UdpInv, NoSocketYet
  <2> QED BY <1>1, <1>2, <2>1, <2>2, <2>3, UdpUntouched
<1>9. CASE StoreConn(r)
  <2>1. /\ req[r].pc = "store" /\ bound' = bound
        /\ Goto(r, "udpstore") \/ Goto(r, "ok")
    BY <1>9 DEF StoreConn, At
  <2>2. /\ req'[r].pc \in {"udpstore", "ok"}
        /\ req'[r].old = req[r].old /\ req'[r].port = req[r].port
        /\ \A s \in Reqs \ {r} : req'[s] = req[s]
    BY <2>1, GotoOnly
  <2>3. req[r].port \notin crossed => udpBound[req[r].port] = None
    BY <2>1 DEF UdpInv, NoSocketYet
  <2>4. bound'[req[r].port] # None
    BY <2>1, PortsAssumption DEF PortInv, StoringIsBound, At
  <2> QED BY <1>1, <1>2, <2>1, <2>2, <2>3, <2>4, UdpUntouched
<1> QED BY <1>4, <1>5, <1>6, <1>7, <1>8, <1>9

\* One that finds an entry has it in hand; one that finds none has no socket to close.
LEMMA UdpLoadUdp ==
  ASSUME TypeOK, PortInv, UdpInv, NEW r \in Reqs, UdpLoad(r)
  PROVE  UdpInv'
<1> DEFINE old == req[r].old
<1>1. /\ req[r].pc = "udpload" /\ old \in Ports /\ Running(r) /\ old \in PortsOf(r)
      /\ udpBound' = udpBound /\ udpEntry' = udpEntry /\ fwd' = fwd /\ crossed' = crossed /\ bound' = bound
  BY PortsAssumption DEF UdpLoad, At, TypeOK, PortsGiven, Running, Ended, PortsOf, udp, tcp
<1>2. CASE udpEntry[old] = None /\ Goto(r, AfterDelPort(r))
  <2>1. req'[r].pc \in {"probe", "ok"} /\ req'[r].old = req[r].old /\ req'[r].port = req[r].port
        /\ \A s \in Reqs \ {r} : req'[s] = req[s]
    BY <1>2, GotoOnly DEF AfterDelPort
  <2>2. ASSUME old \notin crossed, udpBound[old] # None PROVE FALSE
    <3>1. PICK s \in Reqs : At(s, "udpclose") /\ req[s].old = old
      BY <1>1, <1>2, <2>2 DEF UdpInv, UdpReachable
    <3>2. s # r /\ AtWork(s, old)
      BY <1>1, <3>1, PortsAssumption DEF At, AtWork, Running, Ended, PortsOf
    <3> QED BY <1>1, <2>2, <3>2, AloneOnPort
  <2> QED BY <1>1, <2>1, <2>2, UdpUntouched
<1>3. CASE /\ udpEntry[old] # None
           /\ req' = [req EXCEPT ![r].pc = "udpremove", ![r].udpGot = udpEntry[old]]
  <2>1. /\ req'[r].pc = "udpremove" /\ req'[r].old = old /\ req'[r].port = req[r].port
        /\ req'[r].udpGot = udpEntry[old]
        /\ \A s \in Reqs \ {r} : req'[s] = req[s]
    BY <1>3 DEF TypeOK, Request
  <2>2. udpEntry[old] \in Reqs /\ At(udpEntry[old], "ok") /\ req[udpEntry[old]].port = old
    BY <1>1, <1>3 DEF UdpInv, UdpEntryIsOwn, TypeOK
  <2>3. UdpEntryIsOwn'
    BY <1>1, <2>1, <2>2 DEF UdpInv, UdpEntryIsOwn, At, TypeOK, Request
  <2>4. fwd[r] = "none"
    BY <1>1 DEF UdpInv, LeftByDone, At
  <2>5. LeftByDone' /\ StartIsListed'
    BY <1>1, <2>1, <2>4 DEF UdpInv, LeftByDone, StartIsListed, Starting, At
  <2>6. StartsKnown'
    BY <1>1, <2>1, KeepsStarts
  <2>7. UdpInHand' /\ NoSocketYet'
    BY <1>1, <2>1 DEF UdpInv, UdpInHand, NoSocketYet, At
  <2>8. UdpReachable'
    <3> SUFFICES ASSUME NEW p \in Ports, p \notin crossed, udpBound[p] # None
                 PROVE  /\ fwd[udpBound[p]] = "bound" /\ req'[udpBound[p]].port = p
                        /\ \/ udpEntry[p] = udpBound[p]
                           \/ \E s \in Reqs : req'[s].pc = "udpclose" /\ req'[s].old = p /\ req'[s].udpGot = udpBound[p]
      BY <1>1 DEF UdpReachable, At
    <3>1. udpBound[p] \in Reqs
      BY DEF TypeOK
    <3>2. fwd[udpBound[p]] = "bound" /\ req[udpBound[p]].port = p
      BY DEF UdpInv, UdpReachable
    <3>3. \/ udpEntry[p] = udpBound[p]
          \/ \E s \in Reqs : req[s].pc = "udpclose" /\ req[s].old = p /\ req[s].udpGot = udpBound[p]
      BY DEF UdpInv, UdpReachable, At
    <3> QED BY <1>1, <2>1, <3>1, <3>2, <3>3
  <2>9. UdpBehindTcp'
    BY <1>1, <2>1 DEF UdpInv, UdpBehindTcp
  <2> QED BY <2>3, <2>5, <2>6, <2>7, <2>8, <2>9 DEF UdpInv
<1> QED BY <1>2, <1>3 DEF UdpLoad

\* The entry removed is the forwarder's that is about to be closed.
LEMMA UdpRemoveUdp ==
  ASSUME TypeOK, PortInv, UdpInv, NEW r \in Reqs, UdpRemove(r)
  PROVE  UdpInv'
<1> DEFINE old == req[r].old
<1>1. /\ req[r].pc = "udpremove" /\ old \in Ports /\ Running(r) /\ old \in PortsOf(r)
      /\ udpBound' = udpBound /\ fwd' = fwd /\ crossed' = crossed /\ bound' = bound
      /\ udpEntry'[old] = None /\ \A p \in Ports \ {old} : udpEntry'[p] = udpEntry[p]
  BY PortsAssumption DEF UdpRemove, At, TypeOK, PortsGiven, Running, Ended, PortsOf, tcp
<1>2. /\ req'[r].pc = "udpclose" /\ req'[r].old = old /\ req'[r].port = req[r].port
      /\ req'[r].udpGot = req[r].udpGot
      /\ \A s \in Reqs \ {r} : req'[s] = req[s]
  BY DEF UdpRemove, Goto, TypeOK, Request
<1>3. fwd[r] = "none"
  BY <1>1 DEF UdpInv, LeftByDone, At
<1>4. old \notin crossed => \A s \in Reqs \ {r} : ~AtWork(s, old)
  BY <1>1, AloneOnPort
<1>5. UdpEntryIsOwn'
  <2>1. \A s \in Reqs : At(s, "ok") => s # r /\ At(s, "ok")' /\ req'[s].port = req[s].port
    BY <1>1, <1>2 DEF At
  <2>2. ASSUME NEW p \in Ports, udpEntry'[p] # None
        PROVE  At(udpEntry[p], "ok")' /\ req'[udpEntry[p]].port = p /\ udpEntry'[p] = udpEntry[p]
    <3>1. p # old /\ udpEntry'[p] = udpEntry[p] /\ udpEntry[p] \in Reqs
      BY <1>1, <2>2 DEF TypeOK
    <3> QED BY <2>1, <2>2, <3>1 DEF UdpInv, UdpEntryIsOwn
  <2>3. ASSUME NEW s \in Reqs, req'[s].pc \in {"udpremove", "udpclose"}
        PROVE  req'[req'[s].udpGot].pc = "ok" /\ req'[req'[s].udpGot].port = req'[s].old
    <3>1. /\ req[s].pc \in {"udpremove", "udpclose"} /\ req'[s].udpGot = req[s].udpGot
          /\ req'[s].old = req[s].old
      BY <1>1, <1>2, <2>3
    <3>2. req[s].udpGot \in Reqs
      BY <3>1 DEF TypeOK, Request
    <3> QED BY <2>1, <3>1, <3>2 DEF UdpInv, UdpEntryIsOwn, At
  <2> QED BY <2>2, <2>3 DEF UdpEntryIsOwn, At
<1>6. LeftByDone'
  BY <1>1, <1>2, <1>3 DEF UdpInv, LeftByDone, At
<1>7. StartsKnown'
  BY <1>1, <1>2, KeepsStarts
<1>8. StartIsListed'
  <2> SUFFICES ASSUME NEW s \in Reqs, Starting(s), req[s].port \notin crossed
               PROVE  fwd[s] \in {"new", "nil"} /\ udpEntry'[req[s].port] = s /\ bound[req[s].port] # None
    BY <1>1, <1>2 DEF StartIsListed, Starting
  <2>1. s # r /\ req[s].port \in Ports
    BY <1>3 DEF UdpInv, LeftByDone, Starting
  <2>2. req[s].port # old
    BY <1>4, <2>1 DEF AtWork
  <2> QED BY <1>1, <2>1, <2>2 DEF UdpInv, StartIsListed
<1>9. UdpInHand'
  <2> SUFFICES ASSUME NEW s \in Reqs, req'[s].old \notin crossed
               PROVE  /\ req'[s].pc = "udpremove" => udpEntry'[req'[s].old] = req'[s].udpGot
                      /\ req'[s].pc = "udpclose" => udpEntry'[req'[s].old] = None
    BY <1>1 DEF UdpInHand, At
  <2>1. CASE s = r
    BY <2>1, <1>1, <1>2
  <2>2. CASE s # r
    <3>1. ASSUME req[s].pc \in {"udpremove", "udpclose"} PROVE req[s].old \in Ports /\ req[s].old # old
      <4>1. req[s].old \in Ports /\ AtWork(s, req[s].old)
        BY <3>1, PortsAssumption DEF TypeOK, PortsGiven, AtWork, Running, Ended, PortsOf
      <4> QED BY <4>1, <1>2, <1>4, <2>2
    <3> QED BY <2>2, <3>1, <1>1, <1>2 DEF UdpInv, UdpInHand, At
  <2> QED BY <2>1, <2>2
<1>10. UdpReachable'
  <2> SUFFICES ASSUME NEW p \in Ports, p \notin crossed, udpBound[p] # None
               PROVE  /\ fwd[udpBound[p]] = "bound" /\ req'[udpBound[p]].port = p
                      /\ \/ udpEntry'[p] = udpBound[p]
                         \/ \E s \in Reqs : req'[s].pc = "udpclose" /\ req'[s].old = p /\ req'[s].udpGot = udpBound[p]
    BY <1>1 DEF UdpReachable, At
  <2>1. udpBound[p] \in Reqs /\ fwd[udpBound[p]] = "bound" /\ req[udpBound[p]].port = p
    BY DEF TypeOK, UdpInv, UdpReachable
  <2>2. CASE \E s \in Reqs : req[s].pc = "udpclose" /\ req[s].old = p /\ req[s].udpGot = udpBound[p]
    BY <2>1, <2>2, <1>1, <1>2, <1>3
  <2>3. CASE udpEntry[p] = udpBound[p] /\ p # old
    BY <2>1, <2>3, <1>1, <1>2, <1>3
  <2>4. CASE udpEntry[p] = udpBound[p] /\ p = old
    <3>1. req[r].udpGot = udpBound[p]
      BY <2>4, <1>1 DEF UdpInv, UdpInHand, At
    <3> QED BY <2>1, <2>4, <3>1, <1>1, <1>2, <1>3
  <2> QED BY <2>2, <2>3, <2>4 DEF UdpInv, UdpReachable, At
<1>11. UdpBehindTcp' /\ NoSocketYet'
  BY <1>1, <1>2 DEF UdpInv, UdpBehindTcp, NoSocketYet, At
<1> QED BY <1>5, <1>6, <1>7, <1>8, <1>9, <1>10, <1>11 DEF UdpInv

\* The handler goes on with the socket closed, or panics with none to close.
LEMMA UdpCloseUdp ==
  ASSUME TypeOK, PortInv, UdpInv, NEW r \in Reqs, UdpClose(r)
  PROVE  UdpInv'
<1> DEFINE old == req[r].old
           f == req[r].udpGot
<1>1. /\ req[r].pc = "udpclose" /\ old \in Ports /\ Running(r) /\ old \in PortsOf(r) /\ f \in Reqs
      /\ udpEntry' = udpEntry /\ crossed' = crossed /\ bound' = bound
  BY PortsAssumption DEF UdpClose, At, TypeOK, PortsGiven, Running, Ended, PortsOf, tcp, Request
<1>2. /\ req'[r].pc \in {"probe", "ok", "panic"} /\ req'[r].old = old /\ req'[r].port = req[r].port
      /\ \A s \in Reqs \ {r} : req'[s] = req[s]
  <2>1. \E pc \in {"probe", "ok", "panic"} : Goto(r, pc)
    BY DEF UdpClose, AfterDelPort
  <2> QED BY <2>1, GotoOnly
<1>3. /\ \A s \in Reqs \ {f} : fwd'[s] = fwd[s]
      /\ fwd'[f] = CASE fwd[f] = "bound" -> "closed" [] fwd[f] = "new" -> "cut" [] OTHER -> fwd[f]
  BY <1>1 DEF UdpClose, TypeOK
<1>4. /\ \A p \in Ports : udpBound'[p] = IF p = old /\ udpBound[p] = f /\ fwd[f] = "bound" THEN None ELSE udpBound[p]
  BY DEF UdpClose
<1>5. fwd[r] = "none" /\ f # r /\ At(f, "ok") /\ req[f].port = old
  BY <1>1 DEF UdpInv, LeftByDone, UdpEntryIsOwn, At
<1>6. old \notin crossed => \A s \in Reqs \ {r} : ~AtWork(s, old)
  BY <1>1, AloneOnPort
<1>7. old \notin crossed => udpBound'[old] = None
  <2> SUFFICES ASSUME old \notin crossed, udpBound[old] # None
               PROVE  udpBound[old] = f /\ fwd[f] = "bound"
    BY <1>1, <1>4
  <2>1. udpEntry[old] = None
    BY <1>1 DEF UdpInv, UdpInHand, At
  <2>2. PICK s \in Reqs : At(s, "udpclose") /\ req[s].old = old /\ req[s].udpGot = udpBound[old]
    BY <1>1, <2>1 DEF UdpInv, UdpReachable
  <2>3. s = r
    BY <1>1, <1>6, <2>2 DEF At, AtWork, Running, Ended, PortsOf
  <2> QED BY <1>1, <2>2, <2>3 DEF UdpInv, UdpReachable
<1>8. \A s \in Reqs : (Starting(s)' <=> Starting(s)) /\ (s # f => fwd'[s] = fwd[s])
  BY <1>3, <1>1 DEF Starting, TypeOK
<1>9. UdpEntryIsOwn'
  <2>1. \A s \in Reqs : At(s, "ok") => s # r /\ At(s, "ok")' /\ req'[s].port = req[s].port
    BY <1>1, <1>2 DEF At
  <2>2. ASSUME NEW p \in Ports, udpEntry[p] # None
        PROVE  req'[udpEntry[p]].pc = "ok" /\ req'[udpEntry[p]].port = p
    <3>1. udpEntry[p] \in Reqs
      BY <2>2 DEF TypeOK
    <3> QED BY <2>1, <2>2, <3>1 DEF UdpInv, UdpEntryIsOwn, At
  <2>3. ASSUME NEW s \in Reqs, req'[s].pc \in {"udpremove", "udpclose"}
        PROVE  req'[req'[s].udpGot].pc = "ok" /\ req'[req'[s].udpGot].port = req'[s].old
    <3>1. s # r /\ req[s].pc \in {"udpremove", "udpclose"} /\ req'[s] = req[s]
      BY <1>2, <2>3
    <3>2. req[s].udpGot \in Reqs
      BY <3>1 DEF TypeOK, Request
    <3> QED BY <2>1, <3>1, <3>2 DEF UdpInv, UdpEntryIsOwn, At
  <2> QED BY <1>1, <2>2, <2>3 DEF UdpEntryIsOwn, At
<1>10. LeftByDone'
  BY <1>1, <1>2, <1>3, <1>5 DEF UdpInv, LeftByDone, At
<1>11. StartsKnown'
  <2>1. \A s \in Reqs : PortsOf(s)' = PortsOf(s) /\ (Running(s)' => Running(s)) /\ req'[s].port = req[s].port
    BY <1>1, <1>2 DEF PortsOf, Running
  <2> QED BY <1>1, <1>8, <2>1 DEF UdpInv, StartsKnown, AtWork
<1>12. StartIsListed'
  <2> SUFFICES ASSUME NEW s \in Reqs, Starting(s), req[s].port \notin crossed
               PROVE  fwd'[s] \in {"new", "nil"} /\ udpEntry[req[s].port] = s /\ bound[req[s].port] # None
    BY <1>1, <1>2, <1>8 DEF StartIsListed
  <2>1. s # r
    BY <1>5 DEF Starting
  <2>2. s # f
    BY <1>5, <1>6, <2>1 DEF AtWork
  <2> QED BY <1>8, <2>2 DEF UdpInv, StartIsListed
<1>13. UdpInHand'
  BY <1>1, <1>2 DEF UdpInv, UdpInHand, At
<1>14. UdpReachable'
  <2> SUFFICES ASSUME NEW p \in Ports, p \notin crossed, udpBound'[p] # None
               PROVE  /\ fwd'[udpBound'[p]] = "bound" /\ req'[udpBound'[p]].port = p
                      /\ \/ udpEntry[p] = udpBound'[p]
                         \/ \E s \in Reqs : req'[s].pc = "udpclose" /\ req'[s].old = p /\ req'[s].udpGot = udpBound'[p]
    BY <1>1 DEF UdpReachable, At
  <2>1. p # old /\ udpBound'[p] = udpBound[p] /\ udpBound[p] # None /\ udpBound[p] \in Reqs
    BY <1>4, <1>7 DEF TypeOK
  <2>2. fwd[udpBound[p]] = "bound" /\ req[udpBound[p]].port = p
    BY <2>1 DEF UdpInv, UdpReachable
  <2>3. udpBound[p] # f /\ udpBound[p] # r
    BY <1>5, <2>1, <2>2
  <2>4. \/ udpEntry[p] = udpBound[p]
        \/ \E s \in Reqs : req[s].pc = "udpclose" /\ req[s].old = p /\ req[s].udpGot = udpBound[p]
    BY <2>1 DEF UdpInv, UdpReachable, At
  <2> QED BY <2>1, <2>2, <2>3, <2>4, <1>2, <1>8
<1>15. UdpBehindTcp'
  <2> SUFFICES ASSUME NEW p \in Ports, p \notin crossed, udpBound'[p] # None, bound[p] = None
               PROVE  \E s \in Reqs : req'[s].pc \in {"udpload", "udpremove", "udpclose"} /\ req'[s].old = p
    BY <1>1 DEF UdpBehindTcp
  <2>1. p # old /\ udpBound[p] # None
    BY <1>4, <1>7
  <2> QED BY <2>1, <1>2 DEF UdpInv, UdpBehindTcp
<1>16. NoSocketYet'
  <2> SUFFICES ASSUME NEW s \in Reqs, req[s].port \notin crossed, req[s].pc \in {"bind", "store", "udpstore"}
               PROVE  /\ udpBound'[req[s].port] = None
                      /\ req[s].pc = "udpstore" => bound[req[s].port] # None
    BY <1>1, <1>2 DEF NoSocketYet, At
  <2>1. req[s].port \in Ports
    BY DEF TypeOK, PortsGiven
  <2> QED BY <1>4, <2>1 DEF UdpInv, NoSocketYet, At
<1> QED BY <1>9, <1>10, <1>11, <1>12, <1>13, <1>14, <1>15, <1>16 DEF UdpInv

\* The forwarder stored starts beside nobody, over no socket.
LEMMA UdpStoreUdp ==
  ASSUME TypeOK, PortInv, UdpInv, NEW r \in Reqs, UdpStore(r)
  PROVE  UdpInv'
<1> DEFINE port == req[r].port
<1>1. /\ req[r].pc = "udpstore" /\ port \in Ports /\ Running(r) /\ port \in PortsOf(r)
      /\ udpBound' = udpBound /\ crossed' = crossed /\ bound' = bound
      /\ udpEntry'[port] = r /\ \A p \in Ports \ {port} : udpEntry'[p] = udpEntry[p]
      /\ fwd'[r] \in {"new", "nil"} /\ \A s \in Reqs \ {r} : fwd'[s] = fwd[s]
  BY PortsAssumption DEF UdpStore, At, TypeOK, PortsGiven, Running, Ended, PortsOf, tcp
<1>2. /\ req'[r].pc = "ok" /\ req'[r].old = req[r].old /\ req'[r].port = port
      /\ \A s \in Reqs \ {r} : req'[s] = req[s]
  BY GotoOnly DEF UdpStore
<1>3. fwd[r] = "none"
  BY <1>1 DEF UdpInv, LeftByDone, At
<1>4. port \notin crossed => \A s \in Reqs \ {r} : ~AtWork(s, port)
  BY <1>1, AloneOnPort
<1>5. port \notin crossed => udpBound[port] = None /\ bound[port] # None
  BY <1>1 DEF UdpInv, NoSocketYet, At
<1>6. UdpEntryIsOwn'
  <2>1. \A s \in Reqs : At(s, "ok") => s # r /\ req'[s].pc = "ok" /\ req'[s].port = req[s].port
    BY <1>1, <1>2 DEF At
  <2>2. ASSUME NEW p \in Ports, udpEntry'[p] # None
        PROVE  req'[udpEntry'[p]].pc = "ok" /\ req'[udpEntry'[p]].port = p
    <3>1. CASE p = port
      BY <3>1, <1>1, <1>2
    <3>2. CASE p # port
      <4>1. udpEntry'[p] = udpEntry[p] /\ udpEntry[p] \in Reqs
        BY <3>2, <2>2, <1>1 DEF TypeOK
      <4> QED BY <2>1, <2>2, <4>1 DEF UdpInv, UdpEntryIsOwn
    <3> QED BY <3>1, <3>2
  <2>3. ASSUME NEW s \in Reqs, req'[s].pc \in {"udpremove", "udpclose"}
        PROVE  req'[req'[s].udpGot].pc = "ok" /\ req'[req'[s].udpGot].port = req'[s].old
    <3>1. s # r /\ req[s].pc \in {"udpremove", "udpclose"} /\ req'[s] = req[s]
      BY <1>2, <2>3
    <3>2. req[s].udpGot \in Reqs
      BY <3>1 DEF TypeOK, Request
    <3> QED BY <2>1, <3>1, <3>2 DEF UdpInv, UdpEntryIsOwn, At
  <2> QED BY <2>2, <2>3 DEF UdpEntryIsOwn, At
<1>7. LeftByDone'
  BY <1>1, <1>2 DEF UdpInv, LeftByDone, At
<1>8. StartsKnown'
  <2> SUFFICES ASSUME NEW s \in Reqs, NEW t \in Reqs, s # t, Starting(s)', AtWork(t, req[s].port)'
               PROVE  req[s].port \in crossed
    BY <1>1, <1>2 DEF StartsKnown
  <2>1. \A u \in Reqs \ {r} : AtWork(u, req[s].port)' => AtWork(u, req[s].port)
    BY <1>1, <1>2 DEF AtWork, Starting, Running, PortsOf
  <2>2. CASE s = r
    BY <2>1, <2>2, <1>4
  <2>3. CASE s # r /\ t # r
    BY <2>1, <2>3, <1>1 DEF UdpInv, StartsKnown, Starting
  <2>4. CASE t = r
    <3>1. req[s].port = port /\ Starting(s)
      BY <2>4, <1>1, <1>2 DEF AtWork, Running, Ended, Starting
    <3> QED BY <2>4, <3>1, <1>4 DEF AtWork
  <2> QED BY <2>2, <2>3, <2>4
<1>9. StartIsListed'
  <2> SUFFICES ASSUME NEW s \in Reqs, Starting(s)', req[s].port \notin crossed
               PROVE  fwd'[s] \in {"new", "nil"} /\ udpEntry'[req[s].port] = s /\ bound[req[s].port] # None
    BY <1>1, <1>2 DEF StartIsListed
  <2>1. CASE s = r
    BY <2>1, <1>1, <1>5
  <2>2. CASE s # r
    <3>1. Starting(s) /\ req[s].port \in Ports
      BY <2>2, <1>1 DEF Starting, UdpInv, LeftByDone
    <3>2. req[s].port # port
      BY <2>2, <3>1, <1>4 DEF AtWork
    <3> QED BY <2>2, <3>1, <3>2, <1>1 DEF UdpInv, StartIsListed
  <2> QED BY <2>1, <2>2
<1>10. UdpInHand'
  <2> SUFFICES ASSUME NEW s \in Reqs, s # r, req[s].old \notin crossed
               PROVE  /\ req[s].pc = "udpremove" => udpEntry'[req[s].old] = req[s].udpGot
                      /\ req[s].pc = "udpclose" => udpEntry'[req[s].old] = None
    BY <1>1, <1>2 DEF UdpInHand, At
  <2>1. ASSUME req[s].pc \in {"udpremove", "udpclose"} PROVE req[s].old \in Ports /\ req[s].old # port
    <3>1. req[s].old \in Ports /\ AtWork(s, req[s].old)
      BY <2>1, PortsAssumption DEF TypeOK, PortsGiven, AtWork, Running, Ended, PortsOf
    <3> QED BY <3>1, <1>4
  <2> QED BY <2>1, <1>1 DEF UdpInv, UdpInHand, At
<1>11. UdpReachable'
  <2> SUFFICES ASSUME NEW p \in Ports, p \notin crossed, udpBound[p] # None
               PROVE  /\ fwd'[udpBound[p]] = "bound" /\ req'[udpBound[p]].port = p
                      /\ \/ udpEntry'[p] = udpBound[p]
                         \/ \E s \in Reqs : req'[s].pc = "udpclose" /\ req'[s].old = p /\ req'[s].udpGot = udpBound[p]
    BY <1>1 DEF UdpReachable, At
  <2>1. udpBound[p] \in Reqs /\ fwd[udpBound[p]] = "bound" /\ req[udpBound[p]].port = p
    BY DEF TypeOK, UdpInv, UdpReachable
  <2>2. p # port /\ udpBound[p] # r
    BY <2>1, <1>3, <1>5
  <2>3. \/ udpEntry[p] = udpBound[p]
        \/ \E s \in Reqs : req[s].pc = "udpclose" /\ req[s].old = p /\ req[s].udpGot = udpBound[p]
    BY DEF UdpInv, UdpReachable, At
  <2> QED BY <2>1, <2>2, <2>3, <1>1, <1>2
<1>12. UdpBehindTcp' /\ NoSocketYet'
  BY <1>1, <1>2 DEF UdpInv, UdpBehindTcp, NoSocketYet, At
<1> QED BY <1>6, <1>7, <1>8, <1>9, <1>10, <1>11, <1>12 DEF UdpInv

\* On a port without crossings a forwarder binds as the one the map names.
LEMMA UdpStartUdp ==
  ASSUME TypeOK, PortInv, UdpInv, NEW r \in Reqs, UdpStart(r)
  PROVE  UdpInv'
<1> DEFINE port == req[r].port
<1>1. /\ Starting(r) /\ fwd[r] # "nil" /\ At(r, "ok") /\ port \in Ports
      /\ req' = req /\ udpEntry' = udpEntry /\ crossed' = crossed /\ bound' = bound
      /\ \A s \in Reqs \ {r} : fwd'[s] = fwd[s]
      /\ fwd'[r] \in {"bound", "closed", "failed"}
      /\ \A p \in Ports \ {port} : udpBound'[p] = udpBound[p]
      /\ udpBound'[port] = IF udpBound[port] = None THEN r ELSE udpBound[port]
      /\ udpBound[port] = None /\ fwd[r] = "new" => fwd'[r] = "bound"
  BY DEF UdpStart, TypeOK, UdpInv, LeftByDone, Starting, tcp
<1>2. \A s \in Reqs : Starting(s)' => Starting(s) /\ s # r
  BY <1>1 DEF Starting
<1>3. port \notin crossed => /\ \A s \in Reqs \ {r} : ~AtWork(s, port)
                            /\ fwd[r] = "new" /\ udpEntry[port] = r /\ bound[port] # None
  BY <1>1 DEF UdpInv, StartsKnown, StartIsListed
<1>4. UdpEntryIsOwn' /\ UdpInHand'
  BY <1>1 DEF UdpInv, UdpEntryIsOwn, UdpInHand, At
<1>5. LeftByDone'
  BY <1>1 DEF UdpInv, LeftByDone, At
<1>6. StartsKnown'
  BY <1>1, <1>2 DEF UdpInv, StartsKnown, AtWork, Running, PortsOf
<1>7. StartIsListed'
  BY <1>1, <1>2 DEF UdpInv, StartIsListed
<1>8. UdpReachable'
  <2> SUFFICES ASSUME NEW p \in Ports, p \notin crossed, udpBound'[p] # None
               PROVE  /\ fwd'[udpBound'[p]] = "bound" /\ req[udpBound'[p]].port = p
                      /\ \/ udpEntry[p] = udpBound'[p]
                         \/ \E s \in Reqs : req[s].pc = "udpclose" /\ req[s].old = p /\ req[s].udpGot = udpBound'[p]
    BY <1>1 DEF UdpReachable, At
  <2>1. CASE p = port /\ udpBound[port] = None
    BY <2>1, <1>1, <1>3
  <2>2. CASE ~(p = port /\ udpBound[port] = None)
    <3>1. udpBound'[p] = udpBound[p] /\ udpBound[p] # None /\ udpBound[p] \in Reqs
      BY <2>2, <1>1 DEF TypeOK
    <3>2. fwd[udpBound[p]] = "bound" /\ udpBound[p] # r
      BY <3>1, <1>1 DEF UdpInv, UdpReachable, Starting
    <3> QED BY <3>1, <3>2, <1>1 DEF UdpInv, UdpReachable, At
  <2> QED BY <2>1, <2>2
<1>9. UdpBehindTcp'
  <2> SUFFICES ASSUME NEW p \in Ports, p \notin crossed, udpBound'[p] # None, bound[p] = None
               PROVE  \E s \in Reqs : req[s].pc \in {"udpload", "udpremove", "udpclose"} /\ req[s].old = p
    BY <1>1 DEF UdpBehindTcp
  <2>1. udpBound[p] # None
    BY <1>1, <1>3
  <2> QED BY <2>1 DEF UdpInv, UdpBehindTcp
<1>10. NoSocketYet'
  <2> SUFFICES ASSUME NEW s \in Reqs, req[s].port \notin crossed, req[s].pc \in {"bind", "store", "udpstore"}
               PROVE  /\ udpBound'[req[s].port] = None
                      /\ req[s].pc = "udpstore" => bound[req[s].port] # None
    BY <1>1 DEF NoSocketYet, At
  <2>1. req[s].port \in Ports /\ AtWork(s, req[s].port) /\ s # r
    BY <1>1, PortsAssumption DEF TypeOK, PortsGiven, AtWork, Running, Ended, PortsOf, At
  <2>2. req[s].port # port
    BY <2>1, <1>3
  <2> QED BY <1>1, <2>1, <2>2 DEF UdpInv, NoSocketYet, At
<1> QED BY <1>4, <1>5, <1>6, <1>7, <1>8, <1>9, <1>10 DEF UdpInv

\* Who arrives where somebody is at work has crossed him.
LEMMA ArriveUdp ==
  ASSUME TypeOK, PortInv, UdpInv, NEW r \in Reqs, Arrive(r)
  PROVE  UdpInv'
<1>1. PICK old \in Ports \cup {None}, port \in Ports \cup {None} :
        /\ {old, port} # {None}
        /\ req' = [req EXCEPT ![r] =
                     [op   |-> IF old = None THEN "add" ELSE IF port = None THEN "del" ELSE "move",
                      old  |-> old, port |-> port, got |-> None, udpGot |-> None,
                      pc   |-> IF old = None THEN "probe" ELSE "load"]]
        /\ crossed' = crossed \cup {p \in {old, port} \ {None} : ~Quiet(p)}
  BY DEF Arrive
<1>2. /\ \A s \in Reqs \ {r} : req'[s] = req[s]
      /\ req'[r].pc \in {"probe", "load"} /\ req'[r].old = old /\ req'[r].port = port
      /\ req[r].pc = "idle"
  BY <1>1 DEF TypeOK, Arrive, At
<1>3. /\ bound' = bound /\ udpBound' = udpBound /\ udpEntry' = udpEntry /\ fwd' = fwd
      /\ crossed \subseteq crossed'
  BY <1>1 DEF Arrive, tcp, udp
<1>4. fwd[r] = "none"
  BY <1>2 DEF UdpInv, LeftByDone, At
<1>5. \A s \in Reqs : (Starting(s)' <=> Starting(s)) /\ (Starting(s) => s # r)
  BY <1>3, <1>4 DEF Starting
<1>6. UdpEntryIsOwn'
  <2>1. ASSUME NEW p \in Ports, udpEntry[p] # None
        PROVE  req'[udpEntry[p]].pc = "ok" /\ req'[udpEntry[p]].port = p
    BY <2>1, <1>2 DEF UdpInv, UdpEntryIsOwn, At, TypeOK
  <2>2. ASSUME NEW s \in Reqs, req'[s].pc \in {"udpremove", "udpclose"}
        PROVE  req'[req'[s].udpGot].pc = "ok" /\ req'[req'[s].udpGot].port = req'[s].old
    <3>1. s # r /\ req'[s] = req[s] /\ req[s].udpGot \in Reqs
      BY <1>2, <2>2 DEF TypeOK, Request
    <3> QED BY <2>2, <3>1, <1>2 DEF UdpInv, UdpEntryIsOwn, At
  <2> QED BY <2>1, <2>2, <1>3 DEF UdpEntryIsOwn, At
<1>7. LeftByDone'
  BY <1>2, <1>3, <1>4 DEF UdpInv, LeftByDone, At
<1>8. StartsKnown'
  <2> SUFFICES ASSUME NEW s \in Reqs, NEW t \in Reqs, s # t, Starting(s), AtWork(t, req[s].port)'
               PROVE  req[s].port \in crossed'
    BY <1>2, <1>5 DEF StartsKnown
  <2>1. CASE t = r
    <3>1. req[s].port \in {old, port} \ {None} /\ ~Quiet(req[s].port)
      BY <2>1, <1>2, <1>5 DEF AtWork, PortsOf, Quiet
    <3> QED BY <3>1, <1>1
  <2>2. CASE t # r
    <3>1. AtWork(t, req[s].port)
      BY <2>2, <1>2, <1>5 DEF AtWork, Running, PortsOf
    <3> QED BY <3>1, <1>3 DEF UdpInv, StartsKnown
  <2> QED BY <2>1, <2>2
<1>9. StartIsListed'
  BY <1>2, <1>3, <1>5 DEF UdpInv, StartIsListed
<1>10. UdpInHand' /\ NoSocketYet'
  BY <1>2, <1>3 DEF UdpInv, UdpInHand, NoSocketYet, At
<1>11. UdpReachable'
  <2> SUFFICES ASSUME NEW p \in Ports, p \notin crossed, udpBound[p] # None
               PROVE  /\ fwd[udpBound[p]] = "bound" /\ req'[udpBound[p]].port = p
                      /\ \/ udpEntry[p] = udpBound[p]
                         \/ \E s \in Reqs : req'[s].pc = "udpclose" /\ req'[s].old = p /\ req'[s].udpGot = udpBound[p]
    BY <1>3 DEF UdpReachable, At
  <2>1. udpBound[p] \in Reqs /\ fwd[udpBound[p]] = "bound" /\ req[udpBound[p]].port = p
    BY DEF TypeOK, UdpInv, UdpReachable
  <2>2. \/ udpEntry[p] = udpBound[p]
        \/ \E s \in Reqs : req[s].pc = "udpclose" /\ req[s].old = p /\ req[s].udpGot = udpBound[p]
    BY DEF UdpInv, UdpReachable, At
  <2> QED BY <2>1, <2>2, <1>2, <1>4
<1>12. UdpBehindTcp'
  <2> SUFFICES ASSUME NEW p \in Ports, p \notin crossed, udpBound[p] # None, bound[p] = None
               PROVE  \E s \in Reqs : req'[s].pc \in {"udpload", "udpremove", "udpclose"} /\ req'[s].old = p
    BY <1>3 DEF UdpBehindTcp
  <2>1. PICK s \in Reqs : req[s].pc \in {"udpload", "udpremove", "udpclose"} /\ req[s].old = p
    BY DEF UdpInv, UdpBehindTcp
  <2> QED BY <2>1, <1>2
<1> QED BY <1>6, <1>7, <1>8, <1>9, <1>10, <1>11, <1>12 DEF UdpInv

\* UdpInv is inductive beside TypeOK and PortInv.
LEMMA DiesUdp ==
  ASSUME TypeOK, NEW r \in Reqs, Dies(r)
  PROVE  UdpInv'
<1>1. \A s \in Reqs : ~Starting(s)'
  BY DiesParts DEF Starting
<1>2. StartsKnown' /\ StartIsListed'
  BY <1>1 DEF StartsKnown, StartIsListed
<1>3. UdpEntryIsOwn' /\ LeftByDone' /\ UdpInHand'
  BY DiesParts DEF UdpEntryIsOwn, LeftByDone, UdpInHand, At
<1>4. UdpReachable' /\ UdpBehindTcp' /\ NoSocketYet'
  BY DiesParts DEF UdpReachable, UdpBehindTcp, NoSocketYet, At
<1>. QED
  BY <1>2, <1>3, <1>4 DEF UdpInv

LEMMA NextUdp ==
  ASSUME TypeOK, PortInv, UdpInv, [Next]_vars
  PROVE  UdpInv'
<1>1. ASSUME NEW r \in Reqs, Arrive(r) PROVE UdpInv'
  BY <1>1, ArriveUdp
<1>2. ASSUME NEW r \in Reqs, DelPort(r) PROVE UdpInv'
  BY <1>2, TcpHalfUdp, UdpLoadUdp, UdpRemoveUdp, UdpCloseUdp DEF DelPort
<1>3. ASSUME NEW r \in Reqs, AddRule(r) PROVE UdpInv'
  BY <1>3, TcpHalfUdp, UdpStoreUdp DEF AddRule
<1>4. ASSUME NEW r \in Reqs, UdpStart(r) PROVE UdpInv'
  BY <1>4, UdpStartUdp
<1>5. CASE UNCHANGED vars
  BY <1>5 DEF vars, UdpInv, UdpEntryIsOwn, LeftByDone, StartsKnown, StartIsListed, UdpInHand,
              UdpReachable, UdpBehindTcp, NoSocketYet, AtWork, Starting, Running, PortsOf, At
<1> QED
  BY <1>1, <1>2, <1>3, <1>4, <1>5, DiesUdp DEF Next, Work

LEMMA InitUdp == Init => UdpInv
BY PortsAssumption
   DEF Init, UdpInv, UdpEntryIsOwn, LeftByDone, StartsKnown, StartIsListed, UdpInHand, UdpReachable,
       UdpBehindTcp, NoSocketYet, Starting, Idle, At

\* A forwarder's socket gets out of the map's reach only on a port two
\* requests crossed on, a forwarder that has not started counting as one.
THEOREM NoSocketLost == Spec => []NoUdpLeak
<1>1. Init => UdpInv
  BY InitUdp
<1>2. TypeOK /\ PortInv /\ UdpInv /\ [Next]_vars => UdpInv'
  BY NextUdp
<1>3. UdpInv => NoUdpLeak
  <2> SUFFICES ASSUME UdpInv, NEW p \in Ports, p \notin crossed, Quiet(p), udpBound[p] # None
               PROVE  udpEntry[p] = udpBound[p]
    BY DEF NoUdpLeak
  <2>1. ~\E r \in Reqs : At(r, "udpclose") /\ req[r].old = p
    BY PortsAssumption DEF Quiet, At, Running, Ended, PortsOf
  <2> QED BY <2>1 DEF UdpInv, UdpReachable
<1> QED
  BY <1>1, <1>2, <1>3, TypeCorrect, PortInvariant, PTL DEF Spec

-----------------------------------------------------------------------------
(***************************************************************************)
(* The promise.  Under a controller with one request at a time on a port   *)
(* what a request has found out stays so until it acts on it.              *)
(***************************************************************************)
Deleting == {"load", "remove", "close", "udpload", "udpremove", "udpclose"}

Closed == {"udpload", "udpremove", "udpclose"}

Adding == {"probe", "bind", "spin", "store", "udpstore"}

\* What r knows of the sockets of its ports.
Knows(r) ==
  LET q == req[r] IN
  /\ q.pc \in Deleting => q.op \in {"del", "move"}
  /\ q.pc \in Adding => q.op \in {"add", "move"}
  /\ q.op = "add" => q.old = None
  /\ q.op = "move" => q.old \in Ports
  /\ q.pc = "load" => q.got = None
  /\ q.pc \in {"remove", "close"} => bound[q.old] = q.got
  /\ q.pc \in Closed \/ (q.op = "move" /\ q.pc \in {"probe", "bind"}) => bound[q.old] = None
  /\ q.pc = "bind" => bound[q.port] = None

\* A forwarder finds its port free, and has its socket when it is deleted.
ForwardersInOrder ==
  /\ \A r \in Reqs : Starting(r) => udpBound[req[r].port] = None
  /\ \A p \in Ports : udpEntry[p] # None => fwd[udpEntry[p]] \in {"new", "nil", "bound"}
  /\ \A r \in Reqs : req[r].pc \in {"udpremove", "udpclose"} => fwd[req[r].udpGot] = "bound"

SerialInv ==
  /\ crossed = {}
  /\ \A r \in Reqs : Knows(r)
  /\ ForwardersInOrder

LEMMA OthersKnow ==
  ASSUME TypeOK, PortInv, SerialInv, NEW r \in Reqs, \A s \in Reqs \ {r} : req'[s] = req[s],
         \A p \in Ports : bound'[p] # bound[p] => Running(r) /\ p \in PortsOf(r)
  PROVE  \A s \in Reqs \ {r} : Knows(s)'
<1>. SUFFICES ASSUME NEW s \in Reqs, s # r PROVE Knows(s)'
  OBVIOUS
<1>1. Knows(s) /\ req'[s] = req[s]
  BY DEF SerialInv
<1>2. ASSUME NEW p \in Ports, Running(s), p \in PortsOf(s) PROVE bound'[p] = bound[p]
  BY <1>2 DEF PortInv, CrossingsKnown, SerialInv
<1>3. req[s].pc \in Deleting => req[s].old \in Ports /\ req[s].old \in PortsOf(s) /\ Running(s)
  BY PortsAssumption DEF Deleting, TypeOK, PortsGiven, PortsOf, Running, Ended
<1>4. req[s].pc \in Adding => req[s].port \in Ports /\ req[s].port \in PortsOf(s) /\ Running(s)
  BY PortsAssumption DEF Adding, TypeOK, PortsGiven, PortsOf, Running, Ended
<1>5. req[s].pc \in Adding /\ req[s].op = "move" => req[s].old \in Ports /\ req[s].old \in PortsOf(s)
  BY <1>1, PortsAssumption DEF Knows, PortsOf
<1>. QED
  BY <1>1, <1>2, <1>3, <1>4, <1>5 DEF Knows, Deleting, Closed, Adding

LEMMA ArriveKnows ==
  ASSUME TypeOK, PortInv, SerialInv, NEW r \in Reqs, Arrive(r)
  PROVE  \A s \in Reqs : Knows(s)'
<1>1. PICK old \in Ports \cup {None}, port \in Ports \cup {None} :
        /\ {old, port} # {None}
        /\ req' = [req EXCEPT ![r] =
                     [op   |-> IF old = None THEN "add" ELSE IF port = None THEN "del" ELSE "move",
                      old  |-> old, port |-> port, got |-> None, udpGot |-> None,
                      pc   |-> IF old = None THEN "probe" ELSE "load"]]
  BY DEF Arrive
<1>2. bound' = bound
  BY DEF Arrive, tcp
<1>3. Knows(r)'
  BY <1>1 DEF Knows, TypeOK, Deleting, Closed, Adding
<1>4. \A s \in Reqs \ {r} : req'[s] = req[s]
  BY <1>1 DEF TypeOK
<1>. QED
  BY <1>2, <1>3, <1>4, OthersKnow

LEMMA LoadKnows ==
  ASSUME TypeOK, PortInv, SerialInv, NEW r \in Reqs, Load(r)
  PROVE  /\ \A s \in Reqs : Knows(s)'
         /\ entry[req[r].old] = None => bound[req[r].old] = None
<1>. DEFINE old == req[r].old
<1>1. /\ req[r].pc = "load" /\ old \in Ports /\ Running(r) /\ old \in PortsOf(r)
      /\ bound' = bound /\ Knows(r) /\ crossed = {}
  BY PortsAssumption DEF Load, At, TypeOK, PortsGiven, Running, Ended, PortsOf, tcp, SerialInv
<1>2. entry[old] = None => bound[old] = None
  <2>. SUFFICES ASSUME entry[old] = None, bound[old] # None PROVE FALSE
    OBVIOUS
  <2>1. bound[old] \in Reqs
    BY <1>1 DEF TypeOK
  <2>2. CASE At(bound[old], "store") /\ req[bound[old]].port = old
    <3>1. bound[old] # r /\ Running(bound[old]) /\ old \in PortsOf(bound[old])
      BY <1>1, <2>1, <2>2, PortsAssumption DEF At, Running, Ended, PortsOf
    <3>. QED
      BY <1>1, <2>1, <3>1 DEF PortInv, CrossingsKnown
  <2>3. ASSUME NEW s \in Reqs, At(s, "close"), req[s].old = old PROVE FALSE
    <3>1. s # r /\ Running(s) /\ old \in PortsOf(s)
      BY <1>1, <2>3, PortsAssumption DEF At, Running, Ended, PortsOf
    <3>. QED
      BY <1>1, <3>1 DEF PortInv, CrossingsKnown
  <2>. QED
    BY <1>1, <2>2, <2>3 DEF PortInv, BoundIsReachable
<1>3. \A s \in Reqs \ {r} : req'[s] = req[s]
  BY GotoOnly DEF Load, TypeOK
<1>4. Knows(r)'
  <2>1. CASE entry[old] = None /\ Goto(r, AfterDelPort(r))
    <3>1. req'[r] = [req[r] EXCEPT !.pc = AfterDelPort(r)]
      BY <2>1, GotoOnly
    <3>2. /\ req'[r].pc = AfterDelPort(r) /\ req'[r].old = req[r].old /\ req'[r].op = req[r].op
      BY <2>1, GotoOnly
    <3>. QED
      BY <1>1, <1>2, <2>1, <3>2 DEF Knows, AfterDelPort, Deleting, Closed, Adding
  <2>2. CASE entry[old] # None /\ req' = [req EXCEPT ![r].pc = "remove", ![r].got = entry[old]]
    <3>1. /\ req'[r].pc = "remove" /\ req'[r].old = req[r].old /\ req'[r].op = req[r].op
          /\ req'[r].got = entry[old]
      BY <2>2 DEF TypeOK, Request
    <3>2. bound[old] = entry[old]
      BY <1>1, <2>2 DEF PortInv, EntryIsStored
    <3>. QED
      BY <1>1, <3>1, <3>2 DEF Knows, Deleting, Closed, Adding
  <2>. QED
    BY <2>1, <2>2 DEF Load
<1>. QED
  BY <1>1, <1>2, <1>3, <1>4, OthersKnow

LEMMA DelPortKnows ==
  ASSUME TypeOK, PortInv, SerialInv, NEW r \in Reqs,
         Remove(r) \/ Close(r) \/ UdpLoad(r) \/ UdpRemove(r) \/ UdpClose(r)
  PROVE  \A s \in Reqs : Knows(s)'
<1>. DEFINE old == req[r].old
<1>1. /\ req[r].pc \in {"remove", "close", "udpload", "udpremove", "udpclose"}
      /\ old \in Ports /\ Running(r) /\ old \in PortsOf(r) /\ Knows(r)
  BY PortsAssumption DEF Remove, Close, UdpLoad, UdpRemove, UdpClose, At, TypeOK, PortsGiven, Running,
     Ended, PortsOf, SerialInv
<1>2. CASE Remove(r)
  <2>1. /\ req[r].pc = "remove" /\ bound' = bound /\ req'[r].pc = "close" /\ req'[r].old = old
        /\ req'[r].op = req[r].op /\ req'[r].got = req[r].got
        /\ \A s \in Reqs \ {r} : req'[s] = req[s]
    BY <1>2, GotoOnly DEF Remove, At
  <2>2. Knows(r)'
    BY <1>1, <2>1 DEF Knows, Deleting, Closed, Adding
  <2>. QED
    BY <2>1, <2>2, OthersKnow
<1>3. CASE Close(r)
  <2>1. /\ req[r].pc = "close" /\ req'[r].pc = "udpload" /\ req'[r].old = old
        /\ req'[r].op = req[r].op /\ req'[r].got = req[r].got
        /\ \A s \in Reqs \ {r} : req'[s] = req[s]
        /\ bound'[old] = (IF bound[old] = req[r].got THEN None ELSE bound[old])
        /\ \A p \in Ports : p # old => bound'[p] = bound[p]
    BY <1>1, <1>3, GotoOnly DEF Close, At, TypeOK
  <2>2. Knows(r)'
    BY <1>1, <2>1 DEF Knows, Deleting, Closed, Adding
  <2>. QED
    BY <1>1, <2>1, <2>2, OthersKnow
<1>4. CASE UdpLoad(r) \/ UdpRemove(r) \/ UdpClose(r)
  <2>1. /\ bound' = bound /\ req[r].pc \in Closed
        /\ req'[r].pc \in Closed \cup {AfterDelPort(r), "panic"}
        /\ req'[r].old = old /\ req'[r].op = req[r].op /\ req'[r].got = req[r].got
        /\ \A s \in Reqs \ {r} : req'[s] = req[s]
    <3>1. CASE \E pc \in Closed \cup {AfterDelPort(r), "panic"} : Goto(r, pc)
      BY <1>4, <3>1, GotoOnly DEF UdpLoad, UdpRemove, UdpClose, tcp, At, Closed
    <3>2. CASE req' = [req EXCEPT ![r].pc = "udpremove", ![r].udpGot = udpEntry[req[r].old]]
      BY <1>4, <3>2 DEF UdpLoad, UdpRemove, UdpClose, tcp, At, Closed, TypeOK, Request
    <3>. QED
      BY <1>4, <3>1, <3>2 DEF UdpLoad, UdpRemove, UdpClose, Closed
  <2>2. Knows(r)'
    BY <1>1, <2>1 DEF Knows, AfterDelPort, Deleting, Closed, Adding
  <2>. QED
    BY <2>1, <2>2, OthersKnow
<1>. QED
  BY <1>2, <1>3, <1>4

LEMMA AddRuleKnows ==
  ASSUME TypeOK, PortInv, SerialInv, NEW r \in Reqs, AddRule(r)
  PROVE  \A s \in Reqs : Knows(s)'
<1>. DEFINE port == req[r].port
<1>1. /\ req[r].pc \in {"probe", "bind", "store", "udpstore"}
      /\ port \in Ports /\ Running(r) /\ port \in PortsOf(r) /\ Knows(r)
  BY PortsAssumption DEF AddRule, Probe, Listen, StoreConn, UdpStore, At, TypeOK, PortsGiven, Running,
     Ended, PortsOf, SerialInv
<1>2. CASE Probe(r)
  <2>1. /\ req[r].pc = "probe" /\ bound' = bound
        /\ req'[r].pc = (IF bound[port] = None THEN "bind" ELSE "error")
        /\ req'[r].old = req[r].old /\ req'[r].port = port /\ req'[r].op = req[r].op
        /\ \A s \in Reqs \ {r} : req'[s] = req[s]
    BY <1>2, GotoOnly DEF Probe, At, tcp
  <2>2. Knows(r)'
    BY <1>1, <2>1 DEF Knows, Deleting, Closed, Adding
  <2>. QED
    BY <2>1, <2>2, OthersKnow
<1>3. CASE Listen(r)
  <2>1. /\ req[r].pc = "bind" /\ bound[port] = None /\ bound' = [bound EXCEPT ![port] = r] /\ Goto(r, "store")
    BY <1>1, <1>3 DEF Listen, At, Knows
  <2>2. /\ req'[r].pc = "store" /\ req'[r].old = req[r].old /\ req'[r].port = port /\ req'[r].op = req[r].op
        /\ \A s \in Reqs \ {r} : req'[s] = req[s]
        /\ \A p \in Ports : p # port => bound'[p] = bound[p]
    BY <1>1, <2>1, GotoOnly DEF TypeOK
  <2>3. Knows(r)'
    BY <1>1, <2>1, <2>2 DEF Knows, Deleting, Closed, Adding
  <2>. QED
    BY <1>1, <2>2, <2>3, OthersKnow
<1>4. CASE StoreConn(r) \/ UdpStore(r)
  <2>1. /\ req[r].pc \in {"store", "udpstore"} /\ bound' = bound
        /\ req'[r].pc \in {"udpstore", "ok"}
        /\ req'[r].old = req[r].old /\ req'[r].port = port /\ req'[r].op = req[r].op
        /\ \A s \in Reqs \ {r} : req'[s] = req[s]
    BY <1>4, GotoOnly DEF StoreConn, UdpStore, At, tcp
  <2>2. Knows(r)'
    BY <1>1, <2>1 DEF Knows, Deleting, Closed, Adding
  <2>. QED
    BY <2>1, <2>2, OthersKnow
<1>. QED
  BY <1>2, <1>3, <1>4 DEF AddRule

LEMMA TcpHalfOrder ==
  ASSUME TypeOK, PortInv, UdpInv, SerialInv, NEW r \in Reqs,
         Arrive(r) \/ Load(r) \/ Remove(r) \/ Close(r) \/ Probe(r) \/ Listen(r) \/ StoreConn(r)
  PROVE  ForwardersInOrder'
<1>1. udpBound' = udpBound /\ udpEntry' = udpEntry /\ fwd' = fwd /\ ~At(r, "ok")
  BY DEF Arrive, Load, Remove, Close, Probe, Listen, StoreConn, udp, At
<1>2. fwd[r] = "none"
  BY <1>1 DEF UdpInv, LeftByDone
<1>3. req'[r].pc \notin {"udpremove", "udpclose"} /\ \A s \in Reqs \ {r} : req'[s] = req[s]
  <2>1. CASE Arrive(r)
    BY <2>1 DEF Arrive, TypeOK
  <2>2. ASSUME NEW pc \in {"probe", "ok", "close", "udpload", "bind", "error", "store", "spin", "udpstore"},
               Goto(r, pc)
        PROVE  req'[r].pc \notin {"udpremove", "udpclose"} /\ \A s \in Reqs \ {r} : req'[s] = req[s]
    BY <2>2, GotoOnly
  <2>3. CASE Load(r)
    <3>1. CASE req' = [req EXCEPT ![r].pc = "remove", ![r].got = entry[req[r].old]]
      BY <3>1 DEF TypeOK, Request
    <3>. QED
      BY <2>2, <2>3, <3>1 DEF Load, AfterDelPort
  <2>4. CASE Remove(r) \/ Close(r) \/ Listen(r) \/ StoreConn(r)
    BY <2>2, <2>4 DEF Remove, Close, Listen, StoreConn
  <2>5. CASE Probe(r)
    BY <2>2, <2>5 DEF Probe
  <2>. QED
    BY <2>1, <2>3, <2>4, <2>5
<1>. QED
  BY <1>1, <1>2, <1>3 DEF SerialInv, ForwardersInOrder, Starting

LEMMA UdpHalfOrder ==
  ASSUME TypeOK, PortInv, UdpInv, SerialInv, NEW r \in Reqs, UdpLoad(r) \/ UdpRemove(r) \/ UdpClose(r)
  PROVE  /\ ForwardersInOrder'
         /\ UdpClose(r) => Goto(r, AfterDelPort(r))
<1>. DEFINE old == req[r].old
            f == req[r].udpGot
<1>1. /\ req[r].pc \in {"udpload", "udpremove", "udpclose"}
      /\ old \in Ports /\ Running(r) /\ old \in PortsOf(r) /\ fwd[r] = "none" /\ crossed = {}
      /\ \A s \in Reqs \ {r} : ~AtWork(s, old)
  <2>1. /\ req[r].pc \in {"udpload", "udpremove", "udpclose"}
        /\ old \in Ports /\ Running(r) /\ old \in PortsOf(r) /\ crossed = {}
    BY PortsAssumption DEF UdpLoad, UdpRemove, UdpClose, At, TypeOK, PortsGiven, Running, Ended, PortsOf, SerialInv
  <2>. QED
    BY <2>1, AloneOnPort
<1>2. CASE UdpLoad(r)
  <2>1. udpBound' = udpBound /\ udpEntry' = udpEntry /\ fwd' = fwd /\ req[r].pc = "udpload"
    BY <1>2 DEF UdpLoad, udp, At
  <2>2. CASE Goto(r, AfterDelPort(r))
    <3>1. req'[r].pc \in {"probe", "ok"} /\ \A s \in Reqs \ {r} : req'[s] = req[s]
      BY <2>2, GotoOnly DEF AfterDelPort
    <3>. QED
      BY <1>1, <1>2, <2>1, <3>1 DEF SerialInv, ForwardersInOrder, Starting, UdpClose, At
  <2>3. CASE udpEntry[old] # None /\ req' = [req EXCEPT ![r].pc = "udpremove", ![r].udpGot = udpEntry[old]]
    <3>1. /\ req'[r].pc = "udpremove" /\ req'[r].udpGot = udpEntry[old]
          /\ \A s \in Reqs \ {r} : req'[s] = req[s]
      BY <2>3 DEF TypeOK, Request
    <3>2. udpEntry[old] \in Reqs /\ fwd[udpEntry[old]] \in {"new", "nil", "bound"} /\ req[udpEntry[old]].port = old
      BY <1>1, <2>3 DEF TypeOK, SerialInv, ForwardersInOrder, UdpInv, UdpEntryIsOwn
    <3>3. fwd[udpEntry[old]] = "bound"
      BY <1>1, <3>2 DEF AtWork, Starting
    <3>. QED
      BY <1>1, <1>2, <2>1, <3>1, <3>3 DEF SerialInv, ForwardersInOrder, Starting, UdpClose, At
  <2>. QED
    BY <1>2, <2>2, <2>3 DEF UdpLoad
<1>3. CASE UdpRemove(r)
  <2>1. /\ udpBound' = udpBound /\ fwd' = fwd /\ req[r].pc = "udpremove"
        /\ \A p \in Ports : udpEntry'[p] # None => udpEntry'[p] = udpEntry[p]
        /\ req'[r] = [req[r] EXCEPT !.pc = "udpclose"]
        /\ \A s \in Reqs \ {r} : req'[s] = req[s]
    BY <1>3, GotoOnly DEF UdpRemove, At, TypeOK
  <2>2. req'[r].udpGot = f
    BY <2>1 DEF TypeOK, Request
  <2>3. \A s \in Reqs : Starting(s)' => udpBound'[req'[s].port] = None
    BY <1>1, <2>1 DEF SerialInv, ForwardersInOrder, Starting
  <2>4. \A p \in Ports : udpEntry'[p] # None => fwd'[udpEntry'[p]] \in {"new", "nil", "bound"}
    BY <2>1 DEF SerialInv, ForwardersInOrder
  <2>5. \A s \in Reqs : req'[s].pc \in {"udpremove", "udpclose"} => fwd'[req'[s].udpGot] = "bound"
    <3>1. fwd[f] = "bound" /\ \A s \in Reqs : req[s].pc \in {"udpremove", "udpclose"} => fwd[req[s].udpGot] = "bound"
      BY <2>1 DEF SerialInv, ForwardersInOrder
    <3>2. \A s \in Reqs : req'[s].udpGot = req[s].udpGot
      BY <2>1, <2>2
    <3>3. \A s \in Reqs : req'[s].pc \in {"udpremove", "udpclose"} => (s = r \/ req[s].pc \in {"udpremove", "udpclose"})
      BY <2>1
    <3>. QED
      BY <2>1, <3>1, <3>2, <3>3
  <2>6. ~UdpClose(r)
    BY <2>1 DEF UdpClose, At
  <2>. QED
    BY <2>3, <2>4, <2>5, <2>6 DEF ForwardersInOrder
<1>4. CASE UdpClose(r)
  <2>1. /\ req[r].pc = "udpclose" /\ f \in Reqs /\ fwd[f] = "bound" /\ req[f].port = old /\ f # r
    BY <1>1, <1>4 DEF UdpClose, At, TypeOK, Request, SerialInv, ForwardersInOrder, UdpInv, UdpEntryIsOwn
  <2>2. Goto(r, AfterDelPort(r))
    BY <1>4, <2>1 DEF UdpClose
  <2>3. /\ req'[r].pc \in {"probe", "ok"} /\ \A s \in Reqs \ {r} : req'[s] = req[s]
        /\ udpEntry' = udpEntry
        /\ fwd'[f] = "closed" /\ \A s \in Reqs \ {f} : fwd'[s] = fwd[s]
        /\ \A p \in Ports : udpBound[p] = None => udpBound'[p] = None
    <3>1. req'[r].pc \in {"probe", "ok"} /\ \A s \in Reqs \ {r} : req'[s] = req[s]
      BY <2>2, GotoOnly DEF AfterDelPort
    <3>2. udpEntry' = udpEntry /\ \A p \in Ports : udpBound[p] = None => udpBound'[p] = None
      BY <1>4 DEF UdpClose
    <3>3. fwd'[f] = "closed" /\ \A s \in Reqs \ {f} : fwd'[s] = fwd[s]
      BY <1>4, <2>1 DEF UdpClose, TypeOK
    <3>. QED
      BY <3>1, <3>2, <3>3
  <2>4. \A s \in Reqs : Starting(s)' => Starting(s) /\ s # r /\ req[s].port \in Ports
    BY <1>1, <2>3 DEF Starting, UdpInv, LeftByDone
  <2>5. ASSUME NEW p \in Ports, udpEntry[p] # None PROVE udpEntry[p] # f /\ udpEntry[p] \in Reqs
    <3>1. udpEntry[old] = None
      BY <1>1, <2>1 DEF UdpInv, UdpInHand, At
    <3>2. p # old /\ req[udpEntry[p]].port = p
      BY <2>5, <3>1 DEF UdpInv, UdpEntryIsOwn
    <3>. QED
      BY <2>1, <2>5, <3>2 DEF TypeOK
  <2>6. ASSUME NEW s \in Reqs, req'[s].pc \in {"udpremove", "udpclose"}
        PROVE  s # r /\ req[s].udpGot # f /\ req[s].udpGot \in Reqs
    <3>1. s # r /\ req[s].pc \in {"udpremove", "udpclose"}
      BY <2>3, <2>6
    <3>2. req[s].old \in Ports /\ AtWork(s, req[s].old) /\ req[s].udpGot \in Reqs
      BY <3>1, PortsAssumption DEF TypeOK, PortsGiven, AtWork, Running, Ended, PortsOf, Request
    <3>3. req[s].old # old
      BY <1>1, <3>1, <3>2
    <3>. QED
      BY <2>1, <3>1, <3>2, <3>3 DEF UdpInv, UdpEntryIsOwn
  <2>7. ForwardersInOrder'
    BY <2>3, <2>4, <2>5, <2>6 DEF SerialInv, ForwardersInOrder
  <2>. QED
    BY <2>2, <2>7
<1>. QED
  BY <1>2, <1>3, <1>4

LEMMA UdpStoreOrder ==
  ASSUME TypeOK, PortInv, UdpInv, SerialInv, NEW r \in Reqs, UdpStore(r)
  PROVE  ForwardersInOrder'
<1>. DEFINE port == req[r].port
<1>1. /\ req[r].pc = "udpstore" /\ port \in Ports /\ crossed = {}
      /\ udpBound' = udpBound
      /\ udpEntry'[port] = r /\ \A p \in Ports \ {port} : udpEntry'[p] = udpEntry[p]
      /\ fwd'[r] \in {"new", "nil"} /\ \A s \in Reqs \ {r} : fwd'[s] = fwd[s]
      /\ req'[r].pc = "ok" /\ req'[r].port = port
      /\ \A s \in Reqs \ {r} : req'[s] = req[s]
  BY GotoOnly DEF UdpStore, At, TypeOK, PortsGiven, SerialInv
<1>2. udpBound[port] = None
  BY <1>1 DEF UdpInv, NoSocketYet
<1>3. \A s \in Reqs : At(s, "ok") => s # r
  BY <1>1 DEF At
<1>4. \A s \in Reqs : Starting(s)' => udpBound'[req'[s].port] = None
  BY <1>1, <1>2 DEF SerialInv, ForwardersInOrder, Starting
<1>5. \A p \in Ports : udpEntry'[p] # None => fwd'[udpEntry'[p]] \in {"new", "nil", "bound"}
  BY <1>1, <1>3 DEF SerialInv, ForwardersInOrder, UdpInv, UdpEntryIsOwn, TypeOK
<1>6. \A s \in Reqs : req'[s].pc \in {"udpremove", "udpclose"} => fwd'[req'[s].udpGot] = "bound"
  <2>. SUFFICES ASSUME NEW s \in Reqs, req'[s].pc \in {"udpremove", "udpclose"}
                PROVE  fwd'[req'[s].udpGot] = "bound"
    OBVIOUS
  <2>1. s # r /\ req'[s] = req[s] /\ req[s].udpGot \in Reqs /\ At(req[s].udpGot, "ok")
    BY <1>1 DEF TypeOK, Request, UdpInv, UdpEntryIsOwn
  <2>. QED
    BY <1>1, <1>3, <2>1 DEF SerialInv, ForwardersInOrder
<1>. QED
  BY <1>4, <1>5, <1>6 DEF ForwardersInOrder

LEMMA UdpStartOrder ==
  ASSUME TypeOK, PortInv, UdpInv, SerialInv, NEW r \in Reqs, UdpStart(r)
  PROVE  ForwardersInOrder'
<1>. DEFINE port == req[r].port
<1>1. Starting(r) /\ udpBound[port] = None /\ port \in Ports /\ crossed = {} /\ fwd[r] = "new"
  BY DEF UdpStart, SerialInv, ForwardersInOrder, UdpInv, LeftByDone, StartIsListed, Starting
<1>2. /\ udpBound' = [udpBound EXCEPT ![port] = r] /\ fwd' = [fwd EXCEPT ![r] = "bound"]
      /\ udpEntry' = udpEntry /\ req' = req
  BY <1>1 DEF UdpStart, TypeOK
<1>3. \A s \in Reqs : Starting(s)' => Starting(s) /\ s # r /\ req[s].port \in Ports /\ req[s].port # port
  BY <1>1, <1>2 DEF Starting, UdpInv, LeftByDone, StartsKnown, AtWork, TypeOK
<1>4. \A s \in Reqs : Starting(s)' => udpBound'[req'[s].port] = None
  BY <1>1, <1>2, <1>3 DEF SerialInv, ForwardersInOrder
<1>5. \A s \in Reqs : fwd[s] \in {"new", "nil", "bound"} => fwd'[s] \in {"new", "nil", "bound"}
  BY <1>1, <1>2 DEF TypeOK
<1>6. \A s \in Reqs : fwd[s] = "bound" => fwd'[s] = "bound"
  BY <1>1, <1>2 DEF TypeOK
<1>7. \A p \in Ports : udpEntry'[p] # None => fwd'[udpEntry'[p]] \in {"new", "nil", "bound"}
  BY <1>2, <1>5 DEF SerialInv, ForwardersInOrder, TypeOK
<1>8. \A s \in Reqs : req'[s].pc \in {"udpremove", "udpclose"} => fwd'[req'[s].udpGot] = "bound"
  BY <1>2, <1>6 DEF SerialInv, ForwardersInOrder, TypeOK, Request
<1>. QED
  BY <1>4, <1>7, <1>8 DEF ForwardersInOrder

LEMMA DiesSerial ==
  ASSUME TypeOK, SerialInv, NEW r \in Reqs, Dies(r)
  PROVE  SerialInv'
<1>1. crossed' = {}
  BY DiesParts DEF SerialInv
<1>2. \A s \in Reqs : Knows(s)'
  BY DiesParts DEF SerialInv, Knows, Deleting, Adding, Closed
<1>3. ForwardersInOrder'
  BY DiesParts DEF ForwardersInOrder, Starting
<1>. QED
  BY <1>1, <1>2, <1>3 DEF SerialInv

LEMMA NextSerial ==
  ASSUME TypeOK, PortInv, UdpInv, SerialInv, [SerialNext]_vars
  PROVE  SerialInv'
<1>1. ASSUME NEW r \in Reqs, ArriveAlone(r) PROVE SerialInv'
  BY <1>1, ArriveKnows, TcpHalfOrder DEF ArriveAlone, SerialInv
<1>2. ASSUME NEW r \in Reqs, DelPort(r) PROVE SerialInv'
  <2>1. crossed' = {}
    BY <1>2 DEF SerialInv, DelPort, Load, Remove, Close, UdpLoad, UdpRemove, UdpClose
  <2>. QED
    BY <1>2, <2>1, LoadKnows, DelPortKnows, TcpHalfOrder, UdpHalfOrder DEF DelPort, SerialInv
<1>3. ASSUME NEW r \in Reqs, AddRule(r) PROVE SerialInv'
  <2>1. crossed' = {}
    BY <1>3 DEF SerialInv, AddRule, Probe, Listen, StoreConn, UdpStore
  <2>. QED
    BY <1>3, <2>1, AddRuleKnows, TcpHalfOrder, UdpStoreOrder DEF AddRule, SerialInv
<1>4. ASSUME NEW r \in Reqs, UdpStart(r) PROVE SerialInv'
  <2>1. crossed' = {} /\ \A s \in Reqs : Knows(s)'
    BY <1>4 DEF SerialInv, UdpStart, tcp, Knows
  <2>. QED
    BY <1>4, <2>1, UdpStartOrder DEF SerialInv
<1>5. CASE UNCHANGED vars
  BY <1>5 DEF vars, SerialInv, Knows, ForwardersInOrder, Starting
<1>. QED
  BY <1>1, <1>2, <1>3, <1>4, <1>5, DiesSerial DEF SerialNext, Work

-----------------------------------------------------------------------------
(* The two tables of the promise, as functions of the agent's state. *)

Holds(q, r, p) ==
  /\ q[r].op = "move" /\ q[r].pc \in {"udpload", "udpremove", "udpclose", "probe", "bind"}
  /\ q[r].old = p /\ q[r].got # None

TableFor(q, b) ==
  [p \in Ports |-> IF \E r \in Reqs : Holds(q, r, p)
                   THEN q[CHOOSE r \in Reqs : Holds(q, r, p)].got
                   ELSE b[p]]

AnswerTo(q) ==
  IF \/ q.pc \in {"ok", "store", "udpstore"}
     \/ q.op = "del" /\ q.pc \in {"udpload", "udpremove", "udpclose"} THEN "ok"
  ELSE IF q.pc \in {"error", "cut"} THEN q.pc ELSE None

LEMMA TableIs == Table = TableFor(req, bound) /\ Table' = TableFor(req', bound')
BY DEF Table, TableFor, Holds, Halfway

LEMMA AnswerIs ==
  /\ Answer = [r \in Reqs |-> AnswerTo(req[r])]
  /\ Answer' = [r \in Reqs |-> AnswerTo(req'[r])]
BY DEF Answer, AnswerTo

LEMMA HeldTable ==
  ASSUME NEW q, NEW b, NEW p \in Ports, NEW r \in Reqs, Holds(q, r, p),
         \A s \in Reqs : Holds(q, s, p) => s = r
  PROVE  TableFor(q, b)[p] = q[r].got
<1>1. PICK c : c = CHOOSE s \in Reqs : Holds(q, s, p)
  OBVIOUS
<1>2. c \in Reqs /\ Holds(q, c, p)
  BY <1>1
<1>. QED
  BY <1>1, <1>2 DEF TableFor

LEMMA FreeTable ==
  ASSUME NEW q, NEW b, NEW p \in Ports, \A s \in Reqs : ~Holds(q, s, p)
  PROVE  TableFor(q, b)[p] = b[p]
BY DEF TableFor

\* Two requests do not hold one port.
LEMMA HoldsOnce ==
  ASSUME TypeOK, PortInv, SerialInv, NEW r \in Reqs, NEW p \in Ports, p \in PortsOf(r), Running(r)
  PROVE  \A s \in Reqs : Holds(req, s, p) => s = r
<1>. SUFFICES ASSUME NEW s \in Reqs, Holds(req, s, p) PROVE s = r
  OBVIOUS
<1>1. Running(s) /\ p \in PortsOf(s)
  BY PortsAssumption DEF Holds, Running, Ended, PortsOf
<1>. QED
  BY <1>1 DEF PortInv, CrossingsKnown, SerialInv

\* Whoever does not change what it holds leaves the table where it does not touch the sockets.
LEMMA TableKept ==
  ASSUME TypeOK, PortInv, SerialInv, NEW r \in Reqs, \A s \in Reqs \ {r} : req'[s] = req[s],
         NEW p \in Ports, bound'[p] = bound[p],
         Holds(req', r, p) <=> Holds(req, r, p), Holds(req, r, p) => req'[r].got = req[r].got
  PROVE  Table'[p] = Table[p]
<1>1. /\ \A s \in Reqs : Holds(req', s, p) <=> Holds(req, s, p)
      /\ \A s \in Reqs : Holds(req, s, p) => req'[s].got = req[s].got
  BY DEF Holds
<1>2. CASE \E s \in Reqs : Holds(req, s, p)
  <2>1. PICK s \in Reqs : Holds(req, s, p)
    BY <1>2
  <2>2. p \in PortsOf(s) /\ Running(s)
    BY <2>1, PortsAssumption DEF Holds, Running, Ended, PortsOf
  <2>3. \A t \in Reqs : Holds(req, t, p) => t = s
    BY <2>2, HoldsOnce
  <2>4. Holds(req', s, p) /\ \A t \in Reqs : Holds(req', t, p) => t = s
    BY <1>1, <2>1, <2>3
  <2>5. TableFor(req, bound)[p] = req[s].got
    BY <2>1, <2>3, HeldTable
  <2>6. TableFor(req', bound')[p] = req'[s].got
    BY <2>4, HeldTable
  <2>. QED
    BY <1>1, <2>1, <2>5, <2>6, TableIs
<1>3. CASE ~\E s \in Reqs : Holds(req, s, p)
  <2>1. TableFor(req, bound)[p] = bound[p]
    BY <1>3, FreeTable
  <2>2. \A s \in Reqs : ~Holds(req', s, p)
    BY <1>1, <1>3
  <2>3. TableFor(req', bound')[p] = bound'[p]
    BY <2>2, FreeTable
  <2>. QED
    BY <2>1, <2>3, TableIs
<1>. QED
  BY <1>2, <1>3

Stutters == Table' = Table /\ Answer' = Answer

\* A step between two answers that moves no socket.
LEMMA StutterStep ==
  ASSUME TypeOK, PortInv, SerialInv, NEW r \in Reqs, \A s \in Reqs \ {r} : req'[s] = req[s],
         bound' = bound, AnswerTo(req'[r]) = AnswerTo(req[r]),
         \A p \in Ports : Holds(req', r, p) <=> Holds(req, r, p),
         req'[r].got = req[r].got \/ ~\E p \in Ports : Holds(req, r, p)
  PROVE  Stutters
<1>1. \A p \in Ports : Table'[p] = Table[p]
  <2>. SUFFICES ASSUME NEW p \in Ports PROVE Table'[p] = Table[p]
    OBVIOUS
  <2>. QED
    BY TableKept
<1>2. Table' = Table
  BY <1>1 DEF Table
<1>3. Answer' = Answer
  BY AnswerIs
<1>. QED
  BY <1>2, <1>3 DEF Stutters

(* The table at a port that r works on. *)

LEMMA TableOpen ==
  ASSUME TypeOK, PortInv, SerialInv, NEW r \in Reqs, NEW p \in Ports, p \in PortsOf(r), Running(r),
         ~Holds(req, r, p)
  PROVE  Table[p] = bound[p]
<1>1. \A s \in Reqs : ~Holds(req, s, p)
  BY HoldsOnce
<1>2. TableFor(req, bound)[p] = bound[p]
  BY <1>1, FreeTable
<1>. QED
  BY <1>2, TableIs

LEMMA TableHeld ==
  ASSUME TypeOK, PortInv, SerialInv, NEW r \in Reqs, NEW p \in Ports, p \in PortsOf(r), Running(r),
         Holds(req, r, p)
  PROVE  Table[p] = req[r].got
<1>1. TableFor(req, bound)[p] = req[r].got
  BY HoldsOnce, HeldTable
<1>. QED
  BY <1>1, TableIs

LEMMA TableOpenAfter ==
  ASSUME TypeOK, PortInv, SerialInv, NEW r \in Reqs, NEW p \in Ports, p \in PortsOf(r), Running(r),
         \A s \in Reqs \ {r} : req'[s] = req[s], ~Holds(req', r, p)
  PROVE  Table'[p] = bound'[p]
<1>1. \A s \in Reqs : ~Holds(req', s, p)
  BY HoldsOnce DEF Holds
<1>2. TableFor(req', bound')[p] = bound'[p]
  BY <1>1, FreeTable
<1>. QED
  BY <1>2, TableIs

LEMMA TableHeldAfter ==
  ASSUME TypeOK, PortInv, SerialInv, NEW r \in Reqs, NEW p \in Ports, p \in PortsOf(r), Running(r),
         \A s \in Reqs \ {r} : req'[s] = req[s], Holds(req', r, p)
  PROVE  Table'[p] = req'[r].got
<1>1. \A s \in Reqs : Holds(req', s, p) => s = r
  BY HoldsOnce DEF Holds
<1>2. TableFor(req', bound')[p] = req'[r].got
  BY <1>1, HeldTable
<1>. QED
  BY <1>2, TableIs

LEMMA AnswerAfter ==
  ASSUME TypeOK, NEW r \in Reqs, \A s \in Reqs \ {r} : req'[s] = req[s]
  PROVE  /\ Answer[r] = AnswerTo(req[r])
         /\ Answer' = [Answer EXCEPT ![r] = AnswerTo(req'[r])]
BY AnswerIs

-----------------------------------------------------------------------------
(* The steps between two answers. *)

LEMMA ArriveStutters ==
  ASSUME TypeOK, PortInv, SerialInv, NEW r \in Reqs, Arrive(r)
  PROVE  Stutters
<1>1. \A s \in Reqs \ {r} : req'[s] = req[s]
  BY DEF Arrive, TypeOK
<1>2. bound' = bound /\ req[r].pc = "idle"
  BY DEF Arrive, At, tcp
<1>3. req'[r].pc \in {"probe", "load"} /\ req'[r].got = None
  BY DEF Arrive, TypeOK
<1>4. AnswerTo(req'[r]) = AnswerTo(req[r])
  BY <1>2, <1>3 DEF AnswerTo
<1>5. \A p \in Ports : ~Holds(req', r, p) /\ ~Holds(req, r, p)
  BY <1>2, <1>3 DEF Holds
<1>. QED
  BY <1>1, <1>2, <1>4, <1>5, StutterStep

\* A step that only takes r from one place in its handler to another.
LEMMA GotoStutters ==
  ASSUME TypeOK, PortInv, SerialInv, NEW r \in Reqs, NEW pc, Goto(r, pc), bound' = bound,
         AnswerTo([req[r] EXCEPT !.pc = pc]) = AnswerTo(req[r]),
         req[r].op = "move" /\ req[r].got # None =>
           (pc \in {"udpload", "udpremove", "udpclose", "probe", "bind"} <=>
              req[r].pc \in {"udpload", "udpremove", "udpclose", "probe", "bind"})
  PROVE  Stutters
<1>1. req'[r] = [req[r] EXCEPT !.pc = pc] /\ \A s \in Reqs \ {r} : req'[s] = req[s]
  BY DEF Goto, TypeOK
<1>2. req[r] \in Request
  BY DEF TypeOK
<1>3. /\ req'[r].op = req[r].op /\ req'[r].old = req[r].old /\ req'[r].got = req[r].got
      /\ req'[r].pc = pc
  BY <1>1, <1>2 DEF Request
<1>4. \A p \in Ports : Holds(req', r, p) <=> Holds(req, r, p)
  BY <1>3 DEF Holds
<1>5. AnswerTo(req'[r]) = AnswerTo(req[r])
  BY <1>1
<1>. QED
  BY <1>1, <1>3, <1>4, <1>5, StutterStep

LEMMA DelPortStutters ==
  ASSUME TypeOK, PortInv, UdpInv, SerialInv, NEW r \in Reqs,
         \/ Load(r) /\ (entry[req[r].old] # None \/ req[r].op = "move")
         \/ Remove(r) \/ UdpLoad(r) \/ UdpRemove(r) \/ UdpClose(r)
  PROVE  Stutters
<1>. req[r] \in Request /\ Knows(r)
  BY DEF TypeOK, SerialInv
<1>1. CASE Load(r) /\ (entry[req[r].old] # None \/ req[r].op = "move")
  <2>1. req[r].pc = "load" /\ req[r].got = None /\ bound' = bound
    BY <1>1 DEF Load, At, tcp, Knows
  <2>2. CASE entry[req[r].old] = None
    <3>1. Goto(r, "probe") /\ req[r].op = "move"
      BY <1>1, <2>2 DEF Load, AfterDelPort
    <3>2. AnswerTo([req[r] EXCEPT !.pc = "probe"]) = AnswerTo(req[r])
      BY <2>1, <3>1 DEF AnswerTo, Request
    <3>. QED
      BY <2>1, <3>1, <3>2, GotoStutters
  <2>3. CASE entry[req[r].old] # None
    <3>1. req' = [req EXCEPT ![r].pc = "remove", ![r].got = entry[req[r].old]]
      BY <1>1, <2>3 DEF Load
    <3>2. req'[r].pc = "remove" /\ \A s \in Reqs \ {r} : req'[s] = req[s]
      BY <3>1 DEF TypeOK, Request
    <3>3. AnswerTo(req'[r]) = AnswerTo(req[r])
      BY <2>1, <3>2 DEF AnswerTo
    <3>4. \A p \in Ports : ~Holds(req', r, p) /\ ~Holds(req, r, p)
      BY <2>1, <3>2 DEF Holds
    <3>. QED
      BY <2>1, <3>2, <3>3, <3>4, StutterStep
  <2>. QED
    BY <2>2, <2>3
<1>2. CASE Remove(r)
  <2>1. req[r].pc = "remove" /\ Goto(r, "close") /\ bound' = bound
    BY <1>2 DEF Remove, At
  <2>2. AnswerTo([req[r] EXCEPT !.pc = "close"]) = AnswerTo(req[r])
    BY <2>1 DEF AnswerTo, Request
  <2>. QED
    BY <2>1, <2>2, GotoStutters
<1>3. CASE UdpLoad(r)
  <2>1. req[r].pc = "udpload" /\ bound' = bound /\ req[r].op \in {"del", "move"}
    BY <1>3 DEF UdpLoad, At, tcp, Knows, Deleting
  <2>2. CASE udpEntry[req[r].old] = None
    <3>1. Goto(r, AfterDelPort(r))
      BY <1>3, <2>2 DEF UdpLoad
    <3>2. AnswerTo([req[r] EXCEPT !.pc = AfterDelPort(r)]) = AnswerTo(req[r])
      BY <2>1 DEF AnswerTo, AfterDelPort, Request
    <3>3. req[r].op = "move" => AfterDelPort(r) = "probe"
      BY DEF AfterDelPort
    <3>. QED
      BY <2>1, <3>1, <3>2, <3>3, GotoStutters
  <2>3. CASE udpEntry[req[r].old] # None
    <3>1. req' = [req EXCEPT ![r].pc = "udpremove", ![r].udpGot = udpEntry[req[r].old]]
      BY <1>3, <2>3 DEF UdpLoad
    <3>2. /\ req'[r].pc = "udpremove" /\ req'[r].op = req[r].op /\ req'[r].old = req[r].old
          /\ req'[r].got = req[r].got /\ \A s \in Reqs \ {r} : req'[s] = req[s]
      BY <3>1 DEF TypeOK, Request
    <3>3. AnswerTo(req'[r]) = AnswerTo(req[r])
      BY <2>1, <3>2 DEF AnswerTo
    <3>4. \A p \in Ports : Holds(req', r, p) <=> Holds(req, r, p)
      BY <2>1, <3>2 DEF Holds
    <3>. QED
      BY <2>1, <3>2, <3>3, <3>4, StutterStep
  <2>. QED
    BY <2>2, <2>3
<1>4. CASE UdpRemove(r)
  <2>1. req[r].pc = "udpremove" /\ Goto(r, "udpclose") /\ bound' = bound
    BY <1>4 DEF UdpRemove, At, tcp
  <2>2. AnswerTo([req[r] EXCEPT !.pc = "udpclose"]) = AnswerTo(req[r])
    BY <2>1 DEF AnswerTo, Request
  <2>. QED
    BY <2>1, <2>2, GotoStutters
<1>5. CASE UdpClose(r)
  <2>1. req[r].pc = "udpclose" /\ Goto(r, AfterDelPort(r)) /\ bound' = bound
    BY <1>5, UdpHalfOrder DEF UdpClose, At, tcp
  <2>2. req[r].op \in {"del", "move"}
    BY <2>1 DEF Knows, Deleting
  <2>3. AnswerTo([req[r] EXCEPT !.pc = AfterDelPort(r)]) = AnswerTo(req[r])
    BY <2>1, <2>2 DEF AnswerTo, AfterDelPort, Request
  <2>4. req[r].op = "move" => AfterDelPort(r) = "probe"
    BY DEF AfterDelPort
  <2>. QED
    BY <2>1, <2>3, <2>4, GotoStutters
<1>. QED
  BY <1>1, <1>2, <1>3, <1>4, <1>5

LEMMA AddRuleStutters ==
  ASSUME TypeOK, PortInv, SerialInv, NEW r \in Reqs,
         \/ Probe(r) /\ bound[req[r].port] = None
         \/ StoreConn(r) \/ UdpStore(r)
  PROVE  Stutters
<1>. req[r] \in Request /\ Knows(r)
  BY DEF TypeOK, SerialInv
<1>1. CASE Probe(r) /\ bound[req[r].port] = None
  <2>1. req[r].pc = "probe" /\ Goto(r, "bind") /\ bound' = bound
    BY <1>1 DEF Probe, At, tcp
  <2>2. AnswerTo([req[r] EXCEPT !.pc = "bind"]) = AnswerTo(req[r])
    BY <2>1 DEF AnswerTo, Request
  <2>. QED
    BY <2>1, <2>2, GotoStutters
<1>2. CASE StoreConn(r) \/ UdpStore(r)
  <2>1. PICK pc \in {"udpstore", "ok"} : Goto(r, pc)
    BY <1>2 DEF StoreConn, UdpStore
  <2>2. req[r].pc \in {"store", "udpstore"} /\ bound' = bound
    BY <1>2 DEF StoreConn, UdpStore, At, tcp
  <2>3. AnswerTo([req[r] EXCEPT !.pc = pc]) = AnswerTo(req[r])
    BY <2>1, <2>2 DEF AnswerTo, Request
  <2>. QED
    BY <2>1, <2>2, <2>3, GotoStutters
<1>. QED
  BY <1>1, <1>2

-----------------------------------------------------------------------------
(* The steps that are answers. *)

\* The port of a listener that is found is taken out of the table.
LEMMA DeleteIsAnswer ==
  ASSUME TypeOK, PortInv, SerialInv, NEW r \in Reqs, NEW p \in Ports,
         p \in PortsOf(r), Running(r), \A s \in Reqs \ {r} : req'[s] = req[s],
         AnswerTo(req[r]) = None, AnswerTo(req'[r]) = "ok",
         \A q \in Ports : ~Holds(req, r, q) /\ ~Holds(req', r, q),
         bound' = [bound EXCEPT ![p] = None]
  PROVE  Promise!Delete(r, p)
<1>1. Table'[p] = None
  BY TableOpenAfter DEF TypeOK
<1>2. \A q \in Ports \ {p} : Table'[q] = Table[q]
  <2>. SUFFICES ASSUME NEW q \in Ports \ {p} PROVE Table'[q] = Table[q]
    OBVIOUS
  <2>1. bound'[q] = bound[q]
    BY DEF TypeOK
  <2>. QED
    BY <2>1, TableKept
<1>3. Table' = [Table EXCEPT ![p] = None]
  BY <1>1, <1>2 DEF Table
<1>. QED
  BY <1>3, AnswerAfter DEF Promise!Delete

LEMMA DelPortAnswers ==
  ASSUME TypeOK, PortInv, SerialInv, NEW r \in Reqs,
         \/ Load(r) /\ entry[req[r].old] = None /\ req[r].op # "move"
         \/ Close(r) /\ req[r].op # "move"
  PROVE  Promise!Delete(r, req[r].old)
<1>. req[r] \in Request /\ Knows(r)
  BY DEF TypeOK, SerialInv
<1>1. req[r].pc \in {"load", "close"} /\ req[r].old \in Ports /\ req[r].op = "del"
  BY DEF Load, Close, At, Knows, Deleting, TypeOK, PortsGiven
<1>2. req[r].old \in PortsOf(r) /\ Running(r)
  BY <1>1, PortsAssumption DEF PortsOf, Running, Ended
<1>3. PICK pc \in {"ok", "udpload"} : Goto(r, pc)
  BY <1>1 DEF Load, Close, AfterDelPort
<1>4. req'[r] = [req[r] EXCEPT !.pc = pc] /\ \A s \in Reqs \ {r} : req'[s] = req[s]
  BY <1>3 DEF Goto, TypeOK
<1>5. req'[r].op = "del" /\ req'[r].pc = pc
  BY <1>1, <1>4 DEF Request
<1>6. AnswerTo(req[r]) = None /\ AnswerTo(req'[r]) = "ok"
  BY <1>1, <1>5 DEF AnswerTo
<1>7. \A q \in Ports : ~Holds(req, r, q) /\ ~Holds(req', r, q)
  BY <1>1, <1>5 DEF Holds
<1>8. bound' = [bound EXCEPT ![req[r].old] = None]
  <2>1. CASE Load(r)
    <3>1. bound' = bound /\ bound[req[r].old] = None
      BY <1>1, <2>1, LoadKnows DEF Load, Close, At, tcp
    <3>. QED
      BY <3>1, <1>1 DEF TypeOK
  <2>2. CASE Close(r)
    <3>1. bound[req[r].old] = req[r].got
      BY <2>2 DEF Knows, Close, At
    <3>. QED
      BY <2>2, <3>1 DEF Close
  <2>. QED
    BY <2>1, <2>2 DEF Load, Close
<1>. QED
  BY <1>1, <1>2, <1>4, <1>6, <1>7, <1>8, DeleteIsAnswer

\* ModifyRule keeps its old port in the table while it is between the two.
LEMMA CloseStutters ==
  ASSUME TypeOK, PortInv, SerialInv, NEW r \in Reqs, Close(r), req[r].op = "move"
  PROVE  Stutters
<1>. req[r] \in Request /\ Knows(r)
  BY DEF TypeOK, SerialInv
<1>1. req[r].pc = "close" /\ req[r].old \in Ports /\ req[r].got # None
  BY DEF Close, At, TypeOK, PortsGiven
<1>2. req[r].old \in PortsOf(r) /\ Running(r)
  BY <1>1, PortsAssumption DEF PortsOf, Running, Ended
<1>3. req'[r] = [req[r] EXCEPT !.pc = "udpload"] /\ \A s \in Reqs \ {r} : req'[s] = req[s]
  BY DEF Close, Goto, TypeOK
<1>4. /\ req'[r].op = "move" /\ req'[r].pc = "udpload" /\ req'[r].old = req[r].old
      /\ req'[r].got = req[r].got
  BY <1>3 DEF Request
<1>5. bound[req[r].old] = req[r].got
  BY <1>1 DEF Knows
<1>6. Table[req[r].old] = req[r].got
  <2>1. ~Holds(req, r, req[r].old)
    BY <1>1 DEF Holds
  <2>. QED
    BY <2>1, <1>1, <1>2, <1>5, TableOpen
<1>7. Table'[req[r].old] = req[r].got
  <2>1. Holds(req', r, req[r].old)
    BY <1>1, <1>4 DEF Holds
  <2>. QED
    BY <2>1, <1>1, <1>2, <1>3, <1>4, TableHeldAfter
<1>8. \A q \in Ports \ {req[r].old} : Table'[q] = Table[q]
  <2>. SUFFICES ASSUME NEW q \in Ports \ {req[r].old} PROVE Table'[q] = Table[q]
    OBVIOUS
  <2>1. bound'[q] = bound[q]
    BY <1>1 DEF Close, TypeOK
  <2>2. ~Holds(req, r, q) /\ ~Holds(req', r, q)
    BY <1>4 DEF Holds
  <2>. QED
    BY <2>1, <2>2, <1>3, TableKept
<1>9. Table' = Table
  BY <1>6, <1>7, <1>8 DEF Table
<1>10. Answer' = Answer
  <2>1. AnswerTo(req'[r]) = AnswerTo(req[r])
    BY <1>1, <1>4 DEF AnswerTo
  <2>. QED
    BY <1>3, <2>1, AnswerIs
<1>. QED
  BY <1>9, <1>10 DEF Stutters

\* The table where the old port of r is free.
Freed(r) == [q \in Ports |-> IF q = req[r].old THEN None ELSE Table[q]]

\* A port that is refused is taken, and a ModifyRule has lost its old one.
LEMMA RefusalIsAnswer ==
  ASSUME TypeOK, PortInv, SerialInv, NEW r \in Reqs, Probe(r), bound[req[r].port] # None
  PROVE  Promise!Open(r, req[r].old, req[r].port)
<1>. req[r] \in Request /\ Knows(r)
  BY DEF TypeOK, SerialInv
<1>1. req[r].pc = "probe" /\ req[r].port \in Ports /\ req[r].op \in {"add", "move"} /\ bound' = bound
  BY DEF Probe, At, TypeOK, PortsGiven, Knows, Adding, tcp
<1>2. Running(r) /\ \A p \in Ports : p \in {req[r].old, req[r].port} => p \in PortsOf(r)
  BY <1>1, PortsAssumption DEF PortsOf, Running, Ended
<1>3. req'[r] = [req[r] EXCEPT !.pc = "error"] /\ \A s \in Reqs \ {r} : req'[s] = req[s]
  BY DEF Probe, Goto, TypeOK
<1>4. req'[r].pc = "error"
  BY <1>3 DEF Request
<1>5. AnswerTo(req[r]) = None /\ AnswerTo(req'[r]) = "error"
  BY <1>1, <1>4 DEF AnswerTo
<1>6. \A p \in Ports : ~Holds(req', r, p) /\ (Holds(req, r, p) => p = req[r].old)
  BY <1>4 DEF Holds
<1>7. req[r].old \in Ports => bound[req[r].old] = None
  BY <1>1, PortsAssumption DEF Knows
<1>8. req[r].port # req[r].old
  BY <1>1, <1>7
<1>9. Table[req[r].port] # None
  BY <1>1, <1>2, <1>6, <1>8, TableOpen
<1>10. \A q \in Ports : Table'[q] = Freed(r)[q]
  <2>. SUFFICES ASSUME NEW q \in Ports PROVE Table'[q] = Freed(r)[q]
    OBVIOUS
  <2>1. CASE q = req[r].old
    <3>1. Table'[q] = bound'[q]
      BY <2>1, <1>2, <1>3, <1>6, TableOpenAfter
    <3>. QED
      BY <3>1, <2>1, <1>1, <1>7 DEF Freed
  <2>2. CASE q # req[r].old
    <3>1. Table'[q] = Table[q]
      BY <2>2, <1>1, <1>3, <1>6, TableKept
    <3>. QED
      BY <3>1, <2>2 DEF Freed
  <2>. QED
    BY <2>1, <2>2
<1>11. Table' = Freed(r) /\ Freed(r)[req[r].port] # None
  BY <1>1, <1>8, <1>9, <1>10 DEF Table, Freed
<1>. QED
  BY <1>3, <1>5, <1>11, AnswerAfter DEF Promise!Open, Freed

\* A port that is bound was free, and the old one is free from then on.
LEMMA ListenIsAnswer ==
  ASSUME TypeOK, PortInv, SerialInv, NEW r \in Reqs, Listen(r)
  PROVE  Promise!Open(r, req[r].old, req[r].port)
<1>. req[r] \in Request /\ Knows(r)
  BY DEF TypeOK, SerialInv
<1>1. req[r].pc = "bind" /\ req[r].port \in Ports /\ req[r].op \in {"add", "move"}
  BY DEF Listen, At, TypeOK, PortsGiven, Knows, Adding
<1>2. Running(r) /\ \A p \in Ports : p \in {req[r].old, req[r].port} => p \in PortsOf(r)
  BY <1>1, PortsAssumption DEF PortsOf, Running, Ended
<1>3. /\ bound[req[r].port] = None
      /\ bound' = [bound EXCEPT ![req[r].port] = r] /\ Goto(r, "store")
  BY <1>1 DEF Listen, Knows
<1>4. req'[r] = [req[r] EXCEPT !.pc = "store"] /\ \A s \in Reqs \ {r} : req'[s] = req[s]
  BY <1>3 DEF Goto, TypeOK
<1>5. req'[r].pc = "store"
  BY <1>4 DEF Request
<1>6. AnswerTo(req[r]) = None /\ AnswerTo(req'[r]) = "ok"
  BY <1>1, <1>5 DEF AnswerTo
<1>7. \A p \in Ports : ~Holds(req', r, p) /\ (Holds(req, r, p) => p = req[r].old)
  BY <1>5 DEF Holds
<1>8. req[r].old \in Ports => bound[req[r].old] = None
  BY <1>1, PortsAssumption DEF Knows
<1>9. Freed(r)[req[r].port] = None
  <2>1. CASE req[r].port = req[r].old
    BY <2>1, <1>1 DEF Freed
  <2>2. CASE req[r].port # req[r].old
    <3>1. Table[req[r].port] = None
      BY <2>2, <1>1, <1>2, <1>3, <1>7, TableOpen
    <3>. QED
      BY <2>2, <3>1, <1>1 DEF Freed
  <2>. QED
    BY <2>1, <2>2
<1>10. Table'[req[r].port] = r
  <2>1. Table'[req[r].port] = bound'[req[r].port]
    BY <1>1, <1>2, <1>4, <1>7, TableOpenAfter
  <2>. QED
    BY <2>1, <1>1, <1>3 DEF TypeOK
<1>11. \A q \in Ports \ {req[r].port} : Table'[q] = Freed(r)[q]
  <2>. SUFFICES ASSUME NEW q \in Ports \ {req[r].port} PROVE Table'[q] = Freed(r)[q]
    OBVIOUS
  <2>0. bound'[q] = bound[q]
    BY <1>3 DEF TypeOK
  <2>1. CASE q = req[r].old
    <3>1. Table'[q] = bound'[q]
      BY <2>1, <1>2, <1>4, <1>7, TableOpenAfter
    <3>. QED
      BY <3>1, <2>0, <2>1, <1>8 DEF Freed
  <2>2. CASE q # req[r].old
    <3>1. Table'[q] = Table[q]
      BY <2>0, <2>2, <1>4, <1>7, TableKept
    <3>. QED
      BY <3>1, <2>2 DEF Freed
  <2>. QED
    BY <2>1, <2>2
<1>12. Table' = [Freed(r) EXCEPT ![req[r].port] = r]
  <2>1. PICK t : t = Table'
    OBVIOUS
  <2>2. t = [q \in Ports |-> t[q]]
    BY <2>1 DEF Table
  <2>. QED
    BY <2>1, <2>2, <1>1, <1>10, <1>11 DEF Freed
<1>13. /\ Answer[r] = None
       /\ Answer' = [Answer EXCEPT ![r] = "ok"]
  BY <1>4, <1>6, AnswerAfter
<1>14. Promise!Open(r, req[r].old, req[r].port) <=>
        /\ Answer[r] = None
        /\ \/ /\ Freed(r)[req[r].port] = None
              /\ Table' = [Freed(r) EXCEPT ![req[r].port] = r]
              /\ Answer' = [Answer EXCEPT ![r] = "ok"]
           \/ /\ Freed(r)[req[r].port] # None
              /\ Table' = Freed(r)
              /\ Answer' = [Answer EXCEPT ![r] = "error"]
  BY Zenon DEF Promise!Open, Freed
<1>. QED
  BY <1>9, <1>12, <1>13, <1>14

LEMMA OpenIsNext ==
  ASSUME TypeOK, SerialInv, NEW r \in Reqs, req[r].port \in Ports,
         Promise!Open(r, req[r].old, req[r].port)
  PROVE  Promise!Next
<1>1. req[r].old \in Ports \cup {None}
  BY DEF TypeOK, Request
<1>. QED
  BY <1>1 DEF Promise!Next

\* What dies with the process is what the promise lets die.
LEMMA DiesKeepsPromise ==
  ASSUME TypeOK, NEW r \in Reqs, Dies(r)
  PROVE  Promise!Dies
<1>1. Table' = [p \in Ports |-> None]
  <2>1. \A s \in Reqs, p \in Ports : ~Holds(req', s, p)
    BY DiesParts DEF Holds
  <2>2. \A p \in Ports : TableFor(req', bound')[p] = None
    BY <2>1, DiesParts, FreeTable
  <2>. QED
    BY <2>2, TableIs DEF TableFor
<1>. DEFINE lost == {s \in Reqs : req'[s].pc = "cut"}
<1>2. ASSUME NEW s \in Reqs PROVE AnswerTo(req'[s]) = IF s \in lost THEN "cut" ELSE AnswerTo(req[s])
  <2>1. CASE s \in lost
    BY <2>1 DEF AnswerTo
  <2>2. CASE s \notin lost
    BY <2>2, DiesParts DEF AnswerTo
  <2>. QED
    BY <2>1, <2>2
<1>3. Answer' = [s \in Reqs |-> IF s \in lost THEN "cut" ELSE Answer[s]]
  BY <1>2, AnswerIs
<1>. QED
  BY <1>1, <1>3 DEF Promise!Dies

LEMMA StepKeepsPromise ==
  ASSUME TypeOK, PortInv, UdpInv, SerialInv, [SerialNext]_vars
  PROVE  [Promise!Next]_<<Table, Answer>>
<1>1. ASSUME NEW r \in Reqs, ArriveAlone(r) PROVE Stutters
  BY <1>1, ArriveStutters DEF ArriveAlone
<1>2. ASSUME NEW r \in Reqs, DelPort(r) PROVE Stutters \/ Promise!Next
  <2>1. Stutters \/ Promise!Delete(r, req[r].old)
    BY <1>2, DelPortStutters, DelPortAnswers, CloseStutters DEF DelPort
  <2>2. req[r].old \in Ports
    BY <1>2 DEF DelPort, Load, Remove, Close, UdpLoad, UdpRemove, UdpClose, At, TypeOK, PortsGiven
  <2>. QED
    BY <2>1, <2>2 DEF Promise!Next
<1>3. ASSUME NEW r \in Reqs, AddRule(r) PROVE Stutters \/ Promise!Next
  <2>1. req[r].port \in Ports
    BY <1>3 DEF AddRule, Probe, Listen, StoreConn, UdpStore, At, TypeOK, PortsGiven
  <2>. QED
    BY <1>3, <2>1, AddRuleStutters, RefusalIsAnswer, ListenIsAnswer, OpenIsNext DEF AddRule
<1>4. ASSUME NEW r \in Reqs, UdpStart(r) PROVE Stutters
  BY <1>4, TableIs, AnswerIs DEF UdpStart, tcp, Stutters
<1>5. CASE UNCHANGED vars
  BY <1>5, TableIs, AnswerIs DEF vars, Stutters
<1>6. ASSUME NEW r \in Reqs, Dies(r) PROVE Promise!Next
  BY <1>6, DiesKeepsPromise DEF Promise!Next
<1>. QED
  BY <1>1, <1>2, <1>3, <1>4, <1>5, <1>6 DEF SerialNext, Work, Stutters

LEMMA InitKeepsPromise ==
  ASSUME Init
  PROVE  SerialInv /\ Promise!Init
<1>1. \A r \in Reqs : req[r] = Idle /\ fwd[r] = "none"
  BY DEF Init
<1>2. SerialInv
  BY <1>1, PortsAssumption
  DEF Init, SerialInv, Knows, ForwardersInOrder, Starting, Idle, Deleting, Adding, Closed
<1>3. Table = [p \in Ports |-> None]
  <2>1. \A p \in Ports : ~\E r \in Reqs : Halfway(r) /\ req[r].old = p /\ req[r].got # None
    BY <1>1 DEF Halfway, Idle
  <2>. QED
    BY <2>1 DEF Table, Init
<1>4. Answer = [r \in Reqs |-> None]
  BY <1>1 DEF Answer, Idle
<1>. QED
  BY <1>2, <1>3, <1>4 DEF Promise!Init

(***************************************************************************)
(* Requests are atomic: under a controller with one request at a time on a *)
(* port, what the agent does is what PortTable does, for any number of     *)
(* ports and requests, with UDP or without.  No lock in the manager's      *)
(* AddRule, DelRule and ModifyRule says so: what each has found out of a   *)
(* port only stays true because nobody else is there.                      *)
(***************************************************************************)
THEOREM RequestsAreAtomic == SerialSpec => KeepsPromise
<1>1. Init => TypeOK /\ PortInv /\ UdpInv /\ SerialInv /\ Promise!Init
  BY InitType, InitPort, InitUdp, InitKeepsPromise
<1>2. [SerialNext]_vars => [Next]_vars
  BY DEF SerialNext, Next, ArriveAlone
<1>3. TypeOK /\ PortInv /\ UdpInv /\ SerialInv /\ [SerialNext]_vars =>
        /\ TypeOK' /\ PortInv' /\ UdpInv' /\ SerialInv'
        /\ [Promise!Next]_<<Table, Answer>>
  BY <1>2, NextType, NextPort, NextUdp, NextSerial, StepKeepsPromise
<1>. QED
  BY <1>1, <1>3, PTL DEF SerialSpec, KeepsPromise, Promise!Spec
=============================================================================
