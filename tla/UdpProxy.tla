------------------------------ MODULE UdpProxy ------------------------------
(***************************************************************************)
(* The UDP half of a chain's port: ProxyServer.  Its table of clients and  *)
(* the goroutines over it are UDPForwarder's, written out a second time in *)
(* udp_chain_connector.go; what differs is where a datagram goes.  In      *)
(* client mode the address of the destination is put in front of the data  *)
(* and both are sent to the proxy; in server mode, which is the one the    *)
(* agents use, the address is taken off and dialled - for the first        *)
(* datagram of a peer: later ones go where the first one went.             *)
(***************************************************************************)
EXTENDS UdpForwarder, Sequences

CONSTANTS
  Wires,      \* datagrams a server may be sent, as sequences of bytes
  Proxy       \* the address of the server, for a client

MinHeaderSize == 4

VersionIPv4 == 0
VersionIPv6 == 128

Mapped == <<0, 0, 0, 0, 0, 0, 0, 0, 0, 0, 255, 255>>

\* IP.To4: the four bytes of an IPv4 address, in its long form too.
To4(ip) ==
  IF Len(ip) = 16 /\ SubSeq(ip, 1, 12) = Mapped THEN SubSeq(ip, 13, 16) ELSE ip

packAddress(a, data) ==
  LET ip == To4(a.ip) IN
  <<IF Len(ip) = 4 THEN VersionIPv4 ELSE VersionIPv6, Len(ip)>> \o ip
    \o <<a.port \div 256, a.port % 256>> \o data

\* None where the datagram is refused.
unpackAddress(w) ==
  LET ipLen == w[2]
      full  == 2 + ipLen + 2 IN
  IF \/ Len(w) < MinHeaderSize \/ Len(w) < full
     \/ w[1] = VersionIPv4 /\ ipLen # 4
     \/ w[1] = VersionIPv6 /\ ipLen # 16
  THEN None
  ELSE [addr |-> [ip |-> SubSeq(w, 3, 2 + ipLen), port |-> w[full - 1] * 256 + w[full]],
        data |-> SubSeq(w, full + 1, Len(w))]

ASSUME ProxyAssumption ==
  /\ Proxy \in Targets
  /\ \A w \in Wires : unpackAddress(w) # None => unpackAddress(w).addr \in Targets

-----------------------------------------------------------------------------
\* A datagram that Start or unpackAddress refuses is PumpReadsNothing.
handleServerPacket(k, w) ==
  /\ Len(w) > MinHeaderSize
  /\ unpackAddress(w) # None
  /\ handlePacket(k, unpackAddress(w).addr)

handleClientPacket(k) == handlePacket(k, Proxy)

\* The socket is closed before the clients are, in the other order than UDPForwarder.
ProxyCloseBegins ==
  /\ closer.pc = "serving"
  /\ CloserTo("socket", {})
  /\ UNCHANGED <<table, client, pump, sweep, port, orphaned, late>>

ProxyClose ==
  ProxyCloseBegins \/ ClosePort("range", Peers) \/ CloseRanges("wait") \/ CloseWaits

\* Start, handleTargetReturn, closeClient and cleanupExpiredClients of ProxyServer.
ProxyStart == Pump

ProxyTargetReturn(i) == handleTargetReturn(i)

ProxyCloseClient(k, c) == DeleteKey(k, c)

ProxyCleanup == cleanupExpiredClients

ProxyCommon ==
  \/ ProxyStart \/ ProxyCleanup \/ ProxyClose
  \/ \E i \in Ids : ProxyTargetReturn(i) \/ GoesIdle(i)

ServerNext == ProxyCommon \/ \E k \in Peers, w \in Wires : handleServerPacket(k, w)

ClientNext == ProxyCommon \/ \E k \in Peers : handleClientPacket(k)

=============================================================================
