------------------------------ MODULE UdpPort ------------------------------
(***************************************************************************)
(* What EnableUdp puts beside a TCP listener: for a rule, AddRule makes a  *)
(* UDPForwarder; for a chain, AddChain makes a ProxyServer without proxy   *)
(* or target address, which is server mode.  The client mode that would    *)
(* send to such a server is in the code and has no caller.                 *)
(***************************************************************************)
EXTENDS UdpProxy

VARIABLE kind  \* what listens on the port

portVars == <<vars, kind>>

\* NewProxyServer: a server without a target address runs in server mode.
Mode(target) == IF target = None THEN "server" ELSE "client"

PortInit ==
  /\ Init
  /\ kind \in {"forwarder"} \cup {Mode(t) : t \in Targets \cup {None}}

PortNext ==
  /\ \/ kind = "forwarder" /\ Next
     \/ kind = "server" /\ ServerNext
     \/ kind = "client" /\ ClientNext
  /\ UNCHANGED kind

CloseFairness ==
  /\ WF_vars(CloseRanges("socket") \/ CloseRanges("wait"))
  /\ WF_vars(ClosePort("wait", {}) \/ ClosePort("range", Peers))
  /\ WF_vars(CloseWaits)

PortSpec == PortInit /\ [][PortNext]_portVars /\ Fairness /\ CloseFairness
=============================================================================
