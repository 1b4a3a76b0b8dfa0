----------------------------- MODULE MCUdpPort -----------------------------
(* Instances of UdpPort for TLC. *)
EXTENDS UdpPort

Four == [ip |-> <<10, 0, 0, 1>>, port |-> 258]
FourLong == [ip |-> Mapped \o <<10, 0, 0, 1>>, port |-> 258]
Six == [ip |-> <<32, 1, 0, 0, 0, 0, 0, 0, 0, 0, 0, 0, 0, 0, 0, 1>>, port |-> 65535]

MCTargets == {Four, FourLong, Six, Proxy}

\* A good datagram, one with a header only in part, one with the length of the other version.
MCWires ==
  {packAddress(Four, <<7>>), SubSeq(packAddress(Six, <<7>>), 1, 9), <<VersionIPv6, 4, 10, 0, 0, 1, 1, 2, 7>>}
=============================================================================
