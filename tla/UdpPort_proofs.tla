---------------------------- MODULE UdpPort_proofs ----------------------------
(***************************************************************************)
(* OpenIsListed and CloseReleases of whatever listens on a UDP port: a     *)
(* forwarder, or a proxy server of either mode, with any number of peers   *)
(* and clients.                                                            *)
(*                                                                         *)
(* Every step changes the table and the clients in one of a few ways, and  *)
(* there is a lemma for each: a client is made, a key is deleted by whoever *)
(* is going to close its client, sockets are closed, or marks of a client  *)
(* change that leave its socket alone.                                     *)
(***************************************************************************)
EXTENDS UdpPort, TLAPS

(***************************************************************************)
(* TypeOK in parts.                                                        *)
(***************************************************************************)
TableOK ==
  /\ table \in [Peers -> Ids \cup {None}]
  /\ client \in [Ids -> Client]
  /\ \A i \in Ids : IF Made(i) THEN client[i].peer \in Peers /\ client[i].ret # "none"
                               ELSE client[i] = NoClient
  /\ \A k \in Peers : table[k] # None => Made(table[k]) /\ client[table[k]].peer = k

GoroutinesOK ==
  /\ pump \in [pc : {"top", "read", "write", "shut", "ended"}, c : Ids \cup {None}]
  /\ pump.pc \in {"write", "shut"} <=> pump.c # None
  /\ pump.c # None => Made(pump.c)
  /\ sweep \in [pc : {"wait", "next", "drop", "shut", "ended"}, todo : SUBSET Peers,
                c : Ids \cup {None}]
  /\ sweep.pc \in {"drop", "shut"} <=> sweep.c # None
  /\ sweep.c # None => Made(sweep.c)

CloserOK ==
  /\ closer \in [pc : {"serving", "range", "socket", "wait", "closed"}, todo : SUBSET Peers]
  /\ port \in {"open", "closed"}

HistoryOK == orphaned \subseteq Ids /\ late \subseteq Ids

\* The peers whose turn Close has had.
Ranged(k) ==
  \/ closer.pc \in {"wait", "closed"}
  \/ closer.pc = "range" /\ k \notin closer.todo
  \/ closer.pc = "socket" /\ kind = "forwarder"

Excused(i) == BeingShut(i) \/ i \in orphaned \/ i \in late

\* What Close has been past is closed, or somebody else's to close.
RangedInv == \A i \in Ids : Open(i) /\ Ranged(client[i].peer) => Excused(i)

\* The port is closed before Close waits, and nobody it waited for comes back.
CloserInv ==
  /\ closer.pc \in {"wait", "closed"} => port = "closed"
  /\ closer.pc = "range" /\ kind # "forwarder" => port = "closed"
  /\ closer.pc = "closed" => AllLeft

PortInv ==
  /\ TableOK /\ GoroutinesOK /\ CloserOK /\ HistoryOK
  /\ OpenIsListed /\ RangedInv /\ CloserInv

-----------------------------------------------------------------------------
(***************************************************************************)
(* A port that has just been opened.                                       *)
(***************************************************************************)
LEMMA PortInitInv == PortInit => PortInv
<1> SUFFICES ASSUME PortInit PROVE PortInv
  OBVIOUS
<1>1. /\ table = [k \in Peers |-> None]
      /\ client = [i \in Ids |-> NoClient]
      /\ pump = [pc |-> "top", c |-> None]
      /\ sweep = [pc |-> "wait", todo |-> {}, c |-> None]
      /\ closer = [pc |-> "serving", todo |-> {}]
      /\ port = "open" /\ orphaned = {} /\ late = {}
  BY DEF PortInit, Init
<1>2. \A i \in Ids : client[i] = NoClient /\ ~Made(i) /\ ~Open(i)
  BY <1>1 DEF NoClient, Made, Open
<1>3. NoClient \in Client
  BY DEF NoClient, Client
<1>4. TableOK
  BY <1>1, <1>2, <1>3, UdpAssumption DEF TableOK
<1>5. GoroutinesOK /\ CloserOK /\ HistoryOK
  BY <1>1 DEF GoroutinesOK, CloserOK, HistoryOK
<1>6. OpenIsListed /\ RangedInv
  BY <1>2 DEF OpenIsListed, RangedInv
<1>7. CloserInv
  BY <1>1 DEF CloserInv
<1>8. QED BY <1>4, <1>5, <1>6, <1>7 DEF PortInv

-----------------------------------------------------------------------------
(* Steps that do not touch table, client, closer and port: the pump and    *)
(* the sweep between two of them.                                          *)

LEMMA GoroutineMoves ==
  ASSUME PortInv, GoroutinesOK',
         UNCHANGED <<table, client, closer, port, orphaned, late, kind>>,
         \A i \in Ids : Open(i) /\ BeingShut(i) => BeingShut(i)',
         sweep.pc = "ended" => sweep'.pc = "ended"
  PROVE  PortInv'
<1>1. TableOK' /\ CloserOK' /\ HistoryOK'
  BY DEF PortInv, TableOK, CloserOK, HistoryOK, Made
<1>2. OpenIsListed'
  BY DEF PortInv, OpenIsListed, Open
<1>3. RangedInv'
  BY DEF PortInv, RangedInv, Open, Ranged, Excused
<1>4. CloserInv'
  BY DEF PortInv, CloserInv, AllLeft
<1>5. QED BY <1>1, <1>2, <1>3, <1>4 DEF PortInv

LEMMA PumpIdles ==
  ASSUME PortInv, PumpLooks \/ PumpReadsNothing \/ PumpWrites, UNCHANGED kind
  PROVE  PortInv'
<1>1. GoroutinesOK
  BY DEF PortInv
<1>2. UNCHANGED <<table, client, sweep, closer, port, orphaned, late>>
  BY DEF PumpLooks, PumpReadsNothing, PumpWrites
<1>3. pump.pc \in {"top", "read", "write"}
  BY DEF PumpLooks, PumpReadsNothing, PumpWrites
<1>4. pump'.pc \in {"top", "read", "ended"} /\ pump'.c = None
      /\ pump' \in [pc : {"top", "read", "write", "shut", "ended"}, c : Ids \cup {None}]
  BY <1>1 DEF GoroutinesOK, PumpLooks, PumpReadsNothing, PumpWrites, PumpAgain, PumpTo
<1>5. GoroutinesOK'
  BY <1>1, <1>2, <1>4 DEF GoroutinesOK, Made
<1>6. \A i \in Ids : BeingShut(i) => BeingShut(i)'
  BY <1>2, <1>3 DEF BeingShut
<1>7. QED BY <1>2, <1>5, <1>6, GoroutineMoves

LEMMA SweepIdles ==
  ASSUME PortInv, SweepCollects \/ SweepLoads \/ SweepRests \/ SweepLeaves, UNCHANGED kind
  PROVE  PortInv'
<1>1. GoroutinesOK /\ TableOK
  BY DEF PortInv
<1>2. UNCHANGED <<table, client, pump, closer, port, orphaned, late>>
  BY DEF SweepCollects, SweepLoads, SweepRests, SweepLeaves
<1>3. sweep.pc \in {"wait", "next"} /\ sweep.c = None
  BY <1>1 DEF SweepCollects, SweepLoads, SweepRests, SweepLeaves, GoroutinesOK
<1>4. /\ sweep' \in [pc : {"wait", "next", "drop", "shut", "ended"}, todo : SUBSET Peers,
                     c : Ids \cup {None}]
      /\ sweep'.pc \in {"drop", "shut"} <=> sweep'.c # None
      /\ sweep'.c # None => Made(sweep'.c)
  <2>1. CASE SweepCollects
    BY <2>1 DEF SweepCollects, Expired
  <2>2. CASE SweepLoads
    BY <2>2, <1>1 DEF SweepLoads, GoroutinesOK, TableOK
  <2>3. CASE SweepRests \/ SweepLeaves
    BY <2>3, <1>1, <1>3 DEF SweepRests, SweepLeaves, GoroutinesOK
  <2>4. QED BY <2>1, <2>2, <2>3
<1>5. GoroutinesOK'
  BY <1>1, <1>2, <1>4 DEF GoroutinesOK, Made
<1>6. \A i \in Ids : BeingShut(i) => BeingShut(i)'
  BY <1>2, <1>3 DEF BeingShut
<1>7. QED BY <1>2, <1>3, <1>5, <1>6, GoroutineMoves

-----------------------------------------------------------------------------
(* Steps that close sockets or change marks of clients, and nothing else   *)
(* about them.                                                             *)

\* A client is still the client it was, with its socket as it was or closed.
SameClient(i) ==
  IF Made(i) THEN /\ client'[i] \in Client
                  /\ client'[i].peer = client[i].peer
                  /\ client'[i].sock \in {client[i].sock, "closed"}
                  /\ client'[i].ret # "none"
  ELSE client'[i] = client[i]

LEMMA SameClientsOK ==
  ASSUME TableOK, DOMAIN client' = Ids, client' = [i \in Ids |-> client'[i]],
         \A i \in Ids : SameClient(i), table' = table
  PROVE  /\ TableOK'
         /\ \A i \in Ids : Made(i)' <=> Made(i)
         /\ \A i \in Ids : client'[i].peer = client[i].peer
         /\ \A i \in Ids : Open(i)' => Open(i)
<1>1. \A i \in Ids : Made(i)' <=> Made(i)
  BY DEF SameClient, TableOK, Made, NoClient
<1>2. \A i \in Ids : client'[i] \in Client
  BY DEF SameClient, TableOK
<1>3. client' \in [Ids -> Client]
  BY <1>2
<1>4. \A i \in Ids : client'[i].peer = client[i].peer
  BY DEF SameClient
<1>5. \A i \in Ids : Open(i)' => Open(i)
  BY DEF SameClient, Open
<1>6. \A i \in Ids : IF Made(i)' THEN client'[i].peer \in Peers /\ client'[i].ret # "none"
                                   ELSE client'[i] = NoClient
  BY <1>1 DEF SameClient, TableOK
<1>7. \A k \in Peers : table'[k] # None => Made(table[k])' /\ client'[table'[k]].peer = k
  <2>1. SUFFICES ASSUME NEW k \in Peers, table[k] # None
                 PROVE  client'[table[k]].sock # "none" /\ client'[table[k]].peer = k
    BY DEF Made
  <2>2. table[k] \in Ids /\ Made(table[k]) /\ client[table[k]].peer = k
    BY <2>1 DEF TableOK
  <2>3. QED BY <2>2, <1>1, <1>4 DEF Made
<1>8. TableOK'
  BY <1>3, <1>6, <1>7 DEF TableOK
<1>9. QED BY <1>1, <1>4, <1>5, <1>8

LEMMA ClientsMove ==
  ASSUME PortInv, GoroutinesOK',
         client' = [i \in Ids |-> client'[i]], \A i \in Ids : SameClient(i),
         UNCHANGED <<table, closer, port, orphaned, late, kind>>,
         \A i \in Ids : Open(i)' /\ BeingShut(i) => BeingShut(i)',
         AllLeft => AllLeft'
  PROVE  PortInv'
<1>1. DOMAIN client' = Ids
  OBVIOUS
<1>2. /\ TableOK'
      /\ \A i \in Ids : client'[i].peer = client[i].peer
      /\ \A i \in Ids : Open(i)' => Open(i)
  BY <1>1, SameClientsOK DEF PortInv
<1>3. OpenIsListed'
  BY <1>2 DEF PortInv, OpenIsListed
<1>4. RangedInv'
  BY <1>2 DEF PortInv, RangedInv, Ranged, Excused
<1>5. CloserInv' /\ CloserOK' /\ HistoryOK'
  BY DEF PortInv, CloserInv, CloserOK, HistoryOK
<1>6. QED BY <1>2, <1>3, <1>4, <1>5 DEF PortInv

\* One client changes.
LEMMA OneClient ==
  ASSUME TableOK, NEW i \in Ids, Made(i), NEW n \in Client, client' = [client EXCEPT ![i] = n],
         n.peer = client[i].peer, n.sock \in {client[i].sock, "closed"}, n.ret # "none"
  PROVE  /\ client' = [j \in Ids |-> client'[j]]
         /\ client'[i] = n
         /\ \A j \in Ids : j # i => client'[j] = client[j]
         /\ \A j \in Ids : SameClient(j)
         /\ \A j \in Ids : Made(j) => Made(j)'
<1>1. client \in [Ids -> Client]
  BY DEF TableOK
<1>2. client' = [j \in Ids |-> client'[j]] /\ client'[i] = n /\ \A j \in Ids : j # i => client'[j] = client[j]
  BY <1>1
<1>3. \A j \in Ids : client[j] \in Client
  BY <1>1
<1>4. \A j \in Ids : SameClient(j)
  BY <1>2, <1>3 DEF SameClient, TableOK
<1>5. \A j \in Ids : Made(j) => Made(j)'
  BY <1>2 DEF Made
<1>6. QED BY <1>2, <1>4, <1>5

LEMMA ReturnMarks ==
  ASSUME PortInv, NEW i \in Ids, ReturnCarries(i) \/ ReturnLeaves(i) \/ GoesIdle(i), UNCHANGED kind
  PROVE  PortInv'
<1> DEFINE n == IF ReturnLeaves(i) THEN [client[i] EXCEPT !.ret = "ended"]
                ELSE IF ReturnCarries(i) THEN [client[i] EXCEPT !.idle = FALSE]
                ELSE [client[i] EXCEPT !.idle = TRUE]
<1>1. client[i] \in Client /\ client \in [Ids -> Client]
  BY DEF PortInv, TableOK
<1>2. Made(i)
  BY DEF PortInv, TableOK, Made, NoClient, ReturnCarries, ReturnLeaves, GoesIdle, Open
<1>3. client' = [client EXCEPT ![i] = n]
  BY <1>1 DEF ReturnCarries, ReturnLeaves, GoesIdle
<1>4. n \in Client /\ n.peer = client[i].peer /\ n.sock = client[i].sock /\ n.ret # "none"
  BY <1>1, <1>2 DEF Client, PortInv, TableOK
<1>5. (client[i].ret = "shut" => n.ret = "shut") /\ (client[i].ret = "ended" => n.ret = "ended")
  BY <1>1 DEF Client, ReturnLeaves
<1>6. UNCHANGED <<table, pump, sweep, closer, port, orphaned, late>>
  BY DEF ReturnCarries, ReturnLeaves, GoesIdle
<1> HIDE DEF n
<1>7. /\ client' = [j \in Ids |-> client'[j]]
      /\ client'[i] = n
      /\ \A j \in Ids : j # i => client'[j] = client[j]
      /\ \A j \in Ids : SameClient(j)
      /\ \A j \in Ids : Made(j) => Made(j)'
  BY <1>2, <1>3, <1>4, OneClient DEF PortInv
<1>8. GoroutinesOK'
  BY <1>6, <1>7 DEF PortInv, GoroutinesOK
<1>9. \A j \in Ids : Open(j)' /\ BeingShut(j) => BeingShut(j)'
  BY <1>5, <1>6, <1>7 DEF BeingShut
<1>10. AllLeft => AllLeft'
  BY <1>2, <1>5, <1>6, <1>7 DEF AllLeft, PortInv, TableOK
<1>11. QED BY <1>6, <1>7, <1>8, <1>9, <1>10, ClientsMove

LEMMA PumpFindsClient ==
  ASSUME PortInv, NEW k \in Peers, KnownClient(k), UNCHANGED kind
  PROVE  PortInv'
<1> DEFINE i == table[k]
           n == [client[i] EXCEPT !.idle = FALSE]
<1>1. i \in Ids /\ Made(i) /\ client \in [Ids -> Client]
  BY DEF KnownClient, PortInv, TableOK
<1>2. client' = [client EXCEPT ![i] = n]
  BY <1>1 DEF KnownClient
<1>3. n \in Client /\ n.peer = client[i].peer /\ n.sock = client[i].sock
      /\ n.ret = client[i].ret /\ n.ret # "none"
  <2>1. client[i] \in Client /\ client[i].ret # "none"
    BY <1>1 DEF PortInv, TableOK
  <2>2. QED BY <2>1 DEF Client
<1>4. /\ pump.pc = "read" /\ pump' = [pc |-> "write", c |-> i]
      /\ UNCHANGED <<table, sweep, closer, port, orphaned, late>>
  BY DEF KnownClient
<1> HIDE DEF n
<1>5. /\ client' = [j \in Ids |-> client'[j]]
      /\ client'[i] = n
      /\ \A j \in Ids : j # i => client'[j] = client[j]
      /\ \A j \in Ids : SameClient(j)
      /\ \A j \in Ids : Made(j) => Made(j)'
  BY <1>1, <1>2, <1>3, OneClient DEF PortInv
<1> HIDE DEF i
<1>6. i # None
  BY <1>1, UdpAssumption
<1>7. GoroutinesOK'
  BY <1>1, <1>4, <1>5, <1>6 DEF PortInv, GoroutinesOK
<1>8. \A j \in Ids : Open(j)' /\ BeingShut(j) => BeingShut(j)'
  BY <1>3, <1>4, <1>5 DEF BeingShut
<1>9. AllLeft => AllLeft'
  BY <1>3, <1>4, <1>5 DEF AllLeft
<1>10. QED BY <1>4, <1>5, <1>7, <1>8, <1>9, ClientsMove

(***************************************************************************)
(* The second half of closeClient, by whichever goroutine.                 *)
(***************************************************************************)
LEMMA ClientShut ==
  ASSUME PortInv, NEW i \in Ids, Made(i), NEW n \in Client, client' = [client EXCEPT ![i] = n],
         n.peer = client[i].peer, n.sock = "closed", n.ret # "none",
         client[i].ret = "ended" => n.ret = "ended",
         GoroutinesOK,
         pump' \in [pc : {"top", "read", "write", "shut", "ended"}, c : Ids \cup {None}],
         pump' = pump \/ (pump.pc = "shut" /\ pump.c = i /\ pump'.pc = "top" /\ pump'.c = None),
         sweep' \in [pc : {"wait", "next", "drop", "shut", "ended"}, todo : SUBSET Peers,
                      c : Ids \cup {None}],
         sweep' = sweep \/ (sweep.pc = "shut" /\ sweep.c = i /\ sweep'.pc = "next" /\ sweep'.c = None),
         UNCHANGED <<table, closer, port, orphaned, late, kind>>
  PROVE  PortInv'
<1>1. /\ client' = [j \in Ids |-> client'[j]]
      /\ client'[i] = n
      /\ \A j \in Ids : j # i => client'[j] = client[j]
      /\ \A j \in Ids : SameClient(j)
      /\ \A j \in Ids : Made(j) => Made(j)'
  BY OneClient DEF PortInv
<1>2. GoroutinesOK'
  <2>1. /\ pump'.pc \in {"write", "shut"} <=> pump'.c # None
        /\ pump'.c # None => pump'.c = pump.c /\ pump.c \in Ids /\ Made(pump.c)
    BY DEF GoroutinesOK
  <2>2. /\ sweep'.pc \in {"drop", "shut"} <=> sweep'.c # None
        /\ sweep'.c # None => sweep'.c = sweep.c /\ sweep.c \in Ids /\ Made(sweep.c)
    BY DEF GoroutinesOK
  <2>3. QED BY <2>1, <2>2, <1>1 DEF GoroutinesOK, Made
<1>3. \A j \in Ids : Open(j)' /\ BeingShut(j) => BeingShut(j)'
  <2>1. ~Open(i)'
    BY <1>1 DEF Open
  <2>2. \A j \in Ids : j # i /\ BeingShut(j) => BeingShut(j)'
    BY <1>1 DEF BeingShut
  <2>3. QED BY <2>1, <2>2
<1>4. AllLeft => AllLeft'
  BY <1>1 DEF AllLeft, PortInv, TableOK
<1>5. QED BY <1>1, <1>2, <1>3, <1>4, ClientsMove

LEMMA PumpShutsInv ==
  ASSUME PortInv, PumpShuts, UNCHANGED kind
  PROVE  PortInv'
<1> DEFINE i == pump.c
           n == [client[i] EXCEPT !.sock = "closed"]
<1>1. i \in Ids /\ Made(i) /\ GoroutinesOK /\ pump.pc = "shut"
  BY DEF PumpShuts, PortInv, GoroutinesOK
<1>2. client[i] \in Client /\ client[i].ret # "none"
  BY <1>1 DEF PortInv, TableOK
<1>3. n \in Client /\ n.peer = client[i].peer /\ n.sock = "closed" /\ n.ret = client[i].ret
  BY <1>2 DEF Client
<1>4. client' = [client EXCEPT ![i] = n]
  BY <1>1 DEF PumpShuts, PortInv, TableOK
<1>5. /\ pump' = [pc |-> "top", c |-> None]
      /\ UNCHANGED <<table, sweep, closer, port, orphaned, late>>
  BY DEF PumpShuts, PumpAgain
<1> HIDE DEF n, i
<1>6. sweep' \in [pc : {"wait", "next", "drop", "shut", "ended"}, todo : SUBSET Peers, c : Ids \cup {None}]
  BY <1>1, <1>5 DEF GoroutinesOK
<1>7. QED BY <1>1, <1>2, <1>3, <1>4, <1>5, <1>6, ClientShut DEF i

LEMMA SweepShutsInv ==
  ASSUME PortInv, SweepShuts, UNCHANGED kind
  PROVE  PortInv'
<1> DEFINE i == sweep.c
           n == [client[i] EXCEPT !.sock = "closed"]
<1>1. i \in Ids /\ Made(i) /\ GoroutinesOK /\ sweep.pc = "shut"
  BY DEF SweepShuts, PortInv, GoroutinesOK
<1>2. client[i] \in Client /\ client[i].ret # "none"
  BY <1>1 DEF PortInv, TableOK
<1>3. n \in Client /\ n.peer = client[i].peer /\ n.sock = "closed" /\ n.ret = client[i].ret
  BY <1>2 DEF Client
<1>4. client' = [client EXCEPT ![i] = n]
  BY <1>1 DEF SweepShuts, PortInv, TableOK
<1>5. UNCHANGED <<table, pump, closer, port, orphaned, late>>
  BY DEF SweepShuts
<1>6. /\ sweep'.pc = "next" /\ sweep'.c = None
      /\ sweep' \in [pc : {"wait", "next", "drop", "shut", "ended"}, todo : SUBSET Peers, c : Ids \cup {None}]
  BY <1>1 DEF SweepShuts, GoroutinesOK
<1> HIDE DEF n, i
<1>7. pump' \in [pc : {"top", "read", "write", "shut", "ended"}, c : Ids \cup {None}]
  BY <1>1, <1>5 DEF GoroutinesOK
<1>8. QED BY <1>1, <1>2, <1>3, <1>4, <1>5, <1>6, <1>7, ClientShut DEF i

LEMMA ReturnShutsInv ==
  ASSUME PortInv, NEW i \in Ids, ReturnShuts(i), UNCHANGED kind
  PROVE  PortInv'
<1> DEFINE n == [client[i] EXCEPT !.sock = "closed", !.ret = "ended"]
<1>1. Made(i) /\ GoroutinesOK
  BY DEF ReturnShuts, PortInv, TableOK, NoClient
<1>2. client[i] \in Client /\ client[i].ret = "shut"
  BY DEF ReturnShuts, PortInv, TableOK
<1>3. n \in Client /\ n.peer = client[i].peer /\ n.sock = "closed" /\ n.ret = "ended"
  BY <1>2 DEF Client
<1>4. client' = [client EXCEPT ![i] = n]
  BY <1>1, <1>2 DEF ReturnShuts, PortInv, TableOK
<1>5. UNCHANGED <<table, pump, sweep, closer, port, orphaned, late>>
  BY DEF ReturnShuts
<1> HIDE DEF n
<1>6. /\ pump' \in [pc : {"top", "read", "write", "shut", "ended"}, c : Ids \cup {None}]
      /\ sweep' \in [pc : {"wait", "next", "drop", "shut", "ended"}, todo : SUBSET Peers, c : Ids \cup {None}]
  BY <1>1, <1>5 DEF GoroutinesOK
<1>7. QED BY <1>1, <1>2, <1>3, <1>4, <1>5, <1>6, ClientShut

-----------------------------------------------------------------------------
(***************************************************************************)
(* The first half of closeClient: whoever deletes the key of client i is   *)
(* about to close its socket, and a client that was there instead is noted.*)
(***************************************************************************)
LEMMA KeyDeleted ==
  ASSUME PortInv, NEW i \in Ids, Made(i), DeleteKey(client[i].peer, i),
         GoroutinesOK', client' = [j \in Ids |-> client'[j]], \A j \in Ids : SameClient(j),
         UNCHANGED <<closer, port, late, kind>>,
         BeingShut(i)',
         \A j \in Ids : BeingShut(j) => BeingShut(j)',
         AllLeft => AllLeft'
  PROVE  PortInv'
<1> DEFINE k == client[i].peer
<1>1. k \in Peers /\ table \in [Peers -> Ids \cup {None}]
  BY DEF PortInv, TableOK
<1>2. /\ table' = [table EXCEPT ![k] = None]
      /\ orphaned' = orphaned \cup ({table[k]} \ {None, i})
  BY DEF DeleteKey
<1>3. /\ \A j \in Ids : Made(j)' <=> Made(j)
      /\ \A j \in Ids : client'[j].peer = client[j].peer
      /\ \A j \in Ids : Open(j)' => Open(j)
      /\ \A j \in Ids : client'[j] \in Client
      /\ \A j \in Ids : Made(j) => client'[j].ret # "none"
      /\ \A j \in Ids : ~Made(j) => client'[j] = client[j]
  BY DEF SameClient, PortInv, TableOK, Made, Open, NoClient
<1> HIDE DEF k
<1>4. table' \in [Peers -> Ids \cup {None}] /\ client' \in [Ids -> Client]
  BY <1>1, <1>2, <1>3
<1>5. \A p \in Peers : table'[p] # None => table'[p] = table[p] /\ p # k
  BY <1>1, <1>2
<1>6. TableOK'
  <2>1. \A j \in Ids : IF Made(j)' THEN client'[j].peer \in Peers /\ client'[j].ret # "none"
                                    ELSE client'[j] = NoClient
    BY <1>3 DEF PortInv, TableOK
  <2>2. ASSUME NEW p \in Peers, table'[p] # None
        PROVE  client'[table'[p]].sock # "none" /\ client'[table'[p]].peer = p
    <3>1. table'[p] = table[p] /\ table[p] \in Ids /\ Made(table[p]) /\ client[table[p]].peer = p
      BY <2>2, <1>1, <1>5 DEF PortInv, TableOK
    <3>2. QED BY <3>1, <1>3 DEF Made
  <2>3. QED BY <2>1, <2>2, <1>4 DEF TableOK, Made
<1>7. HistoryOK'
  BY <1>1, <1>2 DEF PortInv, HistoryOK
<1>8. OpenIsListed'
  <2>1. SUFFICES ASSUME NEW j \in Ids, Open(j)', ~BeingShut(j)', j \notin orphaned'
                 PROVE  table'[client'[j].peer] = j
    BY DEF OpenIsListed
  <2>2. Open(j) /\ ~BeingShut(j) /\ j \notin orphaned /\ j # i
    BY <2>1, <1>2, <1>3
  <2>3. table[client[j].peer] = j
    BY <2>2 DEF PortInv, OpenIsListed
  <2>4. client[j].peer # k
    BY <2>1, <2>2, <2>3, <1>2, UdpAssumption
  <2>5. client[j].peer \in Peers
    BY <2>2 DEF Open, PortInv, TableOK, Made, NoClient
  <2>6. QED BY <2>3, <2>4, <2>5, <1>1, <1>2, <1>3
<1>9. RangedInv'
  BY <1>2, <1>3 DEF PortInv, RangedInv, Ranged, Excused
<1>10. CloserInv' /\ CloserOK'
  BY DEF PortInv, CloserInv, CloserOK
<1>11. QED BY <1>6, <1>7, <1>8, <1>9, <1>10 DEF PortInv

LEMMA Unchanged == TableOK /\ UNCHANGED client => client' = [j \in Ids |-> client'[j]] /\ \A j \in Ids : SameClient(j)
<1> SUFFICES ASSUME TableOK, client' = client
             PROVE  client = [j \in Ids |-> client[j]] /\ \A j \in Ids : SameClient(j)
  OBVIOUS
<1>1. client \in [Ids -> Client] /\ \A j \in Ids : client[j] \in Client
  BY DEF TableOK
<1>2. QED BY <1>1 DEF SameClient, TableOK

LEMMA PumpDropsInv ==
  ASSUME PortInv, PumpDrops, UNCHANGED kind
  PROVE  PortInv'
<1>1. pump.c \in Ids /\ Made(pump.c) /\ GoroutinesOK /\ TableOK /\ pump.pc = "write"
  BY DEF PumpDrops, PortInv, GoroutinesOK
<1>2. /\ DeleteKey(client[pump.c].peer, pump.c)
      /\ pump' = [pump EXCEPT !.pc = "shut"]
      /\ UNCHANGED <<client, sweep, closer, port, late>>
  BY DEF PumpDrops, PumpTo
<1>3. /\ pump' \in [pc : {"top", "read", "write", "shut", "ended"}, c : Ids \cup {None}]
      /\ pump'.pc = "shut" /\ pump'.c = pump.c
  BY <1>1, <1>2 DEF GoroutinesOK
<1>4. GoroutinesOK'
  BY <1>1, <1>2, <1>3, UdpAssumption DEF GoroutinesOK, Made
<1>5. BeingShut(pump.c)' /\ \A j \in Ids : BeingShut(j) => BeingShut(j)'
  BY <1>1, <1>2, <1>3 DEF BeingShut
<1>6. AllLeft => AllLeft'
  BY <1>2 DEF AllLeft
<1>7. QED BY <1>1, <1>2, <1>4, <1>5, <1>6, Unchanged, KeyDeleted

LEMMA SweepDropsInv ==
  ASSUME PortInv, SweepDrops, UNCHANGED kind
  PROVE  PortInv'
<1>1. sweep.c \in Ids /\ Made(sweep.c) /\ GoroutinesOK /\ TableOK /\ sweep.pc = "drop"
  BY DEF SweepDrops, PortInv, GoroutinesOK
<1>2. /\ DeleteKey(client[sweep.c].peer, sweep.c)
      /\ sweep' = [sweep EXCEPT !.pc = "shut"]
      /\ UNCHANGED <<client, pump, closer, port, late>>
  BY DEF SweepDrops
<1>3. /\ sweep' \in [pc : {"wait", "next", "drop", "shut", "ended"}, todo : SUBSET Peers, c : Ids \cup {None}]
      /\ sweep'.pc = "shut" /\ sweep'.c = sweep.c
  BY <1>1, <1>2 DEF GoroutinesOK
<1>4. GoroutinesOK'
  BY <1>1, <1>2, <1>3, UdpAssumption DEF GoroutinesOK, Made
<1>5. BeingShut(sweep.c)' /\ \A j \in Ids : BeingShut(j) => BeingShut(j)'
  BY <1>1, <1>2, <1>3 DEF BeingShut
<1>6. AllLeft => AllLeft'
  BY <1>1 DEF AllLeft
<1>7. QED BY <1>1, <1>2, <1>4, <1>5, <1>6, Unchanged, KeyDeleted

LEMMA ReturnDropsInv ==
  ASSUME PortInv, NEW i \in Ids, ReturnDrops(i), UNCHANGED kind
  PROVE  PortInv'
<1> DEFINE n == [client[i] EXCEPT !.ret = "shut"]
<1>1. /\ TableOK /\ GoroutinesOK /\ Made(i)
      /\ client[i].ret = "reading" /\ client[i] \in Client
  BY DEF ReturnDrops, PortInv, TableOK, NoClient
<1>2. /\ DeleteKey(client[i].peer, i)
      /\ client' = [client EXCEPT ![i] = n]
      /\ UNCHANGED <<pump, sweep, closer, port, late>>
  BY <1>1 DEF ReturnDrops, TableOK
<1>3. n \in Client /\ n.peer = client[i].peer /\ n.sock = client[i].sock /\ n.ret = "shut"
  BY <1>1 DEF Client
<1> HIDE DEF n
<1>4. /\ client' = [j \in Ids |-> client'[j]]
      /\ client'[i] = n
      /\ \A j \in Ids : j # i => client'[j] = client[j]
      /\ \A j \in Ids : SameClient(j)
      /\ \A j \in Ids : Made(j) => Made(j)'
  BY <1>1, <1>2, <1>3, OneClient
<1>5. GoroutinesOK'
  BY <1>1, <1>2, <1>4 DEF GoroutinesOK
<1>6. BeingShut(i)' /\ \A j \in Ids : BeingShut(j) => BeingShut(j)'
  BY <1>2, <1>3, <1>4 DEF BeingShut
<1>7. ~AllLeft
  BY <1>1 DEF AllLeft
<1>8. QED BY <1>1, <1>2, <1>4, <1>5, <1>6, <1>7, KeyDeleted

-----------------------------------------------------------------------------
(***************************************************************************)
(* A client is made for a peer that has none.                              *)
(***************************************************************************)
LEMMA NewClientInv ==
  ASSUME PortInv, NEW k \in Peers, NEW t \in Targets, NewClient(k, t), UNCHANGED kind
  PROVE  PortInv'
<1> DEFINE Fresh(i) == [peer |-> k, target |-> t, sock |-> "open", ret |-> "reading", idle |-> FALSE]
<1>1. PICK i \in Ids :
        /\ ~Made(i)
        /\ client' = [client EXCEPT ![i] = Fresh(i)]
        /\ table' = [table EXCEPT ![k] = i]
        /\ pump' = [pc |-> "write", c |-> i]
        /\ late' = IF Down THEN late \cup {i} ELSE late
  BY DEF NewClient
<1>2. /\ pump.pc = "read" /\ port = "open" /\ table[k] = None
      /\ UNCHANGED <<sweep, closer, port, orphaned>>
  BY DEF NewClient
<1>3. table \in [Peers -> Ids \cup {None}] /\ client \in [Ids -> Client] /\ i # None
  BY UdpAssumption DEF PortInv, TableOK
<1>4. /\ client'[i] = Fresh(i) /\ Fresh(i) \in Client
      /\ \A j \in Ids : j # i => client'[j] = client[j]
      /\ client' \in [Ids -> Client]
  BY <1>1, <1>3 DEF Client
<1>5. table' \in [Peers -> Ids \cup {None}] /\ table'[k] = i /\ \A p \in Peers : p # k => table'[p] = table[p]
  BY <1>1, <1>3
<1>6. Made(i)' /\ \A j \in Ids : j # i => (Made(j)' <=> Made(j))
  BY <1>4 DEF Made
<1>7. TableOK'
  <2>1. \A j \in Ids : IF Made(j)' THEN client'[j].peer \in Peers /\ client'[j].ret # "none"
                                    ELSE client'[j] = NoClient
    BY <1>4, <1>6 DEF PortInv, TableOK
  <2>2. ASSUME NEW p \in Peers, table'[p] # None
        PROVE  client'[table'[p]].sock # "none" /\ client'[table'[p]].peer = p
    <3>1. CASE p = k
      BY <3>1, <1>4, <1>5
    <3>2. CASE p # k
      <4>1. table'[p] = table[p] /\ table[p] \in Ids /\ Made(table[p]) /\ client[table[p]].peer = p
        BY <3>2, <2>2, <1>3, <1>5 DEF PortInv, TableOK
      <4>2. QED BY <4>1, <1>1, <1>4 DEF Made
    <3>3. QED BY <3>1, <3>2
  <2>3. QED BY <2>1, <2>2, <1>4, <1>5 DEF TableOK, Made
<1>8. GoroutinesOK'
  BY <1>1, <1>2, <1>3, <1>6 DEF PortInv, GoroutinesOK
<1>9. OpenIsListed'
  <2>1. SUFFICES ASSUME NEW j \in Ids, Open(j)', ~BeingShut(j)', j \notin orphaned'
                 PROVE  table'[client'[j].peer] = j
    BY DEF OpenIsListed
  <2>2. CASE j = i
    BY <2>2, <1>4, <1>5
  <2>3. CASE j # i
    <3>1. Open(j) /\ ~BeingShut(j) /\ j \notin orphaned /\ client'[j] = client[j]
      BY <2>1, <2>3, <1>2, <1>4 DEF Open, BeingShut
    <3>2. client[j].peer \in Peers
      BY <3>1 DEF Open, PortInv, TableOK, Made, NoClient
    <3>3. table[client[j].peer] = j
      BY <3>1 DEF PortInv, OpenIsListed
    <3>4. client[j].peer # k
      BY <3>3, <1>2, UdpAssumption
    <3>5. QED BY <3>1, <3>2, <3>3, <3>4, <1>5
  <2>4. QED BY <2>2, <2>3
<1>10. RangedInv'
  <2>1. SUFFICES ASSUME NEW j \in Ids, Open(j)', Ranged(client[j].peer)'
                 PROVE  Excused(j)'
    BY DEF RangedInv
  <2>2. CASE j = i
    <3>1. Down
      BY <2>1, <1>2 DEF Ranged, Down
    <3>2. QED BY <3>1, <2>2, <1>1 DEF Excused
  <2>3. CASE j # i
    <3>1. client'[j] = client[j]
      BY <2>3, <1>4
    <3>2. Open(j) /\ Ranged(client[j].peer)
      BY <2>1, <3>1, <1>2 DEF Open, Ranged
    <3>3. Excused(j)
      BY <3>2 DEF PortInv, RangedInv
    <3>4. BeingShut(j) => BeingShut(j)'
      BY <3>1, <1>2 DEF BeingShut
    <3>5. QED BY <3>3, <3>4, <1>1, <1>2 DEF Excused
  <2>4. QED BY <2>2, <2>3
<1>11. CloserInv' /\ CloserOK' /\ HistoryOK'
  BY <1>1, <1>2 DEF PortInv, CloserInv, CloserOK, HistoryOK
<1>12. QED BY <1>7, <1>8, <1>9, <1>10, <1>11 DEF PortInv

-----------------------------------------------------------------------------
(* Close.                                                                  *)

LEMMA CloserSteps ==
  ASSUME PortInv, UNCHANGED <<table, client, pump, sweep, orphaned, late, kind>>,
         CloserOK', CloserInv',
         \A k \in Peers : Ranged(k)' => Ranged(k)
  PROVE  PortInv'
<1>1. TableOK' /\ GoroutinesOK' /\ HistoryOK' /\ OpenIsListed'
  BY DEF PortInv, TableOK, GoroutinesOK, HistoryOK, OpenIsListed, Made, Open, BeingShut
<1>2. RangedInv'
  <2>1. SUFFICES ASSUME NEW j \in Ids, Open(j), Ranged(client[j].peer)'
                 PROVE  Excused(j)
    BY DEF RangedInv, Open, Excused, BeingShut
  <2>2. client[j].peer \in Peers
    BY <2>1 DEF Open, PortInv, TableOK, Made, NoClient
  <2>3. Ranged(client[j].peer)
    BY <2>1, <2>2
  <2>4. QED BY <2>1, <2>3 DEF PortInv, RangedInv
<1>3. QED BY <1>1, <1>2 DEF PortInv

\* Which half of the port is closed first is what tells the two orders apart.
LEMMA CloserMoves ==
  ASSUME PortInv, UNCHANGED kind,
         \/ kind = "forwarder" /\ (CloseBegins \/ ClosePort("wait", {}))
         \/ kind # "forwarder" /\ (ProxyCloseBegins \/ ClosePort("range", Peers))
         \/ CloseWaits
  PROVE  PortInv'
<1>1. /\ UNCHANGED <<table, client, pump, sweep, orphaned, late>>
      /\ CloserOK
  BY DEF CloseBegins, ClosePort, ProxyCloseBegins, CloseWaits, PortInv
<1>2. CloserOK'
  BY <1>1 DEF CloseBegins, ClosePort, ProxyCloseBegins, CloseWaits, CloserTo, CloserOK
<1>3. CloserInv'
  BY <1>1 DEF CloseBegins, ClosePort, ProxyCloseBegins, CloseWaits, CloserTo, CloserInv, CloserOK, PortInv, AllLeft
<1>4. \A k \in Peers : Ranged(k)' => Ranged(k)
  BY <1>1 DEF CloseBegins, ClosePort, ProxyCloseBegins, CloseWaits, CloserTo, Ranged, CloserOK
<1>5. QED BY <1>1, <1>2, <1>3, <1>4, CloserSteps

(***************************************************************************)
(* Range: the client the map holds for a peer is closed; if the peer has   *)
(* another open one, that one was in nobody's hands but its closer's, or   *)
(* lost.  At the end every peer has had its turn.                          *)
(***************************************************************************)
LEMMA CloseRangesInv ==
  ASSUME PortInv, UNCHANGED kind,
         \/ kind = "forwarder" /\ CloseRanges("socket")
         \/ kind # "forwarder" /\ CloseRanges("wait")
  PROVE  PortInv'
<1>1. /\ closer.pc = "range" /\ CloserOK
      /\ UNCHANGED <<table, pump, sweep, port, orphaned, late>>
  BY DEF CloseRanges, PortInv
<1>2. ASSUME NEW k \in closer.todo, CloserTo("range", closer.todo \ {k}),
             client' = [i \in Ids |-> IF table[k] = i THEN [client[i] EXCEPT !.sock = "closed"]
                                                     ELSE client[i]]
      PROVE  PortInv'
  <2>1. k \in Peers /\ TableOK
    BY <1>1, <1>2 DEF CloserOK, PortInv
  <2>2. \A i \in Ids : client'[i] = IF table[k] = i THEN [client[i] EXCEPT !.sock = "closed"] ELSE client[i]
    BY <1>2
  <2>3. \A i \in Ids : client[i] \in Client /\ (table[k] = i => Made(i))
    <3>1. client \in [Ids -> Client] /\ (table[k] # None => Made(table[k]))
      BY <2>1 DEF TableOK
    <3>2. QED BY <3>1, UdpAssumption
  <2>4. \A i \in Ids : SameClient(i) /\ client'[i].ret = client[i].ret
    <3>1. SUFFICES ASSUME NEW i \in Ids
                   PROVE  SameClient(i) /\ client'[i].ret = client[i].ret
      OBVIOUS
    <3>2. CASE table[k] = i
      <4>1. client'[i] = [client[i] EXCEPT !.sock = "closed"] /\ Made(i) /\ client[i] \in Client
        BY <3>2, <2>2, <2>3
      <4>2. client[i].ret # "none"
        BY <4>1, <2>1 DEF TableOK
      <4>3. QED BY <4>1, <4>2 DEF SameClient, Client
    <3>3. CASE table[k] # i
      <4>1. client'[i] = client[i] /\ client[i] \in Client
        BY <3>3, <2>2, <2>3
      <4>2. Made(i) => client[i].ret # "none"
        BY <2>1 DEF TableOK
      <4>3. QED BY <4>1, <4>2 DEF SameClient
    <3>4. QED BY <3>2, <3>3
  <2>5. client' = [i \in Ids |-> client'[i]] /\ DOMAIN client' = Ids
    BY <1>2
  <2>6. /\ TableOK'
        /\ \A i \in Ids : Made(i)' <=> Made(i)
        /\ \A i \in Ids : client'[i].peer = client[i].peer
        /\ \A i \in Ids : Open(i)' => Open(i)
    BY <1>1, <2>1, <2>4, <2>5, SameClientsOK
  <2>7. GoroutinesOK'
    BY <1>1, <2>6 DEF PortInv, GoroutinesOK
  <2>8. \A i \in Ids : BeingShut(i) <=> BeingShut(i)'
    BY <1>1, <2>4 DEF BeingShut
  <2>9. OpenIsListed'
    BY <1>1, <2>6, <2>8 DEF PortInv, OpenIsListed
  <2>10. closer'.pc = "range" /\ closer'.todo = closer.todo \ {k} /\ CloserOK'
    BY <1>1, <1>2 DEF CloserTo, CloserOK
  <2>11. RangedInv'
    <3>1. SUFFICES ASSUME NEW i \in Ids, Open(i)', Ranged(client[i].peer)'
                   PROVE  Excused(i)'
      BY DEF RangedInv
    <3>2. Open(i) /\ client'[i].peer = client[i].peer
      BY <3>1, <2>6
    <3>3. CASE client[i].peer = k
      <4>1. table[k] # i
        BY <3>1, <2>2, <2>3 DEF Open, Client
      <4>2. BeingShut(i) \/ i \in orphaned
        BY <3>2, <3>3, <4>1 DEF PortInv, OpenIsListed
      <4>3. QED BY <4>2, <1>1, <2>8 DEF Excused
    <3>4. CASE client[i].peer # k
      <4>1. Ranged(client[i].peer)
        BY <3>1, <3>2, <3>4, <2>10, <1>1 DEF Ranged
      <4>2. Excused(i)
        BY <4>1, <3>2 DEF PortInv, RangedInv
      <4>3. QED BY <4>2, <1>1, <2>8 DEF Excused
    <3>5. QED BY <3>3, <3>4
  <2>12. CloserInv' /\ HistoryOK'
    BY <1>1, <2>10 DEF PortInv, CloserInv, HistoryOK
  <2>13. QED BY <2>6, <2>7, <2>9, <2>10, <2>11, <2>12 DEF PortInv
<1>3. ASSUME closer.todo = {}, UNCHANGED client,
             \/ kind = "forwarder" /\ CloserTo("socket", {})
             \/ kind # "forwarder" /\ CloserTo("wait", {})
      PROVE  PortInv'
  <2>1. CloserOK'
    BY <1>1, <1>3 DEF CloserTo, CloserOK
  <2>2. CloserInv'
    BY <1>1, <1>3 DEF CloserTo, CloserInv, PortInv
  <2>3. \A k \in Peers : Ranged(k)
    BY <1>1, <1>3 DEF Ranged
  <2>4. QED BY <1>1, <1>3, <2>1, <2>2, <2>3, CloserSteps
<1>4. QED BY <1>2, <1>3 DEF CloseRanges

-----------------------------------------------------------------------------
LEMMA CommonInv ==
  ASSUME PortInv, Common, UNCHANGED kind
  PROVE  PortInv'
<1>1. CASE Pump
  BY <1>1, PumpIdles, PumpDropsInv, PumpShutsInv DEF Pump
<1>2. CASE cleanupExpiredClients
  BY <1>2, SweepIdles, SweepDropsInv, SweepShutsInv DEF cleanupExpiredClients
<1>3. CASE \E i \in Ids : handleTargetReturn(i) \/ GoesIdle(i)
  BY <1>3, ReturnMarks, ReturnDropsInv, ReturnShutsInv DEF handleTargetReturn
<1>4. QED BY <1>1, <1>2, <1>3 DEF Common

LEMMA PacketInv ==
  ASSUME PortInv, NEW k \in Peers, NEW t \in Targets, handlePacket(k, t), UNCHANGED kind
  PROVE  PortInv'
  BY NewClientInv, PumpFindsClient DEF handlePacket

LEMMA ForwarderInv ==
  ASSUME PortInv, kind = "forwarder", Next, UNCHANGED kind
  PROVE  PortInv'
<1>1. CASE Common
  BY <1>1, CommonInv
<1>2. CASE Close
  BY <1>2, CloserMoves, CloseRangesInv DEF Close
<1>3. CASE \E k \in Peers : handlePacket(k, Target)
  BY <1>3, PacketInv, UdpAssumption
<1>4. QED BY <1>1, <1>2, <1>3 DEF Next

LEMMA ProxyInv ==
  ASSUME PortInv, kind # "forwarder", ServerNext \/ ClientNext, UNCHANGED kind
  PROVE  PortInv'
<1>1. CASE ProxyClose
  BY <1>1, CloserMoves, CloseRangesInv DEF ProxyClose
<1>2. CASE ProxyCommon
  <2>1. Common \/ ProxyClose
    BY <1>2 DEF ProxyCommon, Common, ProxyStart, ProxyCleanup, ProxyTargetReturn
  <2>2. QED BY <2>1, <1>1, CommonInv
<1>3. CASE \E k \in Peers, w \in Wires : handleServerPacket(k, w)
  <2>1. PICK k \in Peers, w \in Wires : handleServerPacket(k, w)
    BY <1>3
  <2>2. unpackAddress(w).addr \in Targets
    BY <2>1, ProxyAssumption DEF handleServerPacket
  <2>3. QED BY <2>1, <2>2, PacketInv DEF handleServerPacket
<1>4. CASE \E k \in Peers : handleClientPacket(k)
  BY <1>4, PacketInv, ProxyAssumption DEF handleClientPacket
<1>5. QED BY <1>2, <1>3, <1>4 DEF ServerNext, ClientNext

LEMMA PortStepInv == PortInv /\ [PortNext]_portVars => PortInv'
<1> SUFFICES ASSUME PortInv, [PortNext]_portVars
             PROVE  PortInv'
  OBVIOUS
<1>1. CASE PortNext
  BY <1>1, ForwarderInv, ProxyInv DEF PortNext
<1>2. CASE UNCHANGED portVars
  <2>1. UNCHANGED <<table, client, pump, sweep, closer, port, orphaned, late, kind>>
    BY <1>2 DEF portVars, vars
  <2>2. CloserOK' /\ CloserInv'
    BY <2>1 DEF PortInv, CloserOK, CloserInv, AllLeft
  <2>3. \A k \in Peers : Ranged(k)' => Ranged(k)
    BY <2>1 DEF Ranged
  <2>4. QED BY <2>1, <2>2, <2>3, CloserSteps
<1>3. QED BY <1>1, <1>2

LEMMA PortSpecInv == PortSpec => []PortInv
  BY PortInitInv, PortStepInv, PTL DEF PortSpec

LEMMA ReleasedAtTheEnd == PortInv => CloseReleases
<1> SUFFICES ASSUME PortInv, closer.pc = "closed", NEW i \in Ids, Open(i)
             PROVE  i \in orphaned \cup late \/ (pump.pc = "shut" /\ pump.c = i)
  BY DEF CloseReleases
<1>1. Excused(i)
  BY DEF PortInv, RangedInv, Ranged
<1>2. sweep.pc = "ended" /\ client[i].ret \in {"none", "ended"}
  BY DEF PortInv, CloserInv, AllLeft
<1>3. QED BY <1>1, <1>2 DEF Excused, BeingShut

(***************************************************************************)
(* The tables and goroutines of a UDP port keep their shape.               *)
(***************************************************************************)
THEOREM UdpTypeCorrect == PortSpec => []TypeOK
<1>1. PortInv => TypeOK
  BY DEF PortInv, TypeOK, TableOK, GoroutinesOK, CloserOK, HistoryOK
<1>2. QED BY <1>1, PortSpecInv, PTL

(***************************************************************************)
(* A client is only ever lost by the closeClient of another client of its  *)
(* peer, whichever of the two implementations keeps the table.             *)
(***************************************************************************)
THEOREM ClientsAreListed == PortSpec => []OpenIsListed
<1>1. PortInv => OpenIsListed
  BY DEF PortInv
<1>2. QED BY <1>1, PortSpecInv, PTL

(***************************************************************************)
(* Close of either implementation, in its own order, leaves no socket open *)
(* but the lost ones, those made meanwhile, and the one in the pump's hand. *)
(***************************************************************************)
THEOREM CloseReleasesSockets == PortSpec => []CloseReleases
  BY PortSpecInv, ReleasedAtTheEnd, PTL
=============================================================================
