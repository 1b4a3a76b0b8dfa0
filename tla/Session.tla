------------------------------ MODULE Session ------------------------------
(***************************************************************************)
(* One user's connection through the agents.  On a direct rule one hop     *)
(* joins the user to the destination.  On a chained rule the inbound hop   *)
(* dials the chain's agent and sends the destination's address on a line   *)
(* of its own; the outbound hop reads that line and dials the destination. *)
(*                                                                         *)
(* A hop copies in both directions with a goroutine each and a handler     *)
(* that decides when both connections are closed.  That decision is what   *)
(* tells the connectors apart: TCPConnector closes on the first copy that  *)
(* ends, but its outbound handler first copies the connection itself until *)
(* the end; a direct TLSConnector closes on the first, an inbound one when *)
(* both have ended or ten minutes are over, an outbound one when both      *)
(* have.  No hop closes one direction of a connection, and no hop reads or *)
(* writes with a deadline: a copy whose write finds the connection full    *)
(* stays in it, and does not see what becomes of the end it reads from.    *)
(*                                                                         *)
(* Legs are numbered from the user: leg h is the connection hop h has      *)
(* accepted and leg h + 1 the one it has dialled.                          *)
(***************************************************************************)
EXTENDS Naturals, Sequences, SequencesExt

CONSTANTS
  Modes,    \* the rules considered: subset of {"tcp", "tls"} \X {"direct", "chain"}
  Request,  \* chunks the user may send: bounds the stream
  Reply,    \* chunks the destination may send
  Lane      \* chunks a connection holds in one direction before a write blocks

ASSUME SessionAssumption ==
  /\ Modes \subseteq {"tcp", "tls"} \X {"direct", "chain"}
  /\ Request \in Nat /\ Reply \in Nat /\ Lane \in Nat \ {0}

VARIABLES
  mode,     \* the rule's connector and whether it has a chain; does not change
  end,      \* both ends of each leg: closed, or closed for sending only
  data,     \* what is on its way on each leg in each direction
  handler,  \* where handleConn of each hop is
  copy,     \* the copies of each hop
  timer,    \* the ten minutes of an inbound TLS hop are over
  sent,     \* chunks the user and the destination have sent
  got,      \* chunks they have received
  counted,  \* curTraffic of the inbound or direct connector
  broken    \* history: a write failed or went to a connection closed at the other end

vars == <<mode, end, data, handler, copy, timer, sent, got, counted, broken>>

Header == 0

Final == IF mode[2] = "chain" THEN 3 ELSE 2

Hops == 1 .. 2
Legs == 1 .. 3

\* What a hop is to its rule.
Role(h) == IF mode[2] = "direct" THEN "direct" ELSE IF h = 1 THEN "in" ELSE "out"

Dirs == {"up", "down", "rest"}

NoCopy == [pc |-> "none", chunk |-> 0]

Init ==
  /\ mode \in Modes
  /\ end = [l \in Legs |-> IF l = 1 THEN [near |-> "open", far |-> "open"]
                                    ELSE [near |-> "none", far |-> "none"]]
  /\ data = [l \in Legs |-> [up |-> <<>>, down |-> <<>>]]
  /\ handler = [h \in Hops |-> IF h = 1 THEN "dial" ELSE "none"]
  /\ copy = [h \in Hops |-> [d \in Dirs |-> NoCopy]]
  /\ timer = FALSE
  /\ sent = [user |-> 0, dest |-> 0]
  /\ got = [user |-> <<>>, dest |-> <<>>]
  /\ counted = 0
  /\ broken = FALSE

-----------------------------------------------------------------------------
(* The user and the destination.                                           *)

\* The buffers of a connection are full in one direction, the short header not counted.
Full(l, way) == Len(Remove(data[l][way], Header)) >= Lane

UserSends ==
  /\ end[1].near = "open" /\ sent.user < Request /\ ~Full(1, "up")
  /\ sent' = [sent EXCEPT !.user = @ + 1]
  /\ data' = [data EXCEPT ![1].up = Append(@, sent.user + 1)]
  /\ UNCHANGED <<mode, end, handler, copy, timer, got, counted, broken>>

\* The user is done sending, or gone.
UserEnds ==
  /\ \/ end[1].near = "open" /\ end' = [end EXCEPT ![1].near = "half"]
     \/ end[1].near \in {"open", "half"} /\ end' = [end EXCEPT ![1].near = "closed"]
  /\ UNCHANGED <<mode, data, handler, copy, timer, sent, got, counted, broken>>

UserReads ==
  /\ end[1].near # "closed" /\ data[1].down # <<>>
  /\ got' = [got EXCEPT !.user = Append(@, Head(data[1].down))]
  /\ data' = [data EXCEPT ![1].down = Tail(@)]
  /\ UNCHANGED <<mode, end, handler, copy, timer, sent, counted, broken>>

DestSends ==
  /\ end[Final].far = "open" /\ sent.dest < Reply /\ ~Full(Final, "down")
  /\ sent' = [sent EXCEPT !.dest = @ + 1]
  /\ data' = [data EXCEPT ![Final].down = Append(@, sent.dest + 1)]
  /\ UNCHANGED <<mode, end, handler, copy, timer, got, counted, broken>>

DestEnds ==
  /\ end[Final].far = "open"
  /\ end' = [end EXCEPT ![Final].far = "closed"]
  /\ UNCHANGED <<mode, data, handler, copy, timer, sent, got, counted, broken>>

DestReads ==
  /\ end[Final].far = "open" /\ data[Final].up # <<>>
  /\ got' = [got EXCEPT !.dest = Append(@, Head(data[Final].up))]
  /\ data' = [data EXCEPT ![Final].up = Tail(@)]
  /\ UNCHANGED <<mode, end, handler, copy, timer, sent, counted, broken>>

-----------------------------------------------------------------------------
(* handleConn up to the copies.                                            *)

Opened(l) == [end EXCEPT ![l] = [near |-> "open", far |-> "open"]]

\* Two copies; the handler of a TCP hop that has read a header copies as well.
Start(h) ==
  [copy EXCEPT ![h] = [d \in Dirs |->
     IF d # "rest" \/ (mode[1] = "tcp" /\ Role(h) = "out")
     THEN [pc |-> "read", chunk |-> 0] ELSE NoCopy]]

\* The rule forwards directly: the destination is dialled.
DialDest(h) ==
  /\ handler[h] = "dial" /\ Role(h) = "direct"
  /\ end' = Opened(h + 1)
  /\ copy' = Start(h)
  /\ handler' = [handler EXCEPT ![h] = "wait"]
  /\ UNCHANGED <<mode, data, timer, sent, got, counted, broken>>

\* The chain is dialled, and the destination's address goes ahead of the data.
DialChain ==
  /\ handler[1] = "dial" /\ Role(1) = "in"
  /\ end' = Opened(2)
  /\ data' = [data EXCEPT ![2].up = <<Header>>]
  /\ copy' = Start(1)
  /\ handler' = [handler EXCEPT ![1] = "wait", ![2] = "dial"]
  /\ UNCHANGED <<mode, timer, sent, got, counted, broken>>

\* Mutant: everything read along with the header is dropped.
estabFromHeader_Drop ==
  /\ handler[2] = "dial"
  /\ data[2].up # <<>>
  /\ data' = [data EXCEPT ![2].up = <<>>]
  /\ end' = Opened(3)
  /\ copy' = Start(2)
  /\ handler' = [handler EXCEPT ![2] = "wait"]
  /\ UNCHANGED <<mode, timer, sent, got, counted, broken>>

(***************************************************************************)
(* The header is read and the destination dialled.  What a TCP connection  *)
(* delivers along with the header stays in the reader that the handler     *)
(* goes on to copy, as if still on the leg; a TLS connection delivers the  *)
(* header's record alone, and the reader is dropped empty.                 *)
(***************************************************************************)
estabFromHeader ==
  /\ handler[2] = "dial"
  /\ data[2].up # <<>>
  /\ data' = [data EXCEPT ![2].up = Tail(@)]
  /\ end' = Opened(3)
  /\ copy' = Start(2)
  /\ handler' = [handler EXCEPT ![2] = "wait"]
  /\ UNCHANGED <<mode, timer, sent, got, counted, broken>>

\* No connection or no header: the TLS handler closes on its way out, the TCP handler does not.
GivesUp(h) ==
  /\ handler[h] = "dial"
  /\ handler' = [handler EXCEPT ![h] = IF mode[1] = "tls" THEN "closed" ELSE "left"]
  /\ end' = IF mode[1] = "tls" THEN [end EXCEPT ![h].far = "closed"] ELSE end
  /\ UNCHANGED <<mode, data, copy, timer, sent, got, counted, broken>>

\* The runtime closes a connection nobody refers to any more.
Collected(h) ==
  /\ handler[h] = "left"
  /\ handler' = [handler EXCEPT ![h] = "closed"]
  /\ end' = [end EXCEPT ![h].far = "closed"]
  /\ UNCHANGED <<mode, data, copy, timer, sent, got, counted, broken>>

-----------------------------------------------------------------------------
(* copyConn, and the io.Copy of a TCP outbound handler.                    *)

\* The leg a copy reads, the end it holds of it and the other one, and the same where it writes.
From(h, d) == IF d = "down" THEN [leg |-> h + 1, way |-> "down", own |-> "near", peer |-> "far"]
                            ELSE [leg |-> h, way |-> "up", own |-> "far", peer |-> "near"]

To(h, d) == IF d = "down" THEN [leg |-> h, way |-> "down", own |-> "far", peer |-> "near"]
                          ELSE [leg |-> h + 1, way |-> "up", own |-> "near", peer |-> "far"]

\* Mutant: the bytes are counted at both hops.
CopyReads_CountTwice(h, d) ==
  LET f == From(h, d) IN
  /\ copy[h][d].pc = "read"
  /\ end[f.leg][f.own] # "closed" /\ data[f.leg][f.way] # <<>>
  /\ copy' = [copy EXCEPT ![h][d] = [pc |-> "hold", chunk |-> Head(data[f.leg][f.way])]]
  /\ data' = [data EXCEPT ![f.leg][f.way] = Tail(@)]
  /\ counted' = counted + 1
  /\ UNCHANGED <<mode, end, handler, timer, sent, got, broken>>

\* A chunk is read, and counted unless the hop is an outbound one.
CopyReads(h, d) ==
  LET f == From(h, d) IN
  /\ copy[h][d].pc = "read"
  /\ end[f.leg][f.own] # "closed" /\ data[f.leg][f.way] # <<>>
  /\ copy' = [copy EXCEPT ![h][d] = [pc |-> "hold", chunk |-> Head(data[f.leg][f.way])]]
  /\ data' = [data EXCEPT ![f.leg][f.way] = Tail(@)]
  /\ counted' = IF Role(h) = "out" THEN counted ELSE counted + 1
  /\ UNCHANGED <<mode, end, handler, timer, sent, got, broken>>

\* The connection has ended, at the other end once everything is read, or at this one.
CopyEnds(h, d) ==
  LET f == From(h, d) IN
  /\ copy[h][d].pc = "read"
  /\ \/ end[f.leg][f.own] = "closed"
     \/ end[f.leg][f.peer] \in {"half", "closed"} /\ data[f.leg][f.way] = <<>>
  /\ copy' = [copy EXCEPT ![h][d].pc = "done"]
  /\ UNCHANGED <<mode, end, data, handler, timer, sent, got, counted, broken>>

\* The write waits, without a deadline, until the connection has room.
CopyWrites(h, d) ==
  LET t == To(h, d) IN
  /\ copy[h][d].pc = "hold" /\ ~Full(t.leg, t.way)
  /\ end[t.leg][t.own] # "closed" /\ end[t.leg][t.peer] # "closed"
  /\ copy' = [copy EXCEPT ![h][d] = [pc |-> "read", chunk |-> 0]]
  /\ data' = [data EXCEPT ![t.leg][t.way] = Append(@, copy[h][d].chunk)]
  /\ UNCHANGED <<mode, end, handler, timer, sent, got, counted, broken>>

\* Either end is closed: the write fails, or the first one to a closed peer is lost.
CopyBreaks(h, d) ==
  LET t == To(h, d) IN
  /\ copy[h][d].pc = "hold"
  /\ "closed" \in {end[t.leg][t.own], end[t.leg][t.peer]}
  /\ \/ copy' = [copy EXCEPT ![h][d] = [pc |-> "done", chunk |-> 0]]
     \/ end[t.leg][t.own] # "closed" /\ copy' = [copy EXCEPT ![h][d] = [pc |-> "read", chunk |-> 0]]
  /\ broken' = TRUE
  /\ UNCHANGED <<mode, end, data, handler, timer, sent, got, counted>>

copyConn(h, d) ==
  CopyReads(h, d) \/ CopyEnds(h, d) \/ CopyWrites(h, d) \/ CopyBreaks(h, d)

-----------------------------------------------------------------------------
(* handleConn from the copies on.                                          *)

Done(h, d) == copy[h][d].pc = "done"

\* Mutant: the inbound handler waits for its copies only.
TLSOver_NoTimeout(h) ==
  CASE Role(h) = "direct" -> Done(h, "up") \/ Done(h, "down")
    [] OTHER              -> Done(h, "up") /\ Done(h, "down")

TLSOver(h) ==
  CASE Role(h) = "direct" -> Done(h, "up") \/ Done(h, "down")
    [] Role(h) = "in"     -> timer \/ (Done(h, "up") /\ Done(h, "down"))
    [] Role(h) = "out"    -> Done(h, "up") /\ Done(h, "down")

\* The handler of an outbound hop reads errChan when its own copy has ended.
TCPOver(h) ==
  /\ Done(h, "up") \/ Done(h, "down")
  /\ Role(h) = "out" => Done(h, "rest")

\* Mutant: the dialled connection stays open.
Release_OneSide(h) ==
  /\ handler[h] = "wait"
  /\ IF mode[1] = "tcp" THEN TCPOver(h) ELSE TLSOver(h)
  /\ handler' = [handler EXCEPT ![h] = "closed"]
  /\ end' = [end EXCEPT ![h].far = "closed"]
  /\ UNCHANGED <<mode, data, copy, timer, sent, got, counted, broken>>

\* onClose, or the deferred close: both connections.
Release(h) ==
  /\ handler[h] = "wait"
  /\ IF mode[1] = "tcp" THEN TCPOver(h) ELSE TLSOver(h)
  /\ handler' = [handler EXCEPT ![h] = "closed"]
  /\ end' = [end EXCEPT ![h].far = "closed", ![h + 1].near = "closed"]
  /\ UNCHANGED <<mode, data, copy, timer, sent, got, counted, broken>>

\* Ten minutes from the start of the copies, whatever they are at.
TimesOut ==
  /\ ~timer /\ mode = <<"tls", "chain">> /\ handler[1] = "wait"
  /\ timer' = TRUE
  /\ UNCHANGED <<mode, end, data, handler, copy, sent, got, counted, broken>>

-----------------------------------------------------------------------------
Ends == UserSends \/ UserEnds \/ UserReads \/ DestSends \/ DestEnds \/ DestReads

Dials == DialChain \/ estabFromHeader \/ \E h \in Hops : DialDest(h) \/ GivesUp(h)

Next ==
  \/ Ends \/ Dials \/ TimesOut
  \/ \E h \in Hops : Collected(h) \/ Release(h) \/ \E d \in Dirs : copyConn(h, d)

(***************************************************************************)
(* The agents' goroutines run, dials end one way or the other, timers fire *)
(* and garbage is collected.  Nobody is obliged to send, to read or to     *)
(* close.                                                                  *)
(***************************************************************************)
Fairness ==
  /\ WF_vars(Dials) /\ WF_vars(TimesOut)
  /\ \A h \in Hops :
       /\ WF_vars(Collected(h)) /\ WF_vars(Release(h))
       /\ \A d \in Dirs : WF_vars(copyConn(h, d))

Spec == Init /\ [][Next]_vars /\ Fairness

-----------------------------------------------------------------------------
EndState == {"none", "open", "half", "closed"}

\* Type correctness.
TypeOK ==
  /\ mode \in Modes
  /\ end \in [Legs -> [near : EndState, far : EndState]]
  /\ \A l \in Legs : data[l].up \in Seq(0 .. Request) /\ data[l].down \in Seq(1 .. Reply)
  /\ handler \in [Hops -> {"none", "dial", "wait", "left", "closed"}]
  /\ copy \in [Hops -> [Dirs -> [pc : {"none", "read", "hold", "done"}, chunk : Nat]]]
  /\ timer \in BOOLEAN /\ broken \in BOOLEAN
  /\ sent.user \in 0 .. Request /\ sent.dest \in 0 .. Reply
  /\ counted \in 0 .. Request + Reply

Stream(n) == [i \in 1 .. n |-> i]

\* A TCP chain has two copies on one stream: see InOrder.
TwoReaders == mode = <<"tcp", "chain">>

(***************************************************************************)
(* Each side receives a prefix of what the other sent: nothing lost in the *)
(* middle, nothing out of order, no header among the data.  Except that    *)
(* behind a TCP chain the outbound copyConn and io.Copy take turns reading *)
(* the user's stream, and whoever writes first is first; no chunk is       *)
(* received twice even so.                                                 *)
(***************************************************************************)
InOrder ==
  /\ IsPrefix(got.user, Stream(sent.dest))
  /\ IF TwoReaders THEN IsInjective(got.dest) /\ ToSet(got.dest) \subseteq 1 .. sent.user
                   ELSE IsPrefix(got.dest, Stream(sent.user))

(***************************************************************************)
(* Whoever finds the connection ended has received all that the other      *)
(* side sent before it hung up: the hops close after the last byte.        *)
(* Unless a write broke, the ten minutes were over, or this side had       *)
(* stopped sending, which closes the whole session before the answer.      *)
(***************************************************************************)
AllArrives ==
  ~broken /\ ~timer =>
    /\ /\ end[Final].far = "open" /\ end[Final].near = "closed"
       /\ data[Final].up = <<>>
       => Len(got.dest) = sent.user
    /\ /\ end[1].near = "open" /\ end[1].far = "closed"
       /\ data[1].down = <<>>
       => Len(got.user) = sent.dest

(***************************************************************************)
(* Traffic is counted once on its way, at the user's hop, before it is     *)
(* passed on: what has arrived has been counted, what is counted was sent. *)
(***************************************************************************)
CountedOnce ==
  /\ Len(got.dest) + Len(got.user) <= counted
  /\ counted <= sent.user + sent.dest

(***************************************************************************)
(* A user that is gone is noticed by the destination, or the destination   *)
(* leaves a full connection unread: the copy of the user's stream is then  *)
(* in its write and does not come to read the end.  Except through a TLS   *)
(* chain, whose outbound hop waits for the destination to close first.     *)
(***************************************************************************)
UserGoneReachesDest ==
  (end[1].near = "closed" /\ mode # <<"tls", "chain">>) ~>
    (end[Final].near \in {"none", "closed"} \/ Full(Final, "up"))

(***************************************************************************)
(* A destination that has closed is noticed by the user, through a TLS     *)
(* chain within ten minutes at worst and whatever the user does; on a      *)
(* direct rule unless the user leaves a full connection unread.  Except    *)
(* through a TCP chain, whose outbound handler is in its own copy of the   *)
(* user's stream until the user closes.                                    *)
(***************************************************************************)
DestGoneReachesUser ==
  (end[Final].far = "closed" /\ ~TwoReaders) ~>
    (end[1].far = "closed" \/ (mode[2] = "direct" /\ Full(1, "down")))

(***************************************************************************)
(* When both are gone no hop keeps a connection.                           *)
(***************************************************************************)
AllReleased ==
  (end[1].near = "closed" /\ end[Final].far = "closed") ~>
    \A h \in Hops : handler[h] \in {"none", "closed"}
=============================================================================
