--------------------------- MODULE Session_proofs ---------------------------
(***************************************************************************)
(* TypeOK, InOrder, AllArrives and CountedOnce for any set of rules and    *)
(* any number of chunks.                                                   *)
(*                                                                         *)
(* Four things go into the invariant.  Shape: which connections a hop has  *)
(* at each point of its handler.  Flow: a ledger of the chunks, that none  *)
(* is on its way twice and, while no write has broken, none is missing.    *)
(* Arrival: a handler closes a connection behind the last chunk only, for  *)
(* its copy had found the one before it ended and empty.  And the order:   *)
(* every lane holds consecutive chunks, and two lanes joined by a copy     *)
(* follow on each other for as long as the copy can write; behind a TCP    *)
(* chain's two readers the chunks are merely apart.                        *)
(***************************************************************************)
EXTENDS Session, SequenceTheorems, TLAPS

\* The two lanes of a leg.
Ways == {"up", "down"}

\* TypeOK without its bounds.
SessionTypes ==
  /\ mode \in Modes
  /\ end \in [Legs -> [near : EndState, far : EndState]]
  /\ data \in [Legs -> [up : Seq(Nat), down : Seq(Nat)]]
  /\ handler \in [Hops -> {"none", "dial", "wait", "left", "closed"}]
  /\ copy \in [Hops -> [Dirs -> [pc : {"none", "read", "hold", "done"}, chunk : Nat]]]
  /\ timer \in BOOLEAN /\ broken \in BOOLEAN
  /\ sent \in [user : Nat, dest : Nat]
  /\ got \in [user : Seq(Nat), dest : Seq(Nat)]
  /\ counted \in Nat

\* A lane of a leg, a copy of a hop, an end of a leg changes and no other.
LaneBecomes(L, W, s) ==
  \A l \in Legs, w \in Ways : data'[l][w] = IF l = L /\ w = W THEN s ELSE data[l][w]

CopyBecomes(H, D, c) ==
  \A h \in Hops, d \in Dirs : copy'[h][d] = IF h = H /\ d = D THEN c ELSE copy[h][d]

LEMMA ModeIs ==
  ASSUME mode \in Modes
  PROVE  mode[1] \in {"tcp", "tls"} /\ mode[2] \in {"direct", "chain"} /\ mode = <<mode[1], mode[2]>>
BY SessionAssumption

LEMMA LaneChanges ==
  ASSUME SessionTypes, NEW L \in Legs, NEW W \in Ways, NEW s \in Seq(Nat),
         data' = [data EXCEPT ![L][W] = s]
  PROVE  data' \in [Legs -> [up : Seq(Nat), down : Seq(Nat)]] /\ LaneBecomes(L, W, s)
BY DEF SessionTypes, LaneBecomes, Ways

LEMMA CopyChanges ==
  ASSUME SessionTypes, NEW H \in Hops, NEW D \in Dirs,
         NEW c \in [pc : {"none", "read", "hold", "done"}, chunk : Nat],
         copy' = [copy EXCEPT ![H][D] = c]
  PROVE  copy' \in [Hops -> [Dirs -> [pc : {"none", "read", "hold", "done"}, chunk : Nat]]] /\ CopyBecomes(H, D, c)
BY DEF SessionTypes, CopyBecomes, Dirs

LEMMA ChunkRead ==
  ASSUME NEW s \in Seq(Nat), s # <<>>
  PROVE  Head(s) \in Nat /\ Tail(s) \in Seq(Nat) /\ Len(Tail(s)) = Len(s) - 1 /\ Len(s) \in Nat /\ Len(s) > 0
         /\ \A i \in 1..Len(Tail(s)) : Tail(s)[i] = s[i + 1]
BY HeadTailProperties, EmptySeq

LEMMA ChunkWritten ==
  ASSUME NEW s \in Seq(Nat), NEW c \in Nat
  PROVE  Append(s, c) \in Seq(Nat) /\ Len(Append(s, c)) = Len(s) + 1 /\ Append(s, c) # <<>>
         /\ Append(s, c)[Len(s) + 1] = c /\ \A i \in 1..Len(s) : Append(s, c)[i] = s[i]
BY AppendProperties

LEMMA Reading ==
  ASSUME SessionTypes, NEW h \in Hops, NEW d \in Dirs, CopyReads(h, d)
  PROVE  LET f == From(h, d) IN
         /\ f.leg \in Legs /\ f.way \in Ways
         /\ LaneBecomes(f.leg, f.way, Tail(data[f.leg][f.way]))
         /\ data[f.leg][f.way] \in Seq(Nat) /\ data[f.leg][f.way] # <<>>
         /\ CopyBecomes(h, d, [pc |-> "hold", chunk |-> Head(data[f.leg][f.way])])
         /\ SessionTypes'
<1>. DEFINE f == From(h, d)
<1>1. f.leg \in Legs /\ f.way \in Ways
  BY DEF From, Legs, Ways, Hops
<1>2. data[f.leg][f.way] \in Seq(Nat) /\ data[f.leg][f.way] # <<>>
  BY <1>1 DEF SessionTypes, CopyReads, Ways
<1>. HIDE DEF f
<1>3. Head(data[f.leg][f.way]) \in Nat /\ Tail(data[f.leg][f.way]) \in Seq(Nat)
  BY <1>2, ChunkRead
<1>4. data' = [data EXCEPT ![f.leg][f.way] = Tail(data[f.leg][f.way])]
  BY <1>1 DEF CopyReads, f, SessionTypes
<1>5. copy' = [copy EXCEPT ![h][d] = [pc |-> "hold", chunk |-> Head(data[f.leg][f.way])]]
  BY DEF CopyReads, f
<1>. QED
  <2>1. LaneBecomes(f.leg, f.way, Tail(data[f.leg][f.way])) /\ data' \in [Legs -> [up : Seq(Nat), down : Seq(Nat)]]
    BY <1>1, <1>3, <1>4, LaneChanges
  <2>2. CopyBecomes(h, d, [pc |-> "hold", chunk |-> Head(data[f.leg][f.way])])
        /\ copy' \in [Hops -> [Dirs -> [pc : {"none", "read", "hold", "done"}, chunk : Nat]]]
    BY <1>3, <1>5, CopyChanges
  <2>3. SessionTypes'
    BY <2>1, <2>2 DEF SessionTypes, CopyReads
  <2>. QED
    BY <1>1, <1>2, <2>1, <2>2, <2>3 DEF f

LEMMA Writing ==
  ASSUME SessionTypes, NEW h \in Hops, NEW d \in Dirs, CopyWrites(h, d)
  PROVE  LET t == To(h, d) IN
         /\ t.leg \in Legs /\ t.way \in Ways
         /\ data[t.leg][t.way] \in Seq(Nat) /\ copy[h][d].chunk \in Nat
         /\ LaneBecomes(t.leg, t.way, Append(data[t.leg][t.way], copy[h][d].chunk))
         /\ CopyBecomes(h, d, [pc |-> "read", chunk |-> 0])
         /\ SessionTypes'
<1>. DEFINE t == To(h, d)
<1>1. t.leg \in Legs /\ t.way \in Ways
  BY DEF To, Legs, Ways, Hops
<1>2. data[t.leg][t.way] \in Seq(Nat) /\ copy[h][d].chunk \in Nat
  BY <1>1 DEF SessionTypes, Ways
<1>3. data' = [data EXCEPT ![t.leg][t.way] = Append(data[t.leg][t.way], copy[h][d].chunk)]
  BY <1>1 DEF CopyWrites, SessionTypes
<1>. HIDE DEF t
<1>4. Append(data[t.leg][t.way], copy[h][d].chunk) \in Seq(Nat)
  BY <1>2, ChunkWritten
<1>. QED
  <2>1. LaneBecomes(t.leg, t.way, Append(data[t.leg][t.way], copy[h][d].chunk))
        /\ data' \in [Legs -> [up : Seq(Nat), down : Seq(Nat)]]
    BY <1>1, <1>3, <1>4, LaneChanges
  <2>2. CopyBecomes(h, d, [pc |-> "read", chunk |-> 0])
        /\ copy' \in [Hops -> [Dirs -> [pc : {"none", "read", "hold", "done"}, chunk : Nat]]]
    BY CopyChanges DEF CopyWrites
  <2>3. SessionTypes'
    BY <2>1, <2>2 DEF SessionTypes, CopyWrites
  <2>. QED
    BY <1>1, <1>2, <2>1, <2>2, <2>3 DEF t

LEMMA Ending ==
  ASSUME SessionTypes, NEW h \in Hops, NEW d \in Dirs, CopyEnds(h, d)
  PROVE  /\ CopyBecomes(h, d, [pc |-> "done", chunk |-> copy[h][d].chunk])
         /\ SessionTypes'
<1>1. copy[h][d] \in [pc : {"none", "read", "hold", "done"}, chunk : Nat]
  BY DEF SessionTypes
<1>2. [copy[h][d] EXCEPT !.pc = "done"] = [pc |-> "done", chunk |-> copy[h][d].chunk]
  BY <1>1
<1>3. copy' = [copy EXCEPT ![h][d] = [copy[h][d] EXCEPT !.pc = "done"]]
  BY Zenon DEF CopyEnds
<1>4. copy' = [copy EXCEPT ![h][d] = [pc |-> "done", chunk |-> copy[h][d].chunk]]
  BY <1>2, <1>3
<1>5. [pc |-> "done", chunk |-> copy[h][d].chunk] \in [pc : {"none", "read", "hold", "done"}, chunk : Nat]
  BY <1>1
<1>6. CopyBecomes(h, d, [pc |-> "done", chunk |-> copy[h][d].chunk])
      /\ copy' \in [Hops -> [Dirs -> [pc : {"none", "read", "hold", "done"}, chunk : Nat]]]
  BY <1>4, <1>5, CopyChanges
<1>. QED
  BY <1>6 DEF SessionTypes, CopyEnds

LEMMA Breaking ==
  ASSUME SessionTypes, NEW h \in Hops, NEW d \in Dirs, CopyBreaks(h, d)
  PROVE  /\ \/ CopyBecomes(h, d, [pc |-> "done", chunk |-> 0])
            \/ CopyBecomes(h, d, [pc |-> "read", chunk |-> 0])
         /\ SessionTypes'
<1>1. CASE copy' = [copy EXCEPT ![h][d] = [pc |-> "done", chunk |-> 0]]
  <2>1. CopyBecomes(h, d, [pc |-> "done", chunk |-> 0])
        /\ copy' \in [Hops -> [Dirs -> [pc : {"none", "read", "hold", "done"}, chunk : Nat]]]
    BY <1>1, CopyChanges
  <2>. QED
    BY <2>1 DEF SessionTypes, CopyBreaks
<1>2. CASE copy' = [copy EXCEPT ![h][d] = [pc |-> "read", chunk |-> 0]]
  <2>1. CopyBecomes(h, d, [pc |-> "read", chunk |-> 0])
        /\ copy' \in [Hops -> [Dirs -> [pc : {"none", "read", "hold", "done"}, chunk : Nat]]]
    BY <1>2, CopyChanges
  <2>. QED
    BY <2>1 DEF SessionTypes, CopyBreaks
<1>. QED
  BY <1>1, <1>2 DEF CopyBreaks

\* The ends of legs.
EndBecomes(L, e) == \A l \in Legs : end'[l] = IF l = L THEN e ELSE end[l]

LEMMA Opening ==
  ASSUME SessionTypes, NEW L \in Legs, end' = Opened(L)
  PROVE  /\ end' \in [Legs -> [near : EndState, far : EndState]]
         /\ EndBecomes(L, [near |-> "open", far |-> "open"])
BY DEF SessionTypes, Opened, EndBecomes, EndState

LEMMA Starting ==
  ASSUME SessionTypes, NEW h \in Hops, copy' = Start(h)
  PROVE  /\ copy' \in [Hops -> [Dirs -> [pc : {"none", "read", "hold", "done"}, chunk : Nat]]]
         /\ \A k \in Hops, d \in Dirs :
              copy'[k][d] = IF k # h THEN copy[k][d]
                            ELSE IF d # "rest" \/ (mode[1] = "tcp" /\ Role(h) = "out")
                                 THEN [pc |-> "read", chunk |-> 0] ELSE NoCopy
BY DEF SessionTypes, Start, NoCopy

LEMMA UserSending ==
  ASSUME SessionTypes, UserSends
  PROVE  /\ LaneBecomes(1, "up", Append(data[1].up, sent.user + 1))
         /\ sent'.user = sent.user + 1 /\ sent'.dest = sent.dest
         /\ SessionTypes'
<1>1. 1 \in Legs /\ "up" \in Ways /\ data[1].up \in Seq(Nat) /\ sent.user + 1 \in Nat
  BY DEF SessionTypes, Legs, Ways
<1>2. Append(data[1].up, sent.user + 1) \in Seq(Nat)
  BY <1>1, ChunkWritten
<1>3. data' = [data EXCEPT ![1]["up"] = Append(data[1].up, sent.user + 1)]
  BY <1>1 DEF UserSends, SessionTypes
<1>4. LaneBecomes(1, "up", Append(data[1].up, sent.user + 1)) /\ data' \in [Legs -> [up : Seq(Nat), down : Seq(Nat)]]
  BY <1>1, <1>2, <1>3, LaneChanges
<1>5. PICK n \in Nat, m \in Nat : n = sent.user /\ m = sent.dest
  BY DEF SessionTypes
<1>6. sent' = [user |-> n + 1, dest |-> m]
  BY <1>5 DEF SessionTypes, UserSends
<1>7. sent' \in [user : Nat, dest : Nat] /\ sent'.user = n + 1 /\ sent'.dest = m
  BY <1>5, <1>6
<1>8. SessionTypes'
  BY <1>4, <1>7 DEF SessionTypes, UserSends
<1>. QED
  BY <1>4, <1>5, <1>7, <1>8

LEMMA FinalIs == Final \in Legs /\ Final # 1
BY DEF Final, Legs

LEMMA DestSending ==
  ASSUME SessionTypes, DestSends
  PROVE  /\ LaneBecomes(Final, "down", Append(data[Final].down, sent.dest + 1))
         /\ sent'.dest = sent.dest + 1 /\ sent'.user = sent.user
         /\ SessionTypes'
<1>1. Final \in Legs /\ "down" \in Ways /\ data[Final].down \in Seq(Nat) /\ sent.dest + 1 \in Nat
  BY FinalIs DEF SessionTypes, Ways
<1>2. Append(data[Final].down, sent.dest + 1) \in Seq(Nat)
  BY <1>1, ChunkWritten
<1>3. data' = [data EXCEPT ![Final]["down"] = Append(data[Final].down, sent.dest + 1)]
  BY <1>1 DEF DestSends, SessionTypes
<1>4. LaneBecomes(Final, "down", Append(data[Final].down, sent.dest + 1))
      /\ data' \in [Legs -> [up : Seq(Nat), down : Seq(Nat)]]
  BY <1>1, <1>2, <1>3, LaneChanges
<1>5. PICK n \in Nat, m \in Nat : n = sent.user /\ m = sent.dest
  BY DEF SessionTypes
<1>6. sent' = [user |-> n, dest |-> m + 1]
  BY <1>5 DEF SessionTypes, DestSends
<1>7. sent' \in [user : Nat, dest : Nat] /\ sent'.user = n /\ sent'.dest = m + 1
  BY <1>5, <1>6
<1>8. SessionTypes'
  BY <1>4, <1>7 DEF SessionTypes, DestSends
<1>. QED
  BY <1>4, <1>5, <1>7, <1>8

LEMMA UserReading ==
  ASSUME SessionTypes, UserReads
  PROVE  /\ LaneBecomes(1, "down", Tail(data[1].down)) /\ data[1].down # <<>>
         /\ got'.user = Append(got.user, Head(data[1].down)) /\ got'.dest = got.dest
         /\ SessionTypes'
<1>1. 1 \in Legs /\ "down" \in Ways /\ data[1].down \in Seq(Nat) /\ data[1].down # <<>> /\ got.user \in Seq(Nat)
  BY DEF SessionTypes, Legs, Ways, UserReads
<1>2. Head(data[1].down) \in Nat /\ Tail(data[1].down) \in Seq(Nat)
  BY <1>1, ChunkRead
<1>3. Append(got.user, Head(data[1].down)) \in Seq(Nat)
  BY <1>1, <1>2, ChunkWritten
<1>4. data' = [data EXCEPT ![1]["down"] = Tail(data[1].down)]
  BY <1>1 DEF UserReads, SessionTypes
<1>5. LaneBecomes(1, "down", Tail(data[1].down)) /\ data' \in [Legs -> [up : Seq(Nat), down : Seq(Nat)]]
  BY <1>1, <1>2, <1>4, LaneChanges
<1>. QED
  BY <1>1, <1>3, <1>5 DEF SessionTypes, UserReads

LEMMA DestReading ==
  ASSUME SessionTypes, DestReads
  PROVE  /\ LaneBecomes(Final, "up", Tail(data[Final].up)) /\ data[Final].up # <<>>
         /\ got'.dest = Append(got.dest, Head(data[Final].up)) /\ got'.user = got.user
         /\ SessionTypes'
<1>1. Final \in Legs /\ "up" \in Ways /\ data[Final].up \in Seq(Nat) /\ data[Final].up # <<>> /\ got.dest \in Seq(Nat)
  BY FinalIs DEF SessionTypes, Ways, DestReads
<1>2. Head(data[Final].up) \in Nat /\ Tail(data[Final].up) \in Seq(Nat)
  BY <1>1, ChunkRead
<1>3. Append(got.dest, Head(data[Final].up)) \in Seq(Nat)
  BY <1>1, <1>2, ChunkWritten
<1>4. data' = [data EXCEPT ![Final]["up"] = Tail(data[Final].up)]
  BY <1>1 DEF DestReads, SessionTypes
<1>5. LaneBecomes(Final, "up", Tail(data[Final].up)) /\ data' \in [Legs -> [up : Seq(Nat), down : Seq(Nat)]]
  BY <1>1, <1>2, <1>4, LaneChanges
<1>. QED
  BY <1>1, <1>3, <1>5 DEF SessionTypes, DestReads

LEMMA DestDialled ==
  ASSUME SessionTypes, NEW h \in Hops, DialDest(h)
  PROVE  SessionTypes'
<1>1. h + 1 \in Legs
  BY DEF Hops, Legs
<1>. QED
  BY <1>1, Opening, Starting DEF SessionTypes, DialDest

LEMMA ChainDialled ==
  ASSUME SessionTypes, DialChain
  PROVE  SessionTypes' /\ LaneBecomes(2, "up", <<Header>>)
<1>1. 2 \in Legs /\ 1 \in Hops /\ "up" \in Ways /\ <<Header>> \in Seq(Nat)
  BY DEF Hops, Legs, Ways, Header
<1>2. LaneBecomes(2, "up", <<Header>>) /\ data' \in [Legs -> [up : Seq(Nat), down : Seq(Nat)]]
  <2>1. data' = [data EXCEPT ![2]["up"] = <<Header>>]
    BY DEF DialChain
  <2>. QED
    BY <1>1, <2>1, LaneChanges
<1>. QED
  BY <1>1, <1>2, Opening, Starting DEF SessionTypes, DialChain

LEMMA HeaderRead ==
  ASSUME SessionTypes, estabFromHeader
  PROVE  SessionTypes' /\ LaneBecomes(2, "up", Tail(data[2].up)) /\ data[2].up # <<>>
<1>1. 2 \in Legs /\ 3 \in Legs /\ 2 \in Hops /\ "up" \in Ways /\ data[2].up \in Seq(Nat) /\ data[2].up # <<>>
  BY DEF Hops, Legs, Ways, SessionTypes, estabFromHeader
<1>2. LaneBecomes(2, "up", Tail(data[2].up)) /\ data' \in [Legs -> [up : Seq(Nat), down : Seq(Nat)]]
  <2>1. data' = [data EXCEPT ![2]["up"] = Tail(data[2].up)]
    BY <1>1 DEF estabFromHeader, SessionTypes
  <2>2. Tail(data[2].up) \in Seq(Nat)
    BY <1>1, ChunkRead
  <2>. QED
    BY <1>1, <2>1, <2>2, LaneChanges
<1>. QED
  BY <1>1, <1>2, Opening, Starting DEF SessionTypes, estabFromHeader

\* One end of a leg is closed, or half closed; both ends a handler has of its connections.
NearBecomes(L, e) ==
  \A l \in Legs : end'[l].near = (IF l = L THEN e ELSE end[l].near) /\ end'[l].far = end[l].far

FarCloses(L) ==
  \A l \in Legs : end'[l].far = (IF l = L THEN "closed" ELSE end[l].far) /\ end'[l].near = end[l].near

BothClose(h) ==
  \A l \in Legs : /\ end'[l].far = (IF l = h THEN "closed" ELSE end[l].far)
                  /\ end'[l].near = (IF l = h + 1 THEN "closed" ELSE end[l].near)

LEMMA EndOfLeg ==
  ASSUME SessionTypes, NEW L \in Legs
  PROVE  /\ end' = [end EXCEPT ![L].far = "closed"] =>
              FarCloses(L) /\ end' \in [Legs -> [near : EndState, far : EndState]]
         /\ \A e \in EndState : end' = [end EXCEPT ![L].near = e] =>
              NearBecomes(L, e) /\ end' \in [Legs -> [near : EndState, far : EndState]]
<1>1. PICK x : x = end[L]
  OBVIOUS
<1>2. x \in [near : EndState, far : EndState] /\ "closed" \in EndState
  BY <1>1 DEF SessionTypes, EndState
<1>3. ASSUME end' = [end EXCEPT ![L].far = "closed"]
      PROVE  FarCloses(L) /\ end' \in [Legs -> [near : EndState, far : EndState]]
  <2>1. end' = [end EXCEPT ![L] = [x EXCEPT !.far = "closed"]]
    BY <1>1, <1>3
  <2>2. [x EXCEPT !.far = "closed"] = [near |-> x.near, far |-> "closed"]
    BY <1>2
  <2>. QED
    BY <1>1, <1>2, <2>1, <2>2 DEF SessionTypes, FarCloses
<1>4. ASSUME NEW e \in EndState, end' = [end EXCEPT ![L].near = e]
      PROVE  NearBecomes(L, e) /\ end' \in [Legs -> [near : EndState, far : EndState]]
  <2>1. end' = [end EXCEPT ![L] = [x EXCEPT !.near = e]]
    BY <1>1, <1>4
  <2>2. [x EXCEPT !.near = e] = [near |-> e, far |-> x.far]
    BY <1>2
  <2>. QED
    BY <1>1, <1>2, <2>1, <2>2 DEF SessionTypes, NearBecomes
<1>. QED
  BY <1>3, <1>4

LEMMA Releasing ==
  ASSUME SessionTypes, NEW h \in Hops, Release(h)
  PROVE  BothClose(h) /\ SessionTypes'
<1>1. h \in Legs /\ h + 1 \in Legs /\ h # h + 1
  BY DEF Hops, Legs
<1>2. PICK x, y : x = end[h] /\ y = end[h + 1]
  OBVIOUS
<1>3. x \in [near : EndState, far : EndState] /\ y \in [near : EndState, far : EndState] /\ "closed" \in EndState
  BY <1>1, <1>2 DEF SessionTypes, EndState
<1>4. end' = [end EXCEPT ![h] = [x EXCEPT !.far = "closed"], ![h + 1] = [y EXCEPT !.near = "closed"]]
  BY <1>1, <1>2 DEF Release, SessionTypes
<1>5. [x EXCEPT !.far = "closed"] = [near |-> x.near, far |-> "closed"]
      /\ [y EXCEPT !.near = "closed"] = [near |-> "closed", far |-> y.far]
  BY <1>3
<1>6. PICK v, w : v = [near |-> x.near, far |-> "closed"] /\ w = [near |-> "closed", far |-> y.far]
  OBVIOUS
<1>7. end' = [end EXCEPT ![h] = v, ![h + 1] = w]
  BY <1>4, <1>5, <1>6
<1>8. v \in [near : EndState, far : EndState] /\ w \in [near : EndState, far : EndState]
  BY <1>3, <1>6
<1>9. \A l \in Legs : end'[l] = IF l = h + 1 THEN w ELSE IF l = h THEN v ELSE end[l]
  BY <1>1, <1>7 DEF SessionTypes
<1>10. end' \in [Legs -> [near : EndState, far : EndState]]
  BY <1>1, <1>7, <1>8 DEF SessionTypes
<1>11. BothClose(h)
  BY <1>1, <1>2, <1>6, <1>9 DEF BothClose
<1>. QED
  BY <1>10, <1>11 DEF SessionTypes, Release

LEMMA GivingUp ==
  ASSUME SessionTypes, NEW h \in Hops, GivesUp(h)
  PROVE  /\ \/ FarCloses(h) /\ mode[1] = "tls" /\ handler'[h] = "closed"
            \/ UNCHANGED end /\ mode[1] # "tls" /\ handler'[h] = "left"
         /\ SessionTypes'
<1>1. h \in Legs
  BY DEF Hops, Legs
<1>2. CASE mode[1] = "tls"
  <2>1. end' = [end EXCEPT ![h].far = "closed"]
    BY <1>2 DEF GivesUp
  <2>. QED
    BY <1>1, <1>2, <2>1, EndOfLeg DEF GivesUp, SessionTypes
<1>3. CASE mode[1] # "tls"
  BY <1>1, <1>3, EndOfLeg DEF GivesUp, SessionTypes
<1>. QED
  BY <1>2, <1>3

LEMMA Collecting ==
  ASSUME SessionTypes, NEW h \in Hops, Collected(h)
  PROVE  FarCloses(h) /\ SessionTypes'
<1>1. h \in Legs
  BY DEF Hops, Legs
<1>. QED
  BY <1>1, EndOfLeg DEF Collected, SessionTypes

LEMMA UserEnding ==
  ASSUME SessionTypes, UserEnds
  PROVE  (NearBecomes(1, "half") \/ NearBecomes(1, "closed")) /\ SessionTypes'
<1>1. 1 \in Legs /\ "half" \in EndState /\ "closed" \in EndState
  BY DEF Legs, EndState
<1>2. end' = [end EXCEPT ![1].near = "half"] \/ end' = [end EXCEPT ![1].near = "closed"]
  BY DEF UserEnds
<1>. QED
  BY <1>1, <1>2, EndOfLeg DEF UserEnds, SessionTypes

LEMMA DestEnding ==
  ASSUME SessionTypes, DestEnds
  PROVE  FarCloses(Final) /\ SessionTypes'
BY FinalIs, EndOfLeg DEF DestEnds, SessionTypes

LEMMA TypesKept ==
  ASSUME SessionTypes, [Next]_vars
  PROVE  SessionTypes'
<1>1. CASE Ends
  BY <1>1, UserSending, DestSending, UserReading, DestReading, UserEnding, DestEnding DEF Ends
<1>2. CASE Dials
  BY <1>2, DestDialled, ChainDialled, HeaderRead, GivingUp DEF Dials
<1>3. CASE TimesOut
  BY <1>3 DEF TimesOut, SessionTypes
<1>4. ASSUME NEW h \in Hops, Collected(h) \/ Release(h)
      PROVE  SessionTypes'
  BY <1>4, Collecting, Releasing
<1>5. ASSUME NEW h \in Hops, NEW d \in Dirs, copyConn(h, d)
      PROVE  SessionTypes'
  BY <1>5, Reading, Writing, Ending, Breaking DEF copyConn
<1>6. CASE UNCHANGED vars
  BY <1>6 DEF SessionTypes, vars
<1>. QED
  BY <1>1, <1>2, <1>3, <1>4, <1>5, <1>6 DEF Next

-----------------------------------------------------------------------------
(* What a hop has when. *)

Chained == mode[2] = "chain"

\* Only the user closes one direction of a connection.
HalfIsUsers == \A l \in Legs : end[l].far # "half" /\ (end[l].near = "half" => l = 1)

\* The outbound hop comes after the inbound one has dialled it.
HopsInTurn ==
  /\ handler[1] # "none"
  /\ handler[1] \in {"dial", "left"} => handler[2] = "none"
  /\ handler[2] # "none" => Chained

\* A hop that has dialled nobody has no connection ahead and no copies.
Unopened(h) == handler[h] \in {"none", "dial", "left"}

NothingAhead(h) ==
  /\ end[h + 1].near = "none" /\ end[h + 1].far = "none"
  /\ data[h + 1].up = <<>> /\ data[h + 1].down = <<>>
  /\ \A d \in Dirs : copy[h][d].pc = "none"

\* A handler at work has its own ends of its connections open.
HandlersHold ==
  \A h \in Hops : /\ handler[h] = "wait" => end[h].far = "open" /\ end[h + 1].near = "open"
                  /\ handler[h] \in {"dial", "left"} => end[h].far = "open"

\* The second reader of the user's stream.
RestIsTCP ==
  /\ copy[1]["rest"].pc = "none"
  /\ copy[2]["rest"].pc # "none" => TwoReaders /\ copy[2]["up"].pc # "none"
  /\ handler[2] = "wait" => copy[2]["up"].pc # "none"

\* The header is on its way to the outbound hop, or was never read.
Ahead == handler[2] # "none" /\ copy[2]["up"].pc = "none"

Shape ==
  /\ SessionTypes
  /\ HalfIsUsers
  /\ HopsInTurn
  /\ \A h \in Hops : Unopened(h) => NothingAhead(h)
  /\ HandlersHold
  /\ RestIsTCP
  /\ Ahead => data[2].up # <<>>

LEMMA InitShape == Init => Shape
<1>. SUFFICES ASSUME Init PROVE Shape
  OBVIOUS
<1>1. SessionTypes
  <2>1. <<>> \in Seq(Nat)
    OBVIOUS
  <2>. QED
    BY <2>1 DEF Init, SessionTypes, EndState, NoCopy
<1>2. 1 \in Hops /\ 2 \in Hops /\ (\A h \in Hops : h = 1 \/ h = 2) /\ \A h \in Hops : h + 1 \in Legs /\ h + 1 # 1
  BY DEF Hops, Legs
<1>3. handler[1] = "dial" /\ handler[2] = "none"
  BY <1>2 DEF Init
<1>4. \A h \in Hops, d \in Dirs : copy[h][d].pc = "none"
  BY DEF Init, NoCopy
<1>5. \A h \in Hops : Unopened(h) => NothingAhead(h)
  BY <1>2, <1>4 DEF Init, NothingAhead
<1>6. HalfIsUsers
  BY DEF Init, HalfIsUsers
<1>7. HandlersHold
  BY <1>2, <1>3 DEF Init, HandlersHold, Legs
<1>8. HopsInTurn /\ RestIsTCP /\ ~Ahead
  BY <1>2, <1>3, <1>4 DEF HopsInTurn, RestIsTCP, Ahead, Dirs
<1>. QED
  BY <1>1, <1>5, <1>6, <1>7, <1>8 DEF Shape

LEMMA Numbers ==
  /\ \A h \in Hops : (h = 1 \/ h = 2) /\ h \in Legs /\ h + 1 \in Legs
  /\ 1 \in Hops /\ 2 \in Hops
  /\ \A l \in Legs : l = 1 \/ l = 2 \/ l = 3
  /\ 1 \in Legs /\ 2 \in Legs /\ 3 \in Legs
BY DEF Hops, Legs

\* Steps of the user, the destination and the copies: no handler moves.
LEMMA ReadShape ==
  ASSUME Shape, NEW h \in Hops, NEW d \in Dirs, CopyReads(h, d)
  PROVE  Shape'
<1>1. SessionTypes' /\ UNCHANGED <<mode, end, handler>>
  BY Reading DEF Shape, CopyReads
<1>2. ~Unopened(h) /\ copy[h][d].pc = "read"
  BY DEF Shape, NothingAhead, CopyReads
<1>. DEFINE f == From(h, d)
<1>3. /\ LaneBecomes(f.leg, f.way, Tail(data[f.leg][f.way])) /\ data[f.leg][f.way] # <<>>
      /\ CopyBecomes(h, d, [pc |-> "hold", chunk |-> Head(data[f.leg][f.way])])
  BY Reading DEF Shape
<1>4. f.leg \in Legs /\ f.way \in Ways /\ (f.leg = 2 /\ f.way = "up" => h = 2 /\ d # "down")
  BY DEF From, Legs, Ways, Hops
<1>. HIDE DEF f
<1>5. \A k \in Hops : Unopened(k)' => NothingAhead(k)'
  <2>. SUFFICES ASSUME NEW k \in Hops, Unopened(k) PROVE NothingAhead(k)'
    BY <1>1 DEF Unopened
  <2>1. NothingAhead(k) /\ k # h /\ f.leg # k + 1
    BY <1>2, <1>3, <1>4 DEF Shape, NothingAhead, Ways
  <2>2. k + 1 \in Legs
    BY Numbers
  <2>. QED
    BY <1>1, <1>3, <2>1, <2>2 DEF NothingAhead, LaneBecomes, CopyBecomes, Ways
<1>6. RestIsTCP'
  BY <1>1, <1>2, <1>3, Numbers DEF Shape, RestIsTCP, CopyBecomes, Dirs, TwoReaders
<1>7. Ahead' => data'[2].up # <<>>
  BY <1>1, <1>2, <1>3, <1>4, Numbers DEF Shape, RestIsTCP, CopyBecomes, LaneBecomes, Ahead, Dirs, Ways
<1>. QED
  BY <1>1, <1>5, <1>6, <1>7 DEF Shape, HalfIsUsers, HopsInTurn, HandlersHold, Chained

LEMMA WriteShape ==
  ASSUME Shape, NEW h \in Hops, NEW d \in Dirs, CopyWrites(h, d)
  PROVE  Shape'
<1>1. SessionTypes' /\ UNCHANGED <<mode, end, handler>>
  BY Writing DEF Shape, CopyWrites
<1>2. ~Unopened(h) /\ copy[h][d].pc = "hold"
  BY DEF Shape, NothingAhead, CopyWrites
<1>. DEFINE t == To(h, d)
<1>3. /\ LaneBecomes(t.leg, t.way, Append(data[t.leg][t.way], copy[h][d].chunk))
      /\ data[t.leg][t.way] \in Seq(Nat) /\ copy[h][d].chunk \in Nat
      /\ CopyBecomes(h, d, [pc |-> "read", chunk |-> 0])
  BY Writing DEF Shape
<1>4. t.leg \in Legs /\ t.way \in Ways /\ (t.leg = h + 1 \/ t.leg = h)
  BY DEF To, Legs, Ways, Hops
<1>. HIDE DEF t
<1>5. \A k \in Hops : Unopened(k)' => NothingAhead(k)'
  <2>. SUFFICES ASSUME NEW k \in Hops, Unopened(k) PROVE NothingAhead(k)'
    BY <1>1 DEF Unopened
  <2>1. NothingAhead(k) /\ k # h /\ t.leg # k + 1
    BY <1>2, <1>4, Numbers DEF Shape, HopsInTurn, Unopened
  <2>2. k + 1 \in Legs
    BY Numbers
  <2>. QED
    BY <1>1, <1>3, <2>1, <2>2 DEF NothingAhead, LaneBecomes, CopyBecomes, Ways
<1>6. RestIsTCP'
  BY <1>1, <1>2, <1>3, Numbers DEF Shape, RestIsTCP, CopyBecomes, Dirs, TwoReaders
<1>7. Ahead' => data'[2].up # <<>>
  <2>1. Append(data[t.leg][t.way], copy[h][d].chunk) # <<>>
    BY <1>3, ChunkWritten
  <2>2. data'[2].up = IF 2 = t.leg /\ "up" = t.way THEN Append(data[t.leg][t.way], copy[h][d].chunk) ELSE data[2].up
    BY <1>3, Numbers DEF LaneBecomes, Ways
  <2>3. Ahead' => Ahead
    BY <1>1, <1>2, <1>3, Numbers DEF CopyBecomes, Ahead, Dirs
  <2>. QED
    BY <2>1, <2>2, <2>3 DEF Shape
<1>. QED
  BY <1>1, <1>5, <1>6, <1>7 DEF Shape, HalfIsUsers, HopsInTurn, HandlersHold, Chained

LEMMA CopyStopsShape ==
  ASSUME Shape, NEW h \in Hops, NEW d \in Dirs, CopyEnds(h, d) \/ CopyBreaks(h, d)
  PROVE  Shape'
<1>1. SessionTypes' /\ UNCHANGED <<mode, end, handler, data>>
  BY Ending, Breaking DEF Shape, CopyEnds, CopyBreaks
<1>2. ~Unopened(h) /\ copy[h][d].pc # "none"
  BY DEF Shape, NothingAhead, CopyEnds, CopyBreaks
<1>3. PICK c : CopyBecomes(h, d, c) /\ c.pc # "none"
  <2>1. /\ [pc |-> "done", chunk |-> copy[h][d].chunk].pc # "none"
        /\ [pc |-> "done", chunk |-> 0].pc # "none" /\ [pc |-> "read", chunk |-> 0].pc # "none"
    OBVIOUS
  <2>2. \/ CopyBecomes(h, d, [pc |-> "done", chunk |-> copy[h][d].chunk])
        \/ CopyBecomes(h, d, [pc |-> "done", chunk |-> 0])
        \/ CopyBecomes(h, d, [pc |-> "read", chunk |-> 0])
    BY Ending, Breaking DEF Shape
  <2>. QED
    BY <2>1, <2>2
<1>4. \A k \in Hops : Unopened(k)' => NothingAhead(k)'
  <2>. SUFFICES ASSUME NEW k \in Hops, Unopened(k) PROVE NothingAhead(k)'
    BY <1>1 DEF Unopened
  <2>. QED
    BY <1>1, <1>2, <1>3 DEF Shape, NothingAhead, CopyBecomes
<1>5. RestIsTCP'
  BY <1>1, <1>2, <1>3, Numbers DEF Shape, RestIsTCP, CopyBecomes, Dirs, TwoReaders
<1>6. Ahead' => data'[2].up # <<>>
  BY <1>1, <1>2, <1>3, Numbers DEF Shape, RestIsTCP, CopyBecomes, Ahead, Dirs
<1>. QED
  BY <1>1, <1>4, <1>5, <1>6 DEF Shape, HalfIsUsers, HopsInTurn, HandlersHold, Chained

LEMMA TalkShape ==
  ASSUME Shape, UserSends \/ UserReads \/ DestSends \/ DestReads
  PROVE  Shape'
<1>1. UNCHANGED <<mode, end, handler, copy>>
  BY DEF UserSends, UserReads, DestSends, DestReads
<1>2. PICK L, W, s :
        /\ L \in Legs /\ W \in Ways
        /\ SessionTypes' /\ LaneBecomes(L, W, s)
        /\ end[L].far = "open" \/ L = 1 \/ data[L][W] # <<>>
        /\ L = 2 /\ W = "up" => ~Chained
  <2>1. CASE UserSends
    BY <2>1, UserSending, Numbers DEF Shape, Ways
  <2>2. CASE UserReads
    BY <2>2, UserReading, Numbers DEF Shape, Ways
  <2>3. CASE DestSends
    BY <2>3, DestSending, FinalIs DEF Shape, Ways, DestSends
  <2>4. CASE DestReads
    BY <2>4, DestReading, FinalIs DEF Shape, Ways, DestReads, Final, Chained
  <2>. QED
    BY <2>1, <2>2, <2>3, <2>4
<1>3. \A k \in Hops : Unopened(k)' => NothingAhead(k)'
  <2>. SUFFICES ASSUME NEW k \in Hops, Unopened(k) PROVE NothingAhead(k)'
    BY <1>1 DEF Unopened
  <2>1. NothingAhead(k) /\ k + 1 \in Legs /\ k + 1 # 1
    BY Numbers DEF Shape
  <2>2. L # k + 1
    BY <1>2, <2>1 DEF NothingAhead, Ways
  <2>. QED
    BY <1>1, <1>2, <2>1, <2>2 DEF NothingAhead, LaneBecomes, Ways
<1>4. Ahead' => data'[2].up # <<>>
  BY <1>1, <1>2, Numbers DEF Shape, HopsInTurn, Ahead, LaneBecomes, Ways
<1>. QED
  BY <1>1, <1>2, <1>3, <1>4 DEF Shape, HalfIsUsers, HopsInTurn, HandlersHold, RestIsTCP, TwoReaders, Chained

LEMMA HangUpShape ==
  ASSUME Shape, UserEnds \/ DestEnds \/ TimesOut
  PROVE  Shape'
<1>1. CASE UserEnds
  <2>1. UNCHANGED <<mode, data, handler, copy>> /\ SessionTypes'
    BY <1>1, UserEnding DEF UserEnds, Shape
  <2>2. \A l \in Legs : end'[l].far = end[l].far /\ (l # 1 => end'[l].near = end[l].near)
    BY <1>1, UserEnding DEF Shape, NearBecomes
  <2>3. \A k \in Hops : k + 1 \in Legs /\ k + 1 # 1 /\ k \in Legs
    BY Numbers
  <2>. QED
    BY <2>1, <2>2, <2>3, Numbers DEF Shape, HalfIsUsers, HopsInTurn, HandlersHold, RestIsTCP, TwoReaders, Chained,
                                     Ahead, Unopened, NothingAhead
<1>2. CASE DestEnds
  <2>1. UNCHANGED <<mode, data, handler, copy>> /\ SessionTypes' /\ FarCloses(Final) /\ end[Final].far = "open"
    BY <1>2, DestEnding DEF DestEnds, Shape
  <2>2. \A k \in Hops : Unopened(k) => k + 1 # Final
    BY <2>1 DEF Shape, NothingAhead
  <2>3. \A k \in Hops : handler[k] \in {"dial", "wait", "left"} => k # Final
    BY Numbers DEF Shape, HopsInTurn, Final, Chained
  <2>4. HandlersHold'
    BY <2>1, <2>3, Numbers DEF Shape, HandlersHold, FarCloses
  <2>5. \A k \in Hops : Unopened(k)' => NothingAhead(k)'
    BY <2>1, <2>2, Numbers DEF Shape, NothingAhead, FarCloses, Unopened
  <2>6. HalfIsUsers'
    BY <2>1 DEF Shape, HalfIsUsers, FarCloses
  <2>. QED
    BY <2>1, <2>4, <2>5, <2>6 DEF Shape, HopsInTurn, RestIsTCP, TwoReaders, Chained, Ahead
<1>3. CASE TimesOut
  BY <1>3 DEF TimesOut, Shape, SessionTypes, HalfIsUsers, HopsInTurn, HandlersHold, RestIsTCP, TwoReaders, Chained,
              Ahead, Unopened, NothingAhead
<1>. QED
  BY <1>1, <1>2, <1>3

LEMMA LeaveShape ==
  ASSUME Shape, NEW h \in Hops, GivesUp(h) \/ Collected(h) \/ Release(h)
  PROVE  Shape'
<1>1. SessionTypes' /\ UNCHANGED <<mode, data, copy>>
  BY GivingUp, Collecting, Releasing DEF Shape, GivesUp, Collected, Release
<1>2. /\ handler[h] \in {"dial", "left", "wait"} /\ handler'[h] \in {"left", "closed"}
      /\ \A k \in Hops : k # h => handler'[k] = handler[k]
      /\ handler'[h] = "left" => handler[h] = "dial" /\ UNCHANGED end
  BY DEF GivesUp, Collected, Release, Shape, SessionTypes
<1>3. /\ \A l \in Legs : /\ end'[l].far = end[l].far \/ (l = h /\ end'[l].far = "closed")
                         /\ end'[l].near = end[l].near \/ (l = h + 1 /\ end'[l].near = "closed" /\ handler[h] = "wait")
  BY GivingUp, Collecting, Releasing DEF Shape, FarCloses, BothClose, Release
<1>4. \A k \in Hops : Unopened(k)' => Unopened(k) /\ NothingAhead(k)
  BY <1>2 DEF Shape, Unopened
<1>5. \A k \in Hops : Unopened(k)' => NothingAhead(k)'
  <2>. SUFFICES ASSUME NEW k \in Hops, Unopened(k)' PROVE NothingAhead(k)'
    OBVIOUS
  <2>1. Unopened(k) /\ NothingAhead(k)
    BY <1>4
  <2>2. ~(h = 2 /\ k = 1)
    BY <1>2, <2>1 DEF Shape, HopsInTurn, Unopened
  <2>3. handler[h] = "wait" => h # k
    BY <2>1 DEF Unopened
  <2>4. k + 1 # h /\ k + 1 \in Legs /\ (handler[h] = "wait" => k + 1 # h + 1)
    BY <2>2, <2>3, Numbers
  <2>5. end'[k + 1].near = "none" /\ end'[k + 1].far = "none"
    BY <1>3, <2>1, <2>4 DEF NothingAhead
  <2>. QED
    BY <1>1, <2>1, <2>5 DEF NothingAhead
<1>6. HandlersHold'
  <2>. SUFFICES ASSUME NEW k \in Hops
                PROVE  /\ handler'[k] = "wait" => end'[k].far = "open" /\ end'[k + 1].near = "open"
                       /\ handler'[k] \in {"dial", "left"} => end'[k].far = "open"
    BY DEF HandlersHold
  <2>1. CASE k = h
    BY <1>2, <2>1, Numbers DEF Shape, HandlersHold
  <2>2. CASE k # h
    <3>1. handler'[k] = handler[k] /\ k \in Legs /\ k + 1 \in Legs /\ k + 1 # h + 1
      BY <1>2, <2>2, Numbers
    <3>2. end'[k].far = end[k].far /\ end'[k + 1].near = end[k + 1].near
      BY <1>3, <2>2, <3>1
    <3>. QED
      BY <3>1, <3>2 DEF Shape, HandlersHold
  <2>. QED
    BY <2>1, <2>2
<1>7. HalfIsUsers'
  BY <1>3 DEF Shape, HalfIsUsers
<1>8. HopsInTurn'
  BY <1>1, <1>2, Numbers DEF Shape, HopsInTurn, Chained
<1>9. RestIsTCP' /\ (Ahead' => Ahead)
  BY <1>1, <1>2, Numbers DEF Shape, RestIsTCP, Ahead, TwoReaders
<1>. QED
  BY <1>1, <1>5, <1>6, <1>7, <1>8, <1>9 DEF Shape

\* A hop dials: its next leg is opened and its copies start.
Dialling(h) ==
  /\ EndBecomes(h + 1, [near |-> "open", far |-> "open"])
  /\ \A k \in Hops, d \in Dirs :
       copy'[k][d].pc = IF k # h THEN copy[k][d].pc
                        ELSE IF d # "rest" \/ (TwoReaders /\ h = 2) THEN "read" ELSE "none"
  /\ \A k \in Hops, d \in Dirs : k # h => copy'[k][d] = copy[k][d]

LEMMA DialIs ==
  ASSUME Shape, NEW h \in Hops, end' = Opened(h + 1), copy' = Start(h)
  PROVE  Dialling(h)
<1>1. h + 1 \in Legs /\ (h = 1 \/ h = 2)
  BY Numbers
<1>2. EndBecomes(h + 1, [near |-> "open", far |-> "open"])
  BY <1>1, Opening DEF Shape
<1>3. mode[1] = "tcp" /\ Role(h) = "out" <=> TwoReaders /\ h = 2
  BY <1>1, ModeIs DEF Shape, SessionTypes, Role, TwoReaders
<1>4. [pc |-> "read", chunk |-> 0].pc = "read" /\ NoCopy.pc = "none"
  BY DEF NoCopy
<1>5. ASSUME NEW k \in Hops, NEW d \in Dirs
      PROVE  copy'[k][d].pc = IF k # h THEN copy[k][d].pc
                              ELSE IF d # "rest" \/ (TwoReaders /\ h = 2) THEN "read" ELSE "none"
  BY <1>3, <1>4, Starting DEF Shape
<1>6. \A k \in Hops, d \in Dirs : k # h => copy'[k][d] = copy[k][d]
  BY Starting DEF Shape
<1>. QED
  BY <1>2, <1>5, <1>6 DEF Dialling

LEMMA DirectDial ==
  ASSUME Shape, NEW h \in Hops, DialDest(h)
  PROVE  /\ h = 1 /\ ~Chained /\ Dialling(1) /\ SessionTypes'
         /\ handler[1] = "dial" /\ handler'[1] = "wait" /\ handler[2] = "none" /\ handler'[2] = "none"
<1>1. ~Chained
  BY ModeIs DEF Shape, SessionTypes, DialDest, Role, Chained
<1>2. h = 1
  BY <1>1, Numbers DEF Shape, HopsInTurn, DialDest
<1>3. Dialling(1) /\ SessionTypes'
  BY <1>2, DialIs, DestDialled DEF DialDest, Shape
<1>. QED
  BY <1>1, <1>2, <1>3, Numbers DEF DialDest, Shape, HopsInTurn, SessionTypes

LEMMA ChainDial ==
  ASSUME Shape, DialChain
  PROVE  /\ Chained /\ Dialling(1) /\ SessionTypes'
         /\ LaneBecomes(2, "up", <<Header>>)
         /\ handler[1] = "dial" /\ handler'[1] = "wait" /\ handler[2] = "none" /\ handler'[2] = "dial"
<1>1. Chained
  BY ModeIs DEF Shape, SessionTypes, DialChain, Role, Chained
<1>2. Dialling(1) /\ SessionTypes' /\ LaneBecomes(2, "up", <<Header>>)
  BY DialIs, ChainDialled, Numbers DEF DialChain, Shape
<1>. QED
  BY <1>1, <1>2, Numbers DEF DialChain, Shape, HopsInTurn, SessionTypes

LEMMA HeaderDial ==
  ASSUME Shape, estabFromHeader
  PROVE  /\ Chained /\ Dialling(2) /\ SessionTypes'
         /\ LaneBecomes(2, "up", Tail(data[2].up)) /\ data[2].up # <<>>
         /\ handler[2] = "dial" /\ handler'[2] = "wait" /\ handler'[1] = handler[1]
         /\ handler[1] \notin {"none", "dial", "left"}
<1>1. Dialling(2) /\ SessionTypes' /\ LaneBecomes(2, "up", Tail(data[2].up)) /\ data[2].up # <<>>
  <2>1. end' = Opened(2 + 1) /\ copy' = Start(2)
    BY DEF estabFromHeader
  <2>. QED
    BY <2>1, DialIs, HeaderRead, Numbers DEF Shape
<1>2. handler[2] = "dial" /\ handler'[2] = "wait" /\ handler'[1] = handler[1]
  BY Numbers DEF estabFromHeader, Shape, SessionTypes
<1>3. Chained /\ handler[1] \notin {"none", "dial", "left"}
  BY <1>2 DEF Shape, HopsInTurn
<1>. QED
  BY <1>1, <1>2, <1>3

LEMMA DialShape ==
  ASSUME Shape, DialChain \/ estabFromHeader \/ \E h \in Hops : DialDest(h)
  PROVE  Shape'
<1>1. UNCHANGED mode
  BY DEF DialChain, estabFromHeader, DialDest
<1>2. "up" \in Dirs /\ "down" \in Dirs /\ "rest" \in Dirs /\ "up" \in Ways /\ "down" \in Ways
  BY DEF Dirs, Ways
<1>. USE Numbers, <1>1, <1>2
<1>3. CASE \E h \in Hops : DialDest(h)
  <2>1. /\ ~Chained /\ Dialling(1) /\ SessionTypes' /\ UNCHANGED data
        /\ handler[1] = "dial" /\ handler'[1] = "wait" /\ handler[2] = "none" /\ handler'[2] = "none"
    BY <1>3, DirectDial DEF DialDest
  <2>2. \A l \in Legs : end'[l] = IF l = 2 THEN [near |-> "open", far |-> "open"] ELSE end[l]
    BY <2>1 DEF Dialling, EndBecomes
  <2>3. \A k \in Hops : Unopened(k)' => NothingAhead(k)'
    BY <2>1, <2>2 DEF Shape, Unopened, NothingAhead, Dialling
  <2>4. HalfIsUsers' /\ HandlersHold'
    BY <2>1, <2>2 DEF Shape, HalfIsUsers, HandlersHold
  <2>5. RestIsTCP' /\ ~Ahead'
    BY <2>1 DEF Shape, RestIsTCP, Ahead, Dialling, TwoReaders
  <2>. QED
    BY <2>1, <2>3, <2>4, <2>5 DEF Shape, HopsInTurn, Chained
<1>4. CASE DialChain
  <2>1. /\ Chained /\ Dialling(1) /\ SessionTypes' /\ LaneBecomes(2, "up", <<Header>>)
        /\ handler[1] = "dial" /\ handler'[1] = "wait" /\ handler[2] = "none" /\ handler'[2] = "dial"
    BY <1>4, ChainDial
  <2>2. \A l \in Legs : end'[l] = IF l = 2 THEN [near |-> "open", far |-> "open"] ELSE end[l]
    BY <2>1 DEF Dialling, EndBecomes
  <2>3. NothingAhead(2) /\ NothingAhead(2)'
    BY <2>1, <2>2 DEF Shape, Unopened, NothingAhead, Dialling, LaneBecomes
  <2>4. HalfIsUsers' /\ HandlersHold'
    BY <2>1, <2>2 DEF Shape, HalfIsUsers, HandlersHold
  <2>5. RestIsTCP'
    BY <2>1, <2>3 DEF Shape, RestIsTCP, Dialling, TwoReaders, NothingAhead
  <2>6. <<Header>> # <<>> /\ data'[2].up = <<Header>>
    BY <2>1 DEF LaneBecomes
  <2>. QED
    BY <2>1, <2>3, <2>4, <2>5, <2>6 DEF Shape, HopsInTurn, Chained, Unopened
<1>5. CASE estabFromHeader
  <2>1. /\ Chained /\ Dialling(2) /\ SessionTypes' /\ LaneBecomes(2, "up", Tail(data[2].up))
        /\ handler[2] = "dial" /\ handler'[2] = "wait" /\ handler'[1] = handler[1]
        /\ handler[1] \notin {"none", "dial", "left"}
    BY <1>5, HeaderDial
  <2>2. \A l \in Legs : end'[l] = IF l = 3 THEN [near |-> "open", far |-> "open"] ELSE end[l]
    BY <2>1 DEF Dialling, EndBecomes
  <2>3. \A k \in Hops : ~Unopened(k)'
    BY <2>1 DEF Unopened
  <2>4. HalfIsUsers' /\ HandlersHold'
    BY <2>1, <2>2 DEF Shape, HalfIsUsers, HandlersHold
  <2>5. RestIsTCP' /\ ~Ahead'
    BY <2>1 DEF Shape, RestIsTCP, Ahead, Dialling, TwoReaders
  <2>. QED
    BY <2>1, <2>3, <2>4, <2>5 DEF Shape, HopsInTurn, Chained
<1>. QED
  BY <1>3, <1>4, <1>5

LEMMA ShapeKept ==
  ASSUME Shape, [Next]_vars
  PROVE  Shape'
<1>1. CASE Ends
  BY <1>1, TalkShape, HangUpShape DEF Ends
<1>2. CASE Dials
  BY <1>2, DialShape, LeaveShape DEF Dials
<1>3. CASE TimesOut
  BY <1>3, HangUpShape
<1>4. ASSUME NEW h \in Hops, Collected(h) \/ Release(h)
      PROVE  Shape'
  BY <1>4, LeaveShape
<1>5. ASSUME NEW h \in Hops, NEW d \in Dirs, copyConn(h, d)
      PROVE  Shape'
  BY <1>5, ReadShape, WriteShape, CopyStopsShape DEF copyConn
<1>6. CASE UNCHANGED vars
  BY <1>6 DEF Shape, SessionTypes, HalfIsUsers, HopsInTurn, HandlersHold, RestIsTCP, TwoReaders, Chained,
              Ahead, Unopened, NothingAhead, vars
<1>. QED
  BY <1>1, <1>2, <1>3, <1>4, <1>5, <1>6 DEF Next

-----------------------------------------------------------------------------
(* Where the chunks are. *)

InLane(l, w) == Len(data[l][w])

Held(h, d) == IF copy[h][d].pc = "hold" THEN 1 ELSE 0

\* The header is no chunk.
Leading == IF Ahead THEN 1 ELSE 0

\* Chunks counted and not yet counted, of those on their way to the destination and to the user.
UpPast ==
  Len(got.dest) + InLane(3, "up") + Held(2, "up") + Held(2, "rest") + (InLane(2, "up") - Leading) + Held(1, "up")

UpBefore == InLane(1, "up")

DownPast == Len(got.user) + InLane(1, "down") + Held(1, "down")

DownBefore == InLane(2, "down") + Held(2, "down") + InLane(3, "down")

Flow ==
  /\ UpPast + DownPast <= counted
  /\ counted + UpBefore + DownBefore <= sent.user + sent.dest
  /\ ~broken => UpPast + UpBefore = sent.user /\ DownPast + DownBefore = sent.dest

LEMMA CountTypes ==
  ASSUME Shape
  PROVE  /\ \A l \in Legs, w \in Ways : InLane(l, w) \in Nat /\ (data[l][w] # <<>> => InLane(l, w) > 0)
                                        /\ (data[l][w] = <<>> => InLane(l, w) = 0)
         /\ \A h \in Hops, d \in Dirs : Held(h, d) \in {0, 1} /\ (Held(h, d) = 1 <=> copy[h][d].pc = "hold")
         /\ Leading \in {0, 1} /\ Leading <= InLane(2, "up")
         /\ Len(got.dest) \in Nat /\ Len(got.user) \in Nat /\ counted \in Nat
         /\ sent.user \in Nat /\ sent.dest \in Nat
<1>1. \A l \in Legs, w \in Ways : data[l][w] \in Seq(Nat)
  BY DEF Shape, SessionTypes, Ways
<1>2. \A l \in Legs, w \in Ways : InLane(l, w) \in Nat /\ (data[l][w] # <<>> => InLane(l, w) > 0)
                                  /\ (data[l][w] = <<>> => InLane(l, w) = 0)
  BY <1>1, ChunkRead, EmptySeq DEF InLane
<1>3. Leading \in {0, 1} /\ Leading <= InLane(2, "up")
  BY <1>2, Numbers DEF Shape, Leading, Ways
<1>4. Len(got.dest) \in Nat /\ Len(got.user) \in Nat
  BY DEF Shape, SessionTypes
<1>. QED
  BY <1>2, <1>3, <1>4 DEF Shape, SessionTypes, Held

\* The numbers of a state, by name: lanes, what the copies of each hop hold, what has arrived, the header.
Places(u1, u2, u3, d1, d2, d3, hu, hd, ku, kd, kr, gd, gu, z) ==
  /\ InLane(1, "up") = u1 /\ InLane(2, "up") = u2 /\ InLane(3, "up") = u3
  /\ InLane(1, "down") = d1 /\ InLane(2, "down") = d2 /\ InLane(3, "down") = d3
  /\ Held(1, "up") = hu /\ Held(1, "down") = hd
  /\ Held(2, "up") = ku /\ Held(2, "down") = kd /\ Held(2, "rest") = kr
  /\ Len(got.dest) = gd /\ Len(got.user) = gu /\ Leading = z

LEMMA PlacesAre ==
  ASSUME Shape
  PROVE  \E u1, u2, u3, d1, d2, d3, hu, hd, ku, kd, kr, gd, gu, z \in Nat :
            Places(u1, u2, u3, d1, d2, d3, hu, hd, ku, kd, kr, gd, gu, z) /\ z <= u2
<1>1. /\ InLane(1, "up") \in Nat /\ InLane(2, "up") \in Nat /\ InLane(3, "up") \in Nat
      /\ InLane(1, "down") \in Nat /\ InLane(2, "down") \in Nat /\ InLane(3, "down") \in Nat
  BY CountTypes, Numbers DEF Ways
<1>2. /\ Held(1, "up") \in Nat /\ Held(1, "down") \in Nat
      /\ Held(2, "up") \in Nat /\ Held(2, "down") \in Nat /\ Held(2, "rest") \in Nat
  <2>1. \A h \in Hops, d \in Dirs : Held(h, d) \in Nat
    BY CountTypes
  <2>. QED
    BY <2>1, Numbers DEF Dirs
<1>3. Leading \in Nat /\ Leading <= InLane(2, "up") /\ Len(got.dest) \in Nat /\ Len(got.user) \in Nat
  BY CountTypes
<1>. QED
  BY <1>1, <1>2, <1>3 DEF Places

LEMMA SumsAre ==
  ASSUME NEW u1, NEW u2, NEW u3, NEW d1, NEW d2, NEW d3, NEW hu, NEW hd, NEW ku, NEW kd, NEW kr, NEW gd, NEW gu, NEW z,
         Places(u1, u2, u3, d1, d2, d3, hu, hd, ku, kd, kr, gd, gu, z)
  PROVE  /\ UpPast = gd + u3 + ku + kr + (u2 - z) + hu /\ UpBefore = u1
         /\ DownPast = gu + d1 + hd /\ DownBefore = d2 + kd + d3
BY DEF Places, UpPast, UpBefore, DownPast, DownBefore

LEMMA CountsAtRead ==
  ASSUME Shape, NEW h \in Hops, NEW d \in Dirs, CopyReads(h, d)
  PROVE  LET f == From(h, d) IN
         /\ f.leg \in Legs /\ f.way \in Ways
         /\ \A l \in Legs, w \in Ways : InLane(l, w)' =
                IF l = f.leg /\ w = f.way THEN InLane(l, w) - 1 ELSE InLane(l, w)
         /\ \A k \in Hops, e \in Dirs : Held(k, e)' = IF k = h /\ e = d THEN 1 ELSE Held(k, e)
         /\ Held(h, d) = 0 /\ Leading' = Leading
<1>. DEFINE f == From(h, d)
<1>1. /\ f.leg \in Legs /\ f.way \in Ways
      /\ LaneBecomes(f.leg, f.way, Tail(data[f.leg][f.way]))
      /\ data[f.leg][f.way] # <<>> /\ data[f.leg][f.way] \in Seq(Nat)
      /\ CopyBecomes(h, d, [pc |-> "hold", chunk |-> Head(data[f.leg][f.way])])
  BY Reading DEF Shape
<1>. HIDE DEF f
<1>2. Len(Tail(data[f.leg][f.way])) = Len(data[f.leg][f.way]) - 1
  BY <1>1, ChunkRead
<1>3. \A l \in Legs, w \in Ways : InLane(l, w)' = IF l = f.leg /\ w = f.way THEN InLane(l, w) - 1 ELSE InLane(l, w)
  BY <1>1, <1>2 DEF InLane, LaneBecomes
<1>4. copy[h][d].pc = "read" /\ UNCHANGED handler
  BY DEF CopyReads
<1>5. (\A k \in Hops, e \in Dirs : Held(k, e)' = IF k = h /\ e = d THEN 1 ELSE Held(k, e)) /\ Held(h, d) = 0
  BY <1>1, <1>4 DEF Held, CopyBecomes
<1>6. Leading' = Leading
  BY <1>1, <1>4, Numbers DEF Leading, Ahead, CopyBecomes, Dirs
<1>. QED
  BY <1>1, <1>3, <1>5, <1>6 DEF f

LEMMA CountsAtWrite ==
  ASSUME Shape, NEW h \in Hops, NEW d \in Dirs, CopyWrites(h, d)
  PROVE  LET t == To(h, d) IN
         /\ t.leg \in Legs /\ t.way \in Ways
         /\ \A l \in Legs, w \in Ways : InLane(l, w)' =
                IF l = t.leg /\ w = t.way THEN InLane(l, w) + 1 ELSE InLane(l, w)
         /\ \A k \in Hops, e \in Dirs : Held(k, e)' = IF k = h /\ e = d THEN 0 ELSE Held(k, e)
         /\ Held(h, d) = 1 /\ Leading' = Leading
<1>. DEFINE t == To(h, d)
<1>1. /\ t.leg \in Legs /\ t.way \in Ways
      /\ LaneBecomes(t.leg, t.way, Append(data[t.leg][t.way], copy[h][d].chunk))
      /\ data[t.leg][t.way] \in Seq(Nat) /\ copy[h][d].chunk \in Nat
      /\ CopyBecomes(h, d, [pc |-> "read", chunk |-> 0])
  BY Writing DEF Shape
<1>. HIDE DEF t
<1>2. Len(Append(data[t.leg][t.way], copy[h][d].chunk)) = Len(data[t.leg][t.way]) + 1
  BY <1>1, ChunkWritten
<1>3. \A l \in Legs, w \in Ways : InLane(l, w)' = IF l = t.leg /\ w = t.way THEN InLane(l, w) + 1 ELSE InLane(l, w)
  BY <1>1, <1>2 DEF InLane, LaneBecomes
<1>4. copy[h][d].pc = "hold" /\ UNCHANGED handler
  BY DEF CopyWrites
<1>5. (\A k \in Hops, e \in Dirs : Held(k, e)' = IF k = h /\ e = d THEN 0 ELSE Held(k, e)) /\ Held(h, d) = 1
  BY <1>1, <1>4 DEF Held, CopyBecomes
<1>6. Leading' = Leading
  BY <1>1, <1>4, Numbers DEF Leading, Ahead, CopyBecomes, Dirs
<1>. QED
  BY <1>1, <1>3, <1>5, <1>6 DEF t

\* Who copies what: the hop joined to the destination counts, and only a TCP chain's outbound hop has a third copy.
LEMMA CopyIs ==
  ASSUME Shape, NEW h \in Hops, NEW d \in Dirs, copy[h][d].pc # "none"
  PROVE  /\ h = 1 => d # "rest" /\ Role(1) # "out"
         /\ h = 2 => Role(2) = "out" /\ Chained
<1>1. h = 1 => d # "rest" /\ Role(1) # "out"
  BY DEF Shape, RestIsTCP, Role
<1>2. h = 2 => Role(2) = "out" /\ Chained
  BY Numbers, ModeIs DEF Shape, HopsInTurn, Unopened, NothingAhead, Role, Chained, SessionTypes
<1>. QED
  BY <1>1, <1>2

LEMMA CountsAtBreak ==
  ASSUME Shape, NEW h \in Hops, NEW d \in Dirs, CopyBreaks(h, d)
  PROVE  /\ \A l \in Legs, w \in Ways : InLane(l, w)' = InLane(l, w)
         /\ \A k \in Hops, e \in Dirs : Held(k, e)' = IF k = h /\ e = d THEN 0 ELSE Held(k, e)
         /\ Held(h, d) = 1 /\ Leading' = Leading
<1>1. UNCHANGED <<data, handler>> /\ copy[h][d].pc = "hold"
  BY DEF CopyBreaks
<1>2. PICK c : CopyBecomes(h, d, c) /\ c.pc \notin {"hold", "none"}
  <2>1. [pc |-> "done", chunk |-> 0].pc \notin {"hold", "none"} /\
         [pc |-> "read", chunk |-> 0].pc \notin {"hold", "none"}
    OBVIOUS
  <2>. QED
    BY <2>1, Breaking DEF Shape
<1>3. (\A k \in Hops, e \in Dirs : Held(k, e)' = IF k = h /\ e = d THEN 0 ELSE Held(k, e)) /\ Held(h, d) = 1
  BY <1>1, <1>2 DEF Held, CopyBecomes
<1>4. Leading' = Leading
  BY <1>1, <1>2, Numbers DEF Leading, Ahead, CopyBecomes, Dirs
<1>. QED
  BY <1>1, <1>3, <1>4 DEF InLane

LEMMA ReadFlow ==
  ASSUME Shape, Flow, NEW h \in Hops, NEW d \in Dirs, CopyReads(h, d)
  PROVE  Flow'
<1>. DEFINE f == From(h, d)
<1>1. /\ \A l \in Legs, w \in Ways : InLane(l, w)' = IF l = f.leg /\ w = f.way THEN InLane(l, w) - 1 ELSE InLane(l, w)
      /\ \A k \in Hops, e \in Dirs : Held(k, e)' = IF k = h /\ e = d THEN 1 ELSE Held(k, e)
      /\ Held(h, d) = 0 /\ Leading' = Leading
  BY CountsAtRead
<1>2. /\ h = 1 => d # "rest" /\ counted' = counted + 1
      /\ h = 2 => counted' = counted
      /\ UNCHANGED <<got, sent, broken>>
  BY CopyIs DEF CopyReads
<1>3. (h = 1 \/ h = 2) /\ (d = "up" \/ d = "down" \/ d = "rest")
  BY Numbers DEF Dirs
<1>4. f.leg = (IF d = "down" THEN h + 1 ELSE h) /\ f.way = (IF d = "down" THEN "down" ELSE "up")
  BY DEF From
<1>. HIDE DEF f
<1>5. PICK u1, u2, u3, d1, d2, d3, hu, hd, ku, kd, kr, gd, gu, z \in Nat :
        Places(u1, u2, u3, d1, d2, d3, hu, hd, ku, kd, kr, gd, gu, z) /\ z <= u2
  BY PlacesAre, Zenon
<1>6. PICK t, s, r \in Nat : t = counted /\ s = sent.user /\ r = sent.dest
  BY DEF Shape, SessionTypes
<1>7. /\ gd + u3 + ku + kr + (u2 - z) + hu + (gu + d1 + hd) <= t
      /\ t + u1 + (d2 + kd + d3) <= s + r
      /\ ~broken => gd + u3 + ku + kr + (u2 - z) + hu + u1 = s /\ gu + d1 + hd + (d2 + kd + d3) = r
  BY <1>5, <1>6, SumsAre DEF Flow
<1>8. "up" \in Ways /\ "down" \in Ways /\ "up" \in Dirs /\ "down" \in Dirs /\ "rest" \in Dirs
  BY DEF Ways, Dirs
<1>9. CASE h = 1 /\ d = "up"
  <2>1. /\ InLane(1, "up")' = u1 - 1 /\ InLane(2, "up")' = u2 /\ InLane(3, "up")' = u3
        /\ InLane(1, "down")' = d1 /\ InLane(2, "down")' = d2 /\ InLane(3, "down")' = d3
    BY <1>1, <1>4, <1>5, <1>8, <1>9, Numbers, SMTT(30) DEF Places
  <2>2. /\ Held(1, "up")' = 1 /\ Held(1, "down")' = hd
        /\ Held(2, "up")' = ku /\ Held(2, "down")' = kd /\ Held(2, "rest")' = kr /\ hu = 0
    BY <1>1, <1>5, <1>8, <1>9, Numbers DEF Places
  <2>3. /\ Len(got'.dest) = gd /\ Len(got'.user) = gu /\ Leading' = z
        /\ counted' = t + 1 /\ sent'.user = s /\ sent'.dest = r /\ broken' = broken
    BY <1>1, <1>2, <1>5, <1>6, <1>9 DEF Places
  <2>4. /\ UpPast' = gd + u3 + ku + kr + (u2 - z) + 1 /\ UpBefore' = u1 - 1
        /\ DownPast' = gu + d1 + hd /\ DownBefore' = d2 + kd + d3
    BY <2>1, <2>2, <2>3 DEF UpPast, UpBefore, DownPast, DownBefore
  <2>. QED
    BY <1>7, <2>2, <2>3, <2>4 DEF Flow
<1>10. CASE h = 1 /\ d = "down"
  <2>1. /\ InLane(1, "up")' = u1 /\ InLane(2, "up")' = u2 /\ InLane(3, "up")' = u3
        /\ InLane(1, "down")' = d1 /\ InLane(2, "down")' = d2 - 1 /\ InLane(3, "down")' = d3
    BY <1>1, <1>4, <1>5, <1>8, <1>10, Numbers, SMTT(30) DEF Places
  <2>2. /\ Held(1, "up")' = hu /\ Held(1, "down")' = 1
        /\ Held(2, "up")' = ku /\ Held(2, "down")' = kd /\ Held(2, "rest")' = kr /\ hd = 0
    BY <1>1, <1>5, <1>8, <1>10, Numbers DEF Places
  <2>3. /\ Len(got'.dest) = gd /\ Len(got'.user) = gu /\ Leading' = z
        /\ counted' = t + 1 /\ sent'.user = s /\ sent'.dest = r /\ broken' = broken
    BY <1>1, <1>2, <1>5, <1>6, <1>10 DEF Places
  <2>4. /\ UpPast' = gd + u3 + ku + kr + (u2 - z) + hu /\ UpBefore' = u1
        /\ DownPast' = gu + d1 + 1 /\ DownBefore' = (d2 - 1) + kd + d3
    BY <2>1, <2>2, <2>3 DEF UpPast, UpBefore, DownPast, DownBefore
  <2>. QED
    BY <1>7, <2>2, <2>3, <2>4 DEF Flow
<1>11. CASE h = 2 /\ d = "up"
  <2>1. /\ InLane(1, "up")' = u1 /\ InLane(2, "up")' = u2 - 1 /\ InLane(3, "up")' = u3
        /\ InLane(1, "down")' = d1 /\ InLane(2, "down")' = d2 /\ InLane(3, "down")' = d3
    BY <1>1, <1>4, <1>5, <1>8, <1>11, Numbers, SMTT(30) DEF Places
  <2>2. /\ Held(1, "up")' = hu /\ Held(1, "down")' = hd
        /\ Held(2, "up")' = 1 /\ Held(2, "down")' = kd /\ Held(2, "rest")' = kr /\ ku = 0
    BY <1>1, <1>5, <1>8, <1>11, Numbers DEF Places
  <2>3. /\ Len(got'.dest) = gd /\ Len(got'.user) = gu /\ Leading' = z
        /\ counted' = t /\ sent'.user = s /\ sent'.dest = r /\ broken' = broken
    BY <1>1, <1>2, <1>5, <1>6, <1>11 DEF Places
  <2>4. /\ UpPast' = gd + u3 + 1 + kr + ((u2 - 1) - z) + hu /\ UpBefore' = u1
        /\ DownPast' = gu + d1 + hd /\ DownBefore' = d2 + kd + d3
    BY <2>1, <2>2, <2>3 DEF UpPast, UpBefore, DownPast, DownBefore
  <2>. QED
    BY <1>7, <2>2, <2>3, <2>4 DEF Flow
<1>12. CASE h = 2 /\ d = "rest"
  <2>1. /\ InLane(1, "up")' = u1 /\ InLane(2, "up")' = u2 - 1 /\ InLane(3, "up")' = u3
        /\ InLane(1, "down")' = d1 /\ InLane(2, "down")' = d2 /\ InLane(3, "down")' = d3
    BY <1>1, <1>4, <1>5, <1>8, <1>12, Numbers, SMTT(30) DEF Places
  <2>2. /\ Held(1, "up")' = hu /\ Held(1, "down")' = hd
        /\ Held(2, "up")' = ku /\ Held(2, "down")' = kd /\ Held(2, "rest")' = 1 /\ kr = 0
    BY <1>1, <1>5, <1>8, <1>12, Numbers DEF Places
  <2>3. /\ Len(got'.dest) = gd /\ Len(got'.user) = gu /\ Leading' = z
        /\ counted' = t /\ sent'.user = s /\ sent'.dest = r /\ broken' = broken
    BY <1>1, <1>2, <1>5, <1>6, <1>12 DEF Places
  <2>4. /\ UpPast' = gd + u3 + ku + 1 + ((u2 - 1) - z) + hu /\ UpBefore' = u1
        /\ DownPast' = gu + d1 + hd /\ DownBefore' = d2 + kd + d3
    BY <2>1, <2>2, <2>3 DEF UpPast, UpBefore, DownPast, DownBefore
  <2>. QED
    BY <1>7, <2>2, <2>3, <2>4 DEF Flow
<1>13. CASE h = 2 /\ d = "down"
  <2>1. /\ InLane(1, "up")' = u1 /\ InLane(2, "up")' = u2 /\ InLane(3, "up")' = u3
        /\ InLane(1, "down")' = d1 /\ InLane(2, "down")' = d2 /\ InLane(3, "down")' = d3 - 1
    BY <1>1, <1>4, <1>5, <1>8, <1>13, Numbers, SMTT(30) DEF Places
  <2>2. /\ Held(1, "up")' = hu /\ Held(1, "down")' = hd
        /\ Held(2, "up")' = ku /\ Held(2, "down")' = 1 /\ Held(2, "rest")' = kr /\ kd = 0
    BY <1>1, <1>5, <1>8, <1>13, Numbers DEF Places
  <2>3. /\ Len(got'.dest) = gd /\ Len(got'.user) = gu /\ Leading' = z
        /\ counted' = t /\ sent'.user = s /\ sent'.dest = r /\ broken' = broken
    BY <1>1, <1>2, <1>5, <1>6, <1>13 DEF Places
  <2>4. /\ UpPast' = gd + u3 + ku + kr + (u2 - z) + hu /\ UpBefore' = u1
        /\ DownPast' = gu + d1 + hd /\ DownBefore' = d2 + 1 + (d3 - 1)
    BY <2>1, <2>2, <2>3 DEF UpPast, UpBefore, DownPast, DownBefore
  <2>. QED
    BY <1>7, <2>2, <2>3, <2>4 DEF Flow
<1>. QED
  BY <1>2, <1>3, <1>9, <1>10, <1>11, <1>12, <1>13

LEMMA WriteFlow ==
  ASSUME Shape, Flow, NEW h \in Hops, NEW d \in Dirs, CopyWrites(h, d)
  PROVE  Flow'
<1>. DEFINE to == To(h, d)
<1>1. /\ \A l \in Legs, w \in Ways : InLane(l, w)' = IF l = to.leg /\ w = to.way THEN InLane(l, w) + 1 ELSE InLane(l, w)
      /\ \A k \in Hops, e \in Dirs : Held(k, e)' = IF k = h /\ e = d THEN 0 ELSE Held(k, e)
      /\ Held(h, d) = 1 /\ Leading' = Leading
  BY CountsAtWrite
<1>2. (h = 1 => d # "rest") /\ UNCHANGED <<got, sent, broken, counted>>
  BY CopyIs DEF CopyWrites
<1>3. (h = 1 \/ h = 2) /\ (d = "up" \/ d = "down" \/ d = "rest")
  BY Numbers DEF Dirs
<1>4. to.leg = (IF d = "down" THEN h ELSE h + 1) /\ to.way = (IF d = "down" THEN "down" ELSE "up")
  BY DEF To
<1>. HIDE DEF to
<1>5. PICK u1, u2, u3, d1, d2, d3, hu, hd, ku, kd, kr, gd, gu, z \in Nat :
        Places(u1, u2, u3, d1, d2, d3, hu, hd, ku, kd, kr, gd, gu, z) /\ z <= u2
  BY PlacesAre, Zenon
<1>6. PICK t, s, r \in Nat : t = counted /\ s = sent.user /\ r = sent.dest
  BY DEF Shape, SessionTypes
<1>7. /\ gd + u3 + ku + kr + (u2 - z) + hu + (gu + d1 + hd) <= t
      /\ t + u1 + (d2 + kd + d3) <= s + r
      /\ ~broken => gd + u3 + ku + kr + (u2 - z) + hu + u1 = s /\ gu + d1 + hd + (d2 + kd + d3) = r
  BY <1>5, <1>6, SumsAre DEF Flow
<1>8. "up" \in Ways /\ "down" \in Ways /\ "up" \in Dirs /\ "down" \in Dirs /\ "rest" \in Dirs
  BY DEF Ways, Dirs
<1>9. CASE h = 1 /\ d = "up"
  <2>1. /\ InLane(1, "up")' = u1 /\ InLane(2, "up")' = u2 + 1 /\ InLane(3, "up")' = u3
        /\ InLane(1, "down")' = d1 /\ InLane(2, "down")' = d2 /\ InLane(3, "down")' = d3
    BY <1>1, <1>4, <1>5, <1>8, <1>9, Numbers, SMTT(30) DEF Places
  <2>2. /\ Held(1, "up")' = 0 /\ Held(1, "down")' = hd
        /\ Held(2, "up")' = ku /\ Held(2, "down")' = kd /\ Held(2, "rest")' = kr /\ hu = 1
    BY <1>1, <1>5, <1>8, <1>9, Numbers DEF Places
  <2>3. /\ Len(got'.dest) = gd /\ Len(got'.user) = gu /\ Leading' = z
        /\ counted' = t /\ sent'.user = s /\ sent'.dest = r /\ broken' = broken
    BY <1>1, <1>2, <1>5, <1>6, <1>9 DEF Places
  <2>4. /\ UpPast' = gd + u3 + ku + kr + ((u2 + 1) - z) + 0 /\ UpBefore' = u1
        /\ DownPast' = gu + d1 + hd /\ DownBefore' = d2 + kd + d3
    BY <2>1, <2>2, <2>3 DEF UpPast, UpBefore, DownPast, DownBefore
  <2>. QED
    BY <1>7, <2>2, <2>3, <2>4 DEF Flow
<1>10. CASE h = 1 /\ d = "down"
  <2>1. /\ InLane(1, "up")' = u1 /\ InLane(2, "up")' = u2 /\ InLane(3, "up")' = u3
        /\ InLane(1, "down")' = d1 + 1 /\ InLane(2, "down")' = d2 /\ InLane(3, "down")' = d3
    BY <1>1, <1>4, <1>5, <1>8, <1>10, Numbers, SMTT(30) DEF Places
  <2>2. /\ Held(1, "up")' = hu /\ Held(1, "down")' = 0
        /\ Held(2, "up")' = ku /\ Held(2, "down")' = kd /\ Held(2, "rest")' = kr /\ hd = 1
    BY <1>1, <1>5, <1>8, <1>10, Numbers DEF Places
  <2>3. /\ Len(got'.dest) = gd /\ Len(got'.user) = gu /\ Leading' = z
        /\ counted' = t /\ sent'.user = s /\ sent'.dest = r /\ broken' = broken
    BY <1>1, <1>2, <1>5, <1>6, <1>10 DEF Places
  <2>4. /\ UpPast' = gd + u3 + ku + kr + (u2 - z) + hu /\ UpBefore' = u1
        /\ DownPast' = gu + (d1 + 1) + 0 /\ DownBefore' = d2 + kd + d3
    BY <2>1, <2>2, <2>3 DEF UpPast, UpBefore, DownPast, DownBefore
  <2>. QED
    BY <1>7, <2>2, <2>3, <2>4 DEF Flow
<1>11. CASE h = 2 /\ d = "up"
  <2>1. /\ InLane(1, "up")' = u1 /\ InLane(2, "up")' = u2 /\ InLane(3, "up")' = u3 + 1
        /\ InLane(1, "down")' = d1 /\ InLane(2, "down")' = d2 /\ InLane(3, "down")' = d3
    BY <1>1, <1>4, <1>5, <1>8, <1>11, Numbers, SMTT(30) DEF Places
  <2>2. /\ Held(1, "up")' = hu /\ Held(1, "down")' = hd
        /\ Held(2, "up")' = 0 /\ Held(2, "down")' = kd /\ Held(2, "rest")' = kr /\ ku = 1
    BY <1>1, <1>5, <1>8, <1>11, Numbers DEF Places
  <2>3. /\ Len(got'.dest) = gd /\ Len(got'.user) = gu /\ Leading' = z
        /\ counted' = t /\ sent'.user = s /\ sent'.dest = r /\ broken' = broken
    BY <1>1, <1>2, <1>5, <1>6, <1>11 DEF Places
  <2>4. /\ UpPast' = gd + (u3 + 1) + 0 + kr + (u2 - z) + hu /\ UpBefore' = u1
        /\ DownPast' = gu + d1 + hd /\ DownBefore' = d2 + kd + d3
    BY <2>1, <2>2, <2>3 DEF UpPast, UpBefore, DownPast, DownBefore
  <2>. QED
    BY <1>7, <2>2, <2>3, <2>4 DEF Flow
<1>12. CASE h = 2 /\ d = "rest"
  <2>1. /\ InLane(1, "up")' = u1 /\ InLane(2, "up")' = u2 /\ InLane(3, "up")' = u3 + 1
        /\ InLane(1, "down")' = d1 /\ InLane(2, "down")' = d2 /\ InLane(3, "down")' = d3
    BY <1>1, <1>4, <1>5, <1>8, <1>12, Numbers, SMTT(30) DEF Places
  <2>2. /\ Held(1, "up")' = hu /\ Held(1, "down")' = hd
        /\ Held(2, "up")' = ku /\ Held(2, "down")' = kd /\ Held(2, "rest")' = 0 /\ kr = 1
    BY <1>1, <1>5, <1>8, <1>12, Numbers DEF Places
  <2>3. /\ Len(got'.dest) = gd /\ Len(got'.user) = gu /\ Leading' = z
        /\ counted' = t /\ sent'.user = s /\ sent'.dest = r /\ broken' = broken
    BY <1>1, <1>2, <1>5, <1>6, <1>12 DEF Places
  <2>4. /\ UpPast' = gd + (u3 + 1) + ku + 0 + (u2 - z) + hu /\ UpBefore' = u1
        /\ DownPast' = gu + d1 + hd /\ DownBefore' = d2 + kd + d3
    BY <2>1, <2>2, <2>3 DEF UpPast, UpBefore, DownPast, DownBefore
  <2>. QED
    BY <1>7, <2>2, <2>3, <2>4 DEF Flow
<1>13. CASE h = 2 /\ d = "down"
  <2>1. /\ InLane(1, "up")' = u1 /\ InLane(2, "up")' = u2 /\ InLane(3, "up")' = u3
        /\ InLane(1, "down")' = d1 /\ InLane(2, "down")' = d2 + 1 /\ InLane(3, "down")' = d3
    BY <1>1, <1>4, <1>5, <1>8, <1>13, Numbers, SMTT(30) DEF Places
  <2>2. /\ Held(1, "up")' = hu /\ Held(1, "down")' = hd
        /\ Held(2, "up")' = ku /\ Held(2, "down")' = 0 /\ Held(2, "rest")' = kr /\ kd = 1
    BY <1>1, <1>5, <1>8, <1>13, Numbers DEF Places
  <2>3. /\ Len(got'.dest) = gd /\ Len(got'.user) = gu /\ Leading' = z
        /\ counted' = t /\ sent'.user = s /\ sent'.dest = r /\ broken' = broken
    BY <1>1, <1>2, <1>5, <1>6, <1>13 DEF Places
  <2>4. /\ UpPast' = gd + u3 + ku + kr + (u2 - z) + hu /\ UpBefore' = u1
        /\ DownPast' = gu + d1 + hd /\ DownBefore' = (d2 + 1) + 0 + d3
    BY <2>1, <2>2, <2>3 DEF UpPast, UpBefore, DownPast, DownBefore
  <2>. QED
    BY <1>7, <2>2, <2>3, <2>4 DEF Flow
<1>. QED
  BY <1>2, <1>3, <1>9, <1>10, <1>11, <1>12, <1>13

LEMMA BreakFlow ==
  ASSUME Shape, Flow, NEW h \in Hops, NEW d \in Dirs, CopyBreaks(h, d)
  PROVE  Flow'
<1>1. /\ \A l \in Legs, w \in Ways : InLane(l, w)' = InLane(l, w)
      /\ \A k \in Hops, e \in Dirs : Held(k, e)' = IF k = h /\ e = d THEN 0 ELSE Held(k, e)
      /\ Held(h, d) = 1 /\ Leading' = Leading
  BY CountsAtBreak
<1>2. (h = 1 => d # "rest") /\ UNCHANGED <<got, sent, counted>> /\ broken'
  BY CopyIs DEF CopyBreaks
<1>3. (h = 1 \/ h = 2) /\ (d = "up" \/ d = "down" \/ d = "rest")
  BY Numbers DEF Dirs
<1>5. PICK u1, u2, u3, d1, d2, d3, hu, hd, ku, kd, kr, gd, gu, z \in Nat :
        Places(u1, u2, u3, d1, d2, d3, hu, hd, ku, kd, kr, gd, gu, z) /\ z <= u2
  BY PlacesAre, Zenon
<1>6. PICK t, s, r \in Nat : t = counted /\ s = sent.user /\ r = sent.dest
  BY DEF Shape, SessionTypes
<1>7. /\ gd + u3 + ku + kr + (u2 - z) + hu + (gu + d1 + hd) <= t
      /\ t + u1 + (d2 + kd + d3) <= s + r
      /\ ~broken => gd + u3 + ku + kr + (u2 - z) + hu + u1 = s /\ gu + d1 + hd + (d2 + kd + d3) = r
  BY <1>5, <1>6, SumsAre DEF Flow
<1>8. "up" \in Ways /\ "down" \in Ways /\ "up" \in Dirs /\ "down" \in Dirs /\ "rest" \in Dirs
  BY DEF Ways, Dirs
<1>9. CASE h = 1 /\ d = "up"
  <2>1. /\ InLane(1, "up")' = u1 /\ InLane(2, "up")' = u2 /\ InLane(3, "up")' = u3
        /\ InLane(1, "down")' = d1 /\ InLane(2, "down")' = d2 /\ InLane(3, "down")' = d3
    BY <1>1, <1>5, <1>8, Numbers DEF Places
  <2>2. /\ Held(1, "up")' = 0 /\ Held(1, "down")' = hd
        /\ Held(2, "up")' = ku /\ Held(2, "down")' = kd /\ Held(2, "rest")' = kr /\ hu = 1
    BY <1>1, <1>5, <1>8, <1>9, Numbers DEF Places
  <2>3. /\ Len(got'.dest) = gd /\ Len(got'.user) = gu /\ Leading' = z
        /\ counted' = t /\ sent'.user = s /\ sent'.dest = r /\ broken'
    BY <1>1, <1>2, <1>5, <1>6 DEF Places
  <2>4. /\ UpPast' = gd + u3 + ku + kr + (u2 - z) + 0 /\ UpBefore' = u1
        /\ DownPast' = gu + d1 + hd /\ DownBefore' = d2 + kd + d3
    BY <2>1, <2>2, <2>3 DEF UpPast, UpBefore, DownPast, DownBefore
  <2>. QED
    BY <1>7, <2>2, <2>3, <2>4 DEF Flow
<1>10. CASE h = 1 /\ d = "down"
  <2>1. /\ InLane(1, "up")' = u1 /\ InLane(2, "up")' = u2 /\ InLane(3, "up")' = u3
        /\ InLane(1, "down")' = d1 /\ InLane(2, "down")' = d2 /\ InLane(3, "down")' = d3
    BY <1>1, <1>5, <1>8, Numbers DEF Places
  <2>2. /\ Held(1, "up")' = hu /\ Held(1, "down")' = 0
        /\ Held(2, "up")' = ku /\ Held(2, "down")' = kd /\ Held(2, "rest")' = kr /\ hd = 1
    BY <1>1, <1>5, <1>8, <1>10, Numbers DEF Places
  <2>3. /\ Len(got'.dest) = gd /\ Len(got'.user) = gu /\ Leading' = z
        /\ counted' = t /\ sent'.user = s /\ sent'.dest = r /\ broken'
    BY <1>1, <1>2, <1>5, <1>6 DEF Places
  <2>4. /\ UpPast' = gd + u3 + ku + kr + (u2 - z) + hu /\ UpBefore' = u1
        /\ DownPast' = gu + d1 + 0 /\ DownBefore' = d2 + kd + d3
    BY <2>1, <2>2, <2>3 DEF UpPast, UpBefore, DownPast, DownBefore
  <2>. QED
    BY <1>7, <2>2, <2>3, <2>4 DEF Flow
<1>11. CASE h = 2 /\ d = "up"
  <2>1. /\ InLane(1, "up")' = u1 /\ InLane(2, "up")' = u2 /\ InLane(3, "up")' = u3
        /\ InLane(1, "down")' = d1 /\ InLane(2, "down")' = d2 /\ InLane(3, "down")' = d3
    BY <1>1, <1>5, <1>8, Numbers DEF Places
  <2>2. /\ Held(1, "up")' = hu /\ Held(1, "down")' = hd
        /\ Held(2, "up")' = 0 /\ Held(2, "down")' = kd /\ Held(2, "rest")' = kr /\ ku = 1
    BY <1>1, <1>5, <1>8, <1>11, Numbers DEF Places
  <2>3. /\ Len(got'.dest) = gd /\ Len(got'.user) = gu /\ Leading' = z
        /\ counted' = t /\ sent'.user = s /\ sent'.dest = r /\ broken'
    BY <1>1, <1>2, <1>5, <1>6 DEF Places
  <2>4. /\ UpPast' = gd + u3 + 0 + kr + (u2 - z) + hu /\ UpBefore' = u1
        /\ DownPast' = gu + d1 + hd /\ DownBefore' = d2 + kd + d3
    BY <2>1, <2>2, <2>3 DEF UpPast, UpBefore, DownPast, DownBefore
  <2>. QED
    BY <1>7, <2>2, <2>3, <2>4 DEF Flow
<1>12. CASE h = 2 /\ d = "rest"
  <2>1. /\ InLane(1, "up")' = u1 /\ InLane(2, "up")' = u2 /\ InLane(3, "up")' = u3
        /\ InLane(1, "down")' = d1 /\ InLane(2, "down")' = d2 /\ InLane(3, "down")' = d3
    BY <1>1, <1>5, <1>8, Numbers DEF Places
  <2>2. /\ Held(1, "up")' = hu /\ Held(1, "down")' = hd
        /\ Held(2, "up")' = ku /\ Held(2, "down")' = kd /\ Held(2, "rest")' = 0 /\ kr = 1
    BY <1>1, <1>5, <1>8, <1>12, Numbers DEF Places
  <2>3. /\ Len(got'.dest) = gd /\ Len(got'.user) = gu /\ Leading' = z
        /\ counted' = t /\ sent'.user = s /\ sent'.dest = r /\ broken'
    BY <1>1, <1>2, <1>5, <1>6 DEF Places
  <2>4. /\ UpPast' = gd + u3 + ku + 0 + (u2 - z) + hu /\ UpBefore' = u1
        /\ DownPast' = gu + d1 + hd /\ DownBefore' = d2 + kd + d3
    BY <2>1, <2>2, <2>3 DEF UpPast, UpBefore, DownPast, DownBefore
  <2>. QED
    BY <1>7, <2>2, <2>3, <2>4 DEF Flow
<1>13. CASE h = 2 /\ d = "down"
  <2>1. /\ InLane(1, "up")' = u1 /\ InLane(2, "up")' = u2 /\ InLane(3, "up")' = u3
        /\ InLane(1, "down")' = d1 /\ InLane(2, "down")' = d2 /\ InLane(3, "down")' = d3
    BY <1>1, <1>5, <1>8, Numbers DEF Places
  <2>2. /\ Held(1, "up")' = hu /\ Held(1, "down")' = hd
        /\ Held(2, "up")' = ku /\ Held(2, "down")' = 0 /\ Held(2, "rest")' = kr /\ kd = 1
    BY <1>1, <1>5, <1>8, <1>13, Numbers DEF Places
  <2>3. /\ Len(got'.dest) = gd /\ Len(got'.user) = gu /\ Leading' = z
        /\ counted' = t /\ sent'.user = s /\ sent'.dest = r /\ broken'
    BY <1>1, <1>2, <1>5, <1>6 DEF Places
  <2>4. /\ UpPast' = gd + u3 + ku + kr + (u2 - z) + hu /\ UpBefore' = u1
        /\ DownPast' = gu + d1 + hd /\ DownBefore' = d2 + 0 + d3
    BY <2>1, <2>2, <2>3 DEF UpPast, UpBefore, DownPast, DownBefore
  <2>. QED
    BY <1>7, <2>2, <2>3, <2>4 DEF Flow
<1>. QED
  BY <1>2, <1>3, <1>9, <1>10, <1>11, <1>12, <1>13

\* A step that takes no chunk anywhere.
LEMMA StillFlow ==
  ASSUME Flow, UNCHANGED <<got, sent, counted, broken>>, Leading' = Leading,
         \A l \in Legs, w \in Ways : InLane(l, w)' = InLane(l, w),
         \A k \in Hops, e \in Dirs : Held(k, e)' = Held(k, e)
  PROVE  Flow'
<1>1. "up" \in Ways /\ "down" \in Ways /\ "up" \in Dirs /\ "down" \in Dirs /\ "rest" \in Dirs
  BY DEF Ways, Dirs
<1>2. UpPast' = UpPast
  BY <1>1, Numbers DEF UpPast
<1>3. UpBefore' = UpBefore /\ DownPast' = DownPast /\ DownBefore' = DownBefore
  BY <1>1, Numbers DEF UpBefore, DownPast, DownBefore
<1>. QED
  BY <1>2, <1>3 DEF Flow

LEMMA LaneCounts ==
  ASSUME Shape, NEW L \in Legs, NEW W \in Ways, NEW c \in Nat
  PROVE  /\ LaneBecomes(L, W, Append(data[L][W], c)) =>
              \A l \in Legs, w \in Ways : InLane(l, w)' = IF l = L /\ w = W THEN InLane(l, w) + 1 ELSE InLane(l, w)
         /\ LaneBecomes(L, W, Tail(data[L][W])) /\ data[L][W] # <<>> =>
              \A l \in Legs, w \in Ways : InLane(l, w)' = IF l = L /\ w = W THEN InLane(l, w) - 1 ELSE InLane(l, w)
<1>1. data[L][W] \in Seq(Nat)
  BY DEF Shape, SessionTypes, Ways
<1>2. Len(Append(data[L][W], c)) = Len(data[L][W]) + 1
  BY <1>1, ChunkWritten
<1>3. data[L][W] # <<>> => Len(Tail(data[L][W])) = Len(data[L][W]) - 1
  BY <1>1, ChunkRead
<1>. QED
  BY <1>2, <1>3 DEF InLane, LaneBecomes

LEMMA TalkFlow ==
  ASSUME Shape, Flow, UserSends \/ UserReads \/ DestSends \/ DestReads
  PROVE  Flow'
<1>1. UNCHANGED <<copy, handler, counted, broken>>
  BY DEF UserSends, UserReads, DestSends, DestReads
<1>2. Leading' = Leading
  BY <1>1 DEF Leading, Ahead
<1>3. \A k \in Hops, e \in Dirs : Held(k, e)' = Held(k, e)
  BY <1>1 DEF Held
<1>4. Final = IF Chained THEN 3 ELSE 2
  BY DEF Final, Chained
<1>5. PICK u1, u2, u3, d1, d2, d3, hu, hd, ku, kd, kr, gd, gu, z \in Nat :
        Places(u1, u2, u3, d1, d2, d3, hu, hd, ku, kd, kr, gd, gu, z) /\ z <= u2
  BY PlacesAre, Zenon
<1>6. PICK t, s, r \in Nat : t = counted /\ s = sent.user /\ r = sent.dest
  BY DEF Shape, SessionTypes
<1>7. /\ gd + u3 + ku + kr + (u2 - z) + hu + (gu + d1 + hd) <= t
      /\ t + u1 + (d2 + kd + d3) <= s + r
      /\ ~broken => gd + u3 + ku + kr + (u2 - z) + hu + u1 = s /\ gu + d1 + hd + (d2 + kd + d3) = r
  BY <1>5, <1>6, SumsAre DEF Flow
<1>8. "up" \in Ways /\ "down" \in Ways /\ "up" \in Dirs /\ "down" \in Dirs /\ "rest" \in Dirs
  BY DEF Ways, Dirs
<1>9. data[1].down \in Seq(Nat) /\ data[Final].up \in Seq(Nat) /\ got.user \in Seq(Nat) /\ got.dest \in Seq(Nat)
  BY FinalIs, Numbers DEF Shape, SessionTypes
<1>10. CASE UserSends
  <2>1. /\ \A l \in Legs, w \in Ways : InLane(l, w)' = IF l = 1 /\ w = "up" THEN InLane(l, w) + 1 ELSE InLane(l, w)
        /\ sent'.user = sent.user + 1 /\ sent'.dest = sent.dest
    <3>1. sent.user + 1 \in Nat
      BY DEF Shape, SessionTypes
    <3>. QED
      BY <1>8, <1>10, <3>1, UserSending, LaneCounts, Numbers DEF Shape
  <2>2. /\ InLane(1, "up")' = u1 + 1 /\ InLane(2, "up")' = u2 /\ InLane(3, "up")' = u3
        /\ InLane(1, "down")' = d1 /\ InLane(2, "down")' = d2 /\ InLane(3, "down")' = d3
    BY <1>5, <1>8, <2>1, Numbers, SMTT(30) DEF Places
  <2>3. /\ Held(1, "up")' = hu /\ Held(1, "down")' = hd
        /\ Held(2, "up")' = ku /\ Held(2, "down")' = kd /\ Held(2, "rest")' = kr
    BY <1>3, <1>5, <1>8, Numbers DEF Places
  <2>4. /\ Len(got'.dest) = gd /\ Len(got'.user) = gu /\ Leading' = z
        /\ counted' = t /\ sent'.user = s + 1 /\ sent'.dest = r /\ broken' = broken
    BY <1>1, <1>2, <1>5, <1>6, <1>10, <2>1 DEF Places, UserSends
  <2>5. /\ UpPast' = gd + u3 + ku + kr + (u2 - z) + hu /\ UpBefore' = u1 + 1
        /\ DownPast' = gu + d1 + hd /\ DownBefore' = d2 + kd + d3
    BY <2>2, <2>3, <2>4 DEF UpPast, UpBefore, DownPast, DownBefore
  <2>. QED
    BY <1>7, <2>3, <2>4, <2>5 DEF Flow
<1>11. CASE UserReads
  <2>1. /\ \A l \in Legs, w \in Ways : InLane(l, w)' = IF l = 1 /\ w = "down" THEN InLane(l, w) - 1 ELSE InLane(l, w)
        /\ Len(got'.user) = Len(got.user) + 1 /\ got'.dest = got.dest
    <3>1. Head(data[1].down) \in Nat
      BY <1>9, <1>11, ChunkRead DEF UserReads
    <3>2. Len(Append(got.user, Head(data[1].down))) = Len(got.user) + 1
      BY <1>9, <3>1, ChunkWritten
    <3>. QED
      BY <1>8, <1>11, <3>2, UserReading, LaneCounts, Numbers DEF Shape
  <2>2. /\ InLane(1, "up")' = u1 /\ InLane(2, "up")' = u2 /\ InLane(3, "up")' = u3
        /\ InLane(1, "down")' = d1 - 1 /\ InLane(2, "down")' = d2 /\ InLane(3, "down")' = d3
    BY <1>5, <1>8, <2>1, Numbers, SMTT(30) DEF Places
  <2>3. /\ Held(1, "up")' = hu /\ Held(1, "down")' = hd
        /\ Held(2, "up")' = ku /\ Held(2, "down")' = kd /\ Held(2, "rest")' = kr
    BY <1>3, <1>5, <1>8, Numbers DEF Places
  <2>4. /\ Len(got'.dest) = gd /\ Len(got'.user) = gu + 1 /\ Leading' = z
        /\ counted' = t /\ sent'.user = s /\ sent'.dest = r /\ broken' = broken
    BY <1>1, <1>2, <1>5, <1>6, <1>11, <2>1 DEF Places, UserReads
  <2>5. /\ UpPast' = gd + u3 + ku + kr + (u2 - z) + hu /\ UpBefore' = u1
        /\ DownPast' = (gu + 1) + (d1 - 1) + hd /\ DownBefore' = d2 + kd + d3
    BY <2>2, <2>3, <2>4 DEF UpPast, UpBefore, DownPast, DownBefore
  <2>. QED
    BY <1>7, <2>3, <2>4, <2>5 DEF Flow
<1>12. CASE DestSends /\ Chained
  <2>1. /\ \A l \in Legs, w \in Ways : InLane(l, w)' =
               IF l = Final /\ w = "down" THEN InLane(l, w) + 1 ELSE InLane(l, w)
        /\ sent'.dest = sent.dest + 1 /\ sent'.user = sent.user
    <3>1. sent.dest + 1 \in Nat
      BY DEF Shape, SessionTypes
    <3>. QED
      BY <1>8, <1>12, <3>1, DestSending, LaneCounts, FinalIs DEF Shape
  <2>2. /\ InLane(1, "up")' = u1 /\ InLane(2, "up")' = u2 /\ InLane(3, "up")' = u3
        /\ InLane(1, "down")' = d1 /\ InLane(2, "down")' = d2 /\ InLane(3, "down")' = d3 + 1
    BY <1>4, <1>5, <1>8, <1>12, <2>1, Numbers, SMTT(30) DEF Places
  <2>3. /\ Held(1, "up")' = hu /\ Held(1, "down")' = hd
        /\ Held(2, "up")' = ku /\ Held(2, "down")' = kd /\ Held(2, "rest")' = kr
    BY <1>3, <1>5, <1>8, Numbers DEF Places
  <2>4. /\ Len(got'.dest) = gd /\ Len(got'.user) = gu /\ Leading' = z
        /\ counted' = t /\ sent'.user = s /\ sent'.dest = r + 1 /\ broken' = broken
    BY <1>1, <1>2, <1>5, <1>6, <1>12, <2>1 DEF Places, DestSends
  <2>5. /\ UpPast' = gd + u3 + ku + kr + (u2 - z) + hu /\ UpBefore' = u1
        /\ DownPast' = gu + d1 + hd /\ DownBefore' = d2 + kd + (d3 + 1)
    BY <2>2, <2>3, <2>4 DEF UpPast, UpBefore, DownPast, DownBefore
  <2>. QED
    BY <1>7, <2>3, <2>4, <2>5 DEF Flow
<1>13. CASE DestSends /\ ~Chained
  <2>1. /\ \A l \in Legs, w \in Ways : InLane(l, w)' =
               IF l = Final /\ w = "down" THEN InLane(l, w) + 1 ELSE InLane(l, w)
        /\ sent'.dest = sent.dest + 1 /\ sent'.user = sent.user
    <3>1. sent.dest + 1 \in Nat
      BY DEF Shape, SessionTypes
    <3>. QED
      BY <1>8, <1>13, <3>1, DestSending, LaneCounts, FinalIs DEF Shape
  <2>2. /\ InLane(1, "up")' = u1 /\ InLane(2, "up")' = u2 /\ InLane(3, "up")' = u3
        /\ InLane(1, "down")' = d1 /\ InLane(2, "down")' = d2 + 1 /\ InLane(3, "down")' = d3
    BY <1>4, <1>5, <1>8, <1>13, <2>1, Numbers, SMTT(30) DEF Places
  <2>3. /\ Held(1, "up")' = hu /\ Held(1, "down")' = hd
        /\ Held(2, "up")' = ku /\ Held(2, "down")' = kd /\ Held(2, "rest")' = kr
    BY <1>3, <1>5, <1>8, Numbers DEF Places
  <2>4. /\ Len(got'.dest) = gd /\ Len(got'.user) = gu /\ Leading' = z
        /\ counted' = t /\ sent'.user = s /\ sent'.dest = r + 1 /\ broken' = broken
    BY <1>1, <1>2, <1>5, <1>6, <1>13, <2>1 DEF Places, DestSends
  <2>5. /\ UpPast' = gd + u3 + ku + kr + (u2 - z) + hu /\ UpBefore' = u1
        /\ DownPast' = gu + d1 + hd /\ DownBefore' = (d2 + 1) + kd + d3
    BY <2>2, <2>3, <2>4 DEF UpPast, UpBefore, DownPast, DownBefore
  <2>. QED
    BY <1>7, <2>3, <2>4, <2>5 DEF Flow
<1>14. CASE DestReads /\ Chained
  <2>1. /\ \A l \in Legs, w \in Ways : InLane(l, w)' = IF l = Final /\ w = "up" THEN InLane(l, w) - 1 ELSE InLane(l, w)
        /\ Len(got'.dest) = Len(got.dest) + 1 /\ got'.user = got.user
    <3>1. Head(data[Final].up) \in Nat
      BY <1>9, <1>14, ChunkRead DEF DestReads
    <3>2. Len(Append(got.dest, Head(data[Final].up))) = Len(got.dest) + 1
      BY <1>9, <3>1, ChunkWritten
    <3>. QED
      BY <1>8, <1>14, <3>2, DestReading, LaneCounts, FinalIs DEF Shape
  <2>2. /\ InLane(1, "up")' = u1 /\ InLane(2, "up")' = u2 /\ InLane(3, "up")' = u3 - 1
        /\ InLane(1, "down")' = d1 /\ InLane(2, "down")' = d2 /\ InLane(3, "down")' = d3
    BY <1>4, <1>5, <1>8, <1>14, <2>1, Numbers, SMTT(30) DEF Places
  <2>3. /\ Held(1, "up")' = hu /\ Held(1, "down")' = hd
        /\ Held(2, "up")' = ku /\ Held(2, "down")' = kd /\ Held(2, "rest")' = kr
    BY <1>3, <1>5, <1>8, Numbers DEF Places
  <2>4. /\ Len(got'.dest) = gd + 1 /\ Len(got'.user) = gu /\ Leading' = z
        /\ counted' = t /\ sent'.user = s /\ sent'.dest = r /\ broken' = broken
    BY <1>1, <1>2, <1>5, <1>6, <1>14, <2>1 DEF Places, DestReads
  <2>5. /\ UpPast' = (gd + 1) + (u3 - 1) + ku + kr + (u2 - z) + hu /\ UpBefore' = u1
        /\ DownPast' = gu + d1 + hd /\ DownBefore' = d2 + kd + d3
    BY <2>2, <2>3, <2>4 DEF UpPast, UpBefore, DownPast, DownBefore
  <2>. QED
    BY <1>7, <2>3, <2>4, <2>5 DEF Flow
<1>15. CASE DestReads /\ ~Chained
  <2>1. /\ \A l \in Legs, w \in Ways : InLane(l, w)' = IF l = Final /\ w = "up" THEN InLane(l, w) - 1 ELSE InLane(l, w)
        /\ Len(got'.dest) = Len(got.dest) + 1 /\ got'.user = got.user
    <3>1. Head(data[Final].up) \in Nat
      BY <1>9, <1>15, ChunkRead DEF DestReads
    <3>2. Len(Append(got.dest, Head(data[Final].up))) = Len(got.dest) + 1
      BY <1>9, <3>1, ChunkWritten
    <3>. QED
      BY <1>8, <1>15, <3>2, DestReading, LaneCounts, FinalIs DEF Shape
  <2>2. /\ InLane(1, "up")' = u1 /\ InLane(2, "up")' = u2 - 1 /\ InLane(3, "up")' = u3
        /\ InLane(1, "down")' = d1 /\ InLane(2, "down")' = d2 /\ InLane(3, "down")' = d3
    BY <1>4, <1>5, <1>8, <1>15, <2>1, Numbers, SMTT(30) DEF Places
  <2>3. /\ Held(1, "up")' = hu /\ Held(1, "down")' = hd
        /\ Held(2, "up")' = ku /\ Held(2, "down")' = kd /\ Held(2, "rest")' = kr
    BY <1>3, <1>5, <1>8, Numbers DEF Places
  <2>4. /\ Len(got'.dest) = gd + 1 /\ Len(got'.user) = gu /\ Leading' = z
        /\ counted' = t /\ sent'.user = s /\ sent'.dest = r /\ broken' = broken
    BY <1>1, <1>2, <1>5, <1>6, <1>15, <2>1 DEF Places, DestReads
  <2>5. /\ UpPast' = (gd + 1) + u3 + ku + kr + ((u2 - 1) - z) + hu /\ UpBefore' = u1
        /\ DownPast' = gu + d1 + hd /\ DownBefore' = d2 + kd + d3
    BY <2>2, <2>3, <2>4 DEF UpPast, UpBefore, DownPast, DownBefore
  <2>. QED
    BY <1>7, <2>3, <2>4, <2>5 DEF Flow
<1>. QED
  BY <1>10, <1>11, <1>12, <1>13, <1>14, <1>15

LEMMA DialFlow ==
  ASSUME Shape, Flow, DialChain \/ estabFromHeader \/ \E h \in Hops : DialDest(h)
  PROVE  Flow'
<1>1. UNCHANGED <<sent, got, counted, broken>>
  BY DEF DialChain, estabFromHeader, DialDest
<1>2. \A h \in Hops : Unopened(h) => NothingAhead(h)
  BY DEF Shape
<1>3. ASSUME NEW h \in Hops, Unopened(h), Dialling(h)
      PROVE  \A k \in Hops, e \in Dirs : Held(k, e)' = Held(k, e)
  BY <1>2, <1>3 DEF NothingAhead, Dialling, Held
<1>4. "up" \in Ways /\ "down" \in Ways /\ "up" \in Dirs /\ "down" \in Dirs /\ "rest" \in Dirs
  BY DEF Ways, Dirs
<1>5. PICK u1, u2, u3, d1, d2, d3, hu, hd, ku, kd, kr, gd, gu, z \in Nat :
        Places(u1, u2, u3, d1, d2, d3, hu, hd, ku, kd, kr, gd, gu, z) /\ z <= u2
  BY PlacesAre, Zenon
<1>6. PICK t, s, r \in Nat : t = counted /\ s = sent.user /\ r = sent.dest
  BY DEF Shape, SessionTypes
<1>7. /\ gd + u3 + ku + kr + (u2 - z) + hu + (gu + d1 + hd) <= t
      /\ t + u1 + (d2 + kd + d3) <= s + r
      /\ ~broken => gd + u3 + ku + kr + (u2 - z) + hu + u1 = s /\ gu + d1 + hd + (d2 + kd + d3) = r
  BY <1>5, <1>6, SumsAre DEF Flow
<1>8. CASE \E h \in Hops : DialDest(h)
  <2>1. Dialling(1) /\ handler[1] = "dial" /\ handler[2] = "none" /\ handler'[2] = "none" /\ UNCHANGED data
    BY <1>8, DirectDial DEF DialDest
  <2>2. Leading' = Leading
    BY <2>1 DEF Leading, Ahead
  <2>3. \A k \in Hops, e \in Dirs : Held(k, e)' = Held(k, e)
    BY <1>3, <2>1, Numbers DEF Unopened
  <2>4. \A l \in Legs, w \in Ways : InLane(l, w)' = InLane(l, w)
    BY <2>1 DEF InLane
  <2>. QED
    BY <1>1, <2>2, <2>3, <2>4, StillFlow
<1>9. CASE DialChain
  <2>1. /\ Dialling(1) /\ LaneBecomes(2, "up", <<Header>>)
        /\ handler[1] = "dial" /\ handler[2] = "none" /\ handler'[2] = "dial"
    BY <1>9, ChainDial
  <2>2. \A k \in Hops, e \in Dirs : Held(k, e)' = Held(k, e)
    BY <1>3, <2>1, Numbers DEF Unopened
  <2>3. LaneBecomes(2, "up", <<Header>>) /\ Len(<<Header>>) = 1 /\ ~Ahead /\ data[2].up = <<>> /\ Len(data[2].up) = 0
    BY <1>2, <2>1, Numbers DEF Ahead, NothingAhead, Unopened
  <2>4. Ahead' /\ u2 = 0 /\ z = 0 /\ \A l \in Legs, w \in Ways : InLane(l, w)' =
                                         IF l = 2 /\ w = "up" THEN 1 ELSE InLane(l, w)
    <3>1. Ahead'
      BY <1>2, <1>4, <2>1, Numbers DEF Ahead, NothingAhead, Unopened, Dialling
    <3>. QED
      BY <1>5, <2>3, <3>1 DEF Places, InLane, Leading, LaneBecomes
  <2>5. /\ InLane(1, "up")' = u1 /\ InLane(2, "up")' = 1 /\ InLane(3, "up")' = u3
        /\ InLane(1, "down")' = d1 /\ InLane(2, "down")' = d2 /\ InLane(3, "down")' = d3
    BY <1>4, <1>5, <2>4, Numbers DEF Places
  <2>6. /\ Held(1, "up")' = hu /\ Held(1, "down")' = hd
        /\ Held(2, "up")' = ku /\ Held(2, "down")' = kd /\ Held(2, "rest")' = kr
    BY <1>4, <1>5, <2>2, Numbers DEF Places
  <2>7. /\ Len(got'.dest) = gd /\ Len(got'.user) = gu /\ Leading' = 1
        /\ counted' = t /\ sent'.user = s /\ sent'.dest = r /\ broken' = broken
    BY <1>1, <1>5, <1>6, <2>3, <2>4 DEF Places, Leading
  <2>8. /\ UpPast' = gd + u3 + ku + kr + (1 - 1) + hu /\ UpBefore' = u1
        /\ DownPast' = gu + d1 + hd /\ DownBefore' = d2 + kd + d3
    BY <2>5, <2>6, <2>7 DEF UpPast, UpBefore, DownPast, DownBefore
  <2>. QED
    BY <1>7, <2>4, <2>6, <2>7, <2>8 DEF Flow
<1>10. CASE estabFromHeader
  <2>1. /\ Dialling(2) /\ LaneBecomes(2, "up", Tail(data[2].up)) /\ data[2].up # <<>>
        /\ handler[2] = "dial" /\ handler'[2] = "wait"
    BY <1>10, HeaderDial
  <2>2. \A k \in Hops, e \in Dirs : Held(k, e)' = Held(k, e)
    BY <1>3, <2>1, Numbers DEF Unopened
  <2>3. \A l \in Legs, w \in Ways : InLane(l, w)' = IF l = 2 /\ w = "up" THEN InLane(l, w) - 1 ELSE InLane(l, w)
    <3>1. 0 \in Nat
      OBVIOUS
    <3>. QED
      BY <1>4, <2>1, <3>1, LaneCounts, Numbers
  <2>4. Ahead /\ ~Ahead' /\ z = 1
    <3>1. Ahead /\ ~Ahead'
      BY <1>2, <1>4, <2>1, Numbers DEF Ahead, NothingAhead, Unopened, Dialling
    <3>. QED
      BY <1>5, <3>1 DEF Places, Leading
  <2>5. /\ InLane(1, "up")' = u1 /\ InLane(2, "up")' = u2 - 1 /\ InLane(3, "up")' = u3
        /\ InLane(1, "down")' = d1 /\ InLane(2, "down")' = d2 /\ InLane(3, "down")' = d3
    BY <1>4, <1>5, <2>3, <2>4, Numbers DEF Places
  <2>6. /\ Held(1, "up")' = hu /\ Held(1, "down")' = hd
        /\ Held(2, "up")' = ku /\ Held(2, "down")' = kd /\ Held(2, "rest")' = kr
    BY <1>4, <1>5, <2>2, Numbers DEF Places
  <2>7. /\ Len(got'.dest) = gd /\ Len(got'.user) = gu /\ Leading' = 0
        /\ counted' = t /\ sent'.user = s /\ sent'.dest = r /\ broken' = broken
    BY <1>1, <1>5, <1>6, <2>4 DEF Places, Leading
  <2>8. /\ UpPast' = gd + u3 + ku + kr + ((u2 - 1) - 0) + hu /\ UpBefore' = u1
        /\ DownPast' = gu + d1 + hd /\ DownBefore' = d2 + kd + d3
    BY <2>5, <2>6, <2>7 DEF UpPast, UpBefore, DownPast, DownBefore
  <2>. QED
    BY <1>7, <2>4, <2>6, <2>7, <2>8 DEF Flow
<1>. QED
  BY <1>8, <1>9, <1>10

LEMMA OtherFlow ==
  ASSUME Shape, Flow,
         \/ UserEnds \/ DestEnds \/ TimesOut
         \/ \E h \in Hops : GivesUp(h) \/ Collected(h) \/ Release(h)
         \/ \E h \in Hops, d \in Dirs : CopyEnds(h, d)
  PROVE  Flow'
<1>1. UNCHANGED <<data, sent, got, counted, broken>>
  BY DEF UserEnds, DestEnds, TimesOut, GivesUp, Collected, Release, CopyEnds
<1>2. \A l \in Legs, w \in Ways : InLane(l, w)' = InLane(l, w)
  BY <1>1 DEF InLane
<1>3. ASSUME NEW h \in Hops, NEW d \in Dirs, CopyEnds(h, d)
      PROVE  Flow'
  <2>1. CopyBecomes(h, d, [pc |-> "done", chunk |-> copy[h][d].chunk]) /\ copy[h][d].pc = "read" /\ UNCHANGED handler
    BY <1>3, Ending DEF Shape, CopyEnds
  <2>2. [pc |-> "done", chunk |-> copy[h][d].chunk].pc = "done"
    OBVIOUS
  <2>3. \A k \in Hops, e \in Dirs : Held(k, e)' = Held(k, e)
    BY <2>1, <2>2 DEF Held, CopyBecomes
  <2>4. Leading' = Leading
    BY <2>1, <2>2, Numbers DEF Leading, Ahead, CopyBecomes, Dirs
  <2>. QED
    BY <1>1, <1>2, <2>3, <2>4, StillFlow
<1>4. ASSUME UNCHANGED copy, handler'[2] = "none" <=> handler[2] = "none"
      PROVE  Flow'
  <2>1. \A k \in Hops, e \in Dirs : Held(k, e)' = Held(k, e)
    BY <1>4 DEF Held
  <2>2. Leading' = Leading
    BY <1>4 DEF Leading, Ahead
  <2>. QED
    BY <1>1, <1>2, <2>1, <2>2, StillFlow
<1>5. CASE UserEnds \/ DestEnds \/ TimesOut
  BY <1>4, <1>5 DEF UserEnds, DestEnds, TimesOut
<1>6. ASSUME NEW h \in Hops, GivesUp(h) \/ Collected(h) \/ Release(h)
      PROVE  Flow'
  <2>1. UNCHANGED copy /\ handler[h] # "none" /\ handler' = [handler EXCEPT ![h] = handler'[h]] /\ handler'[h] # "none"
    BY <1>6 DEF GivesUp, Collected, Release, Shape, SessionTypes
  <2>2. handler'[2] = "none" <=> handler[2] = "none"
    BY <2>1, Numbers DEF Shape, SessionTypes
  <2>. QED
    BY <1>4, <2>1, <2>2
<1>. QED
  BY <1>3, <1>5, <1>6

LEMMA FlowKept ==
  ASSUME Shape, Flow, [Next]_vars
  PROVE  Flow'
<1>1. CASE Ends
  BY <1>1, TalkFlow, OtherFlow DEF Ends
<1>2. CASE Dials
  BY <1>2, DialFlow, OtherFlow DEF Dials
<1>3. CASE TimesOut
  BY <1>3, OtherFlow
<1>4. ASSUME NEW h \in Hops, Collected(h) \/ Release(h)
      PROVE  Flow'
  BY <1>4, OtherFlow
<1>5. ASSUME NEW h \in Hops, NEW d \in Dirs, copyConn(h, d)
      PROVE  Flow'
  BY <1>5, ReadFlow, WriteFlow, BreakFlow, OtherFlow DEF copyConn
<1>6. CASE UNCHANGED vars
  <2>1. Leading' = Leading
    BY <1>6 DEF vars, Leading, Ahead
  <2>2. /\ \A l \in Legs, w \in Ways : InLane(l, w)' = InLane(l, w)
        /\ \A k \in Hops, e \in Dirs : Held(k, e)' = Held(k, e)
    BY <1>6 DEF vars, InLane, Held
  <2>. QED
    BY <1>6, <2>1, <2>2, StillFlow DEF vars
<1>. QED
  BY <1>1, <1>2, <1>3, <1>4, <1>5, <1>6 DEF Next

LEMMA InitFlow == Init => Flow
<1>. SUFFICES ASSUME Init PROVE Flow
  OBVIOUS
<1>1. /\ InLane(1, "up") = 0 /\ InLane(2, "up") = 0 /\ InLane(3, "up") = 0
      /\ InLane(1, "down") = 0 /\ InLane(2, "down") = 0 /\ InLane(3, "down") = 0
  BY EmptySeq, Numbers DEF Init, InLane
<1>2. /\ Held(1, "up") = 0 /\ Held(1, "down") = 0
      /\ Held(2, "up") = 0 /\ Held(2, "down") = 0 /\ Held(2, "rest") = 0
  BY Numbers DEF Init, Held, NoCopy, Dirs
<1>3. Leading = 0 /\ Len(got.dest) = 0 /\ Len(got.user) = 0
  BY EmptySeq, Numbers DEF Init, Leading, Ahead
<1>4. UpPast = 0 /\ UpBefore = 0 /\ DownPast = 0 /\ DownBefore = 0
  BY <1>1, <1>2, <1>3 DEF UpPast, UpBefore, DownPast, DownBefore
<1>. QED
  BY <1>4 DEF Init, Flow

LEMMA FlowIsCounted ==
  ASSUME Shape, Flow
  PROVE  CountedOnce
<1>1. PICK u1, u2, u3, d1, d2, d3, hu, hd, ku, kd, kr, gd, gu, z \in Nat :
        Places(u1, u2, u3, d1, d2, d3, hu, hd, ku, kd, kr, gd, gu, z) /\ z <= u2
  BY PlacesAre, Zenon
<1>2. PICK t, s, r \in Nat : t = counted /\ s = sent.user /\ r = sent.dest
  BY DEF Shape, SessionTypes
<1>3. /\ gd + u3 + ku + kr + (u2 - z) + hu + (gu + d1 + hd) <= t
      /\ t + u1 + (d2 + kd + d3) <= s + r
      /\ ~broken => gd + u3 + ku + kr + (u2 - z) + hu + u1 = s /\ gu + d1 + hd + (d2 + kd + d3) = r
  BY <1>1, <1>2, SumsAre DEF Flow
<1>4. gd + gu <= t /\ t <= s + r
  BY <1>1, <1>3
<1>. QED
  BY <1>1, <1>2, <1>4 DEF CountedOnce, Places

-----------------------------------------------------------------------------
(* What has been passed on when a connection is closed. *)

\* A copy that ended without breaking has found its source ended and empty.
EndsSeen ==
  ~broken =>
    \A h \in Hops, d \in Dirs : handler[h] = "wait" /\ Done(h, d) =>
      LET f == From(h, d) IN end[f.leg][f.peer] \in {"half", "closed"} /\ data[f.leg][f.way] = <<>>

\* Nothing of the user's is left at the user or on the way up to and in hop h, nor will be.
UpDrained(h) ==
  /\ end[1].near # "open" /\ data[1].up = <<>> /\ copy[1]["up"].pc # "hold"
  /\ h = 2 => data[2].up = <<>> /\ copy[2]["up"].pc # "hold" /\ copy[2]["rest"].pc # "hold"

\* Nor of the destination's, at the destination and on the way down to and in hop h.
DownDrained(h) ==
  /\ end[Final].far # "open" /\ handler[1] # "dial" /\ handler[2] # "dial"
  /\ data[3].down = <<>> /\ copy[2]["down"].pc # "hold"
  /\ h = 1 => data[2].down = <<>> /\ copy[1]["down"].pc # "hold"

\* A hop closes ahead after the last of the user's chunks, and behind after the last of the destination's.
ClosedAhead(h) == end[h + 1].near = "closed" /\ end[h + 1].far # "closed"

ClosedBehind(h) == end[h].far = "closed" /\ end[h].near \notin {"half", "closed"}

Drained ==
  ~broken /\ ~timer => \A h \in Hops : (ClosedAhead(h) => UpDrained(h)) /\ (ClosedBehind(h) => DownDrained(h))

Arrival == EndsSeen /\ Drained

\* The two ways of a hop, and the third reader's.
LEMMA SourceIs ==
  ASSUME NEW h \in Hops, NEW d \in Dirs
  PROVE  /\ From(h, d).leg = (IF d = "down" THEN h + 1 ELSE h)
         /\ From(h, d).way = (IF d = "down" THEN "down" ELSE "up")
         /\ From(h, d).own = (IF d = "down" THEN "near" ELSE "far")
         /\ From(h, d).peer = (IF d = "down" THEN "far" ELSE "near")
         /\ To(h, d).leg = (IF d = "down" THEN h ELSE h + 1)
         /\ To(h, d).way = (IF d = "down" THEN "down" ELSE "up")
         /\ To(h, d).own = (IF d = "down" THEN "far" ELSE "near")
         /\ To(h, d).peer = (IF d = "down" THEN "near" ELSE "far")
BY DEF From, To

\* EndsSeen, spelt out.
Seen(h, d) ==
  IF d = "down" THEN end[h + 1].far \in {"half", "closed"} /\ data[h + 1].down = <<>>
                ELSE end[h].near \in {"half", "closed"} /\ data[h].up = <<>>

LEMMA EndsSeenIs ==
  EndsSeen <=> (~broken => \A h \in Hops, d \in Dirs : handler[h] = "wait" /\ Done(h, d) => Seen(h, d))
<1>1. ASSUME NEW h \in Hops, NEW d \in Dirs
      PROVE  (LET f == From(h, d) IN end[f.leg][f.peer] \in {"half", "closed"} /\ data[f.leg][f.way] = <<>>)
             <=> Seen(h, d)
  <2>1. CASE d = "down"
    BY <2>1, SourceIs DEF Seen
  <2>2. CASE d # "down"
    BY <2>2, SourceIs DEF Seen
  <2>. QED
    BY <2>1, <2>2
<1>. QED
  BY <1>1 DEF EndsSeen

LEMMA Ways3 ==
  /\ "up" \in Dirs /\ "down" \in Dirs /\ "rest" \in Dirs /\ "up" \in Ways /\ "down" \in Ways
  /\ \A d \in Dirs : d = "up" \/ d = "down" \/ d = "rest"
BY DEF Dirs, Ways

\* The lane a copy reads, and the one it writes.
LEMMA ReadAt ==
  ASSUME Shape, NEW h \in Hops, NEW d \in Dirs, CopyReads(h, d)
  PROVE  \E L, W, c :
           /\ L \in Legs /\ W \in Ways
           /\ L = (IF d = "down" THEN h + 1 ELSE h) /\ W = (IF d = "down" THEN "down" ELSE "up")
           /\ data[L][W] \in Seq(Nat) /\ data[L][W] # <<>> /\ LaneBecomes(L, W, Tail(data[L][W]))
           /\ c.pc = "hold" /\ c.chunk = Head(data[L][W]) /\ CopyBecomes(h, d, c)
<1>1. PICK f : f = From(h, d)
  OBVIOUS
<1>2. /\ f.leg \in Legs /\ f.way \in Ways
      /\ LaneBecomes(f.leg, f.way, Tail(data[f.leg][f.way]))
      /\ data[f.leg][f.way] \in Seq(Nat) /\ data[f.leg][f.way] # <<>>
      /\ CopyBecomes(h, d, [pc |-> "hold", chunk |-> Head(data[f.leg][f.way])])
  BY <1>1, Reading DEF Shape
<1>3. f.leg = (IF d = "down" THEN h + 1 ELSE h) /\ f.way = (IF d = "down" THEN "down" ELSE "up")
  BY <1>1, SourceIs
<1>4. PICK L, W : L = f.leg /\ W = f.way
  OBVIOUS
<1>5. PICK c : c = [pc |-> "hold", chunk |-> Head(data[L][W])]
  OBVIOUS
<1>6. c.pc = "hold" /\ c.chunk = Head(data[L][W])
  BY <1>5
<1>7. CopyBecomes(h, d, c)
  BY <1>2, <1>4, <1>5
<1>. QED
  BY <1>2, <1>3, <1>4, <1>6, <1>7

LEMMA WriteAt ==
  ASSUME Shape, NEW h \in Hops, NEW d \in Dirs, CopyWrites(h, d)
  PROVE  \E L, W, c :
           /\ L \in Legs /\ W \in Ways
           /\ L = (IF d = "down" THEN h ELSE h + 1) /\ W = (IF d = "down" THEN "down" ELSE "up")
           /\ data[L][W] \in Seq(Nat) /\ copy[h][d].chunk \in Nat
           /\ LaneBecomes(L, W, Append(data[L][W], copy[h][d].chunk))
           /\ c.pc = "read" /\ CopyBecomes(h, d, c)
           /\ end[L].near # "closed" /\ end[L].far # "closed"
<1>1. PICK t : t = To(h, d)
  OBVIOUS
<1>2. /\ t.leg \in Legs /\ t.way \in Ways
      /\ data[t.leg][t.way] \in Seq(Nat) /\ copy[h][d].chunk \in Nat
      /\ LaneBecomes(t.leg, t.way, Append(data[t.leg][t.way], copy[h][d].chunk))
      /\ CopyBecomes(h, d, [pc |-> "read", chunk |-> 0])
  BY <1>1, Writing DEF Shape
<1>3. /\ t.leg = (IF d = "down" THEN h ELSE h + 1) /\ t.way = (IF d = "down" THEN "down" ELSE "up")
      /\ t.own = (IF d = "down" THEN "far" ELSE "near") /\ t.peer = (IF d = "down" THEN "near" ELSE "far")
  BY <1>1, SourceIs
<1>4. PICK L, W : L = t.leg /\ W = t.way
  OBVIOUS
<1>5. PICK c : c = [pc |-> "read", chunk |-> 0]
  OBVIOUS
<1>6. c.pc = "read"
  BY <1>5
<1>7. end[t.leg][t.own] # "closed" /\ end[t.leg][t.peer] # "closed"
  BY <1>1 DEF CopyWrites
<1>8. end[L].near # "closed" /\ end[L].far # "closed"
  BY <1>3, <1>4, <1>7
<1>. QED
  BY <1>2, <1>3, <1>4, <1>5, <1>6, <1>8

LEMMA ReadArrival ==
  ASSUME Shape, Arrival, NEW h \in Hops, NEW d \in Dirs, CopyReads(h, d)
  PROVE  Arrival'
<1>1. PICK L, W, c :
        /\ L \in Legs /\ W \in Ways
        /\ data[L][W] # <<>> /\ LaneBecomes(L, W, Tail(data[L][W])) /\ CopyBecomes(h, d, c) /\ c.pc = "hold"
        /\ L = (IF d = "down" THEN h + 1 ELSE h) /\ W = (IF d = "down" THEN "down" ELSE "up")
  BY ReadAt
<1>2. UNCHANGED <<mode, end, handler, timer, broken>> /\ copy[h][d].pc = "read"
  BY DEF CopyReads
<1>4. EndsSeen'
  <2>. SUFFICES ASSUME ~broken, NEW k \in Hops, NEW e \in Dirs, handler[k] = "wait", Done(k, e)'
                PROVE  Seen(k, e)'
    BY <1>2, EndsSeenIs DEF EndsSeen, From, Seen
  <2>1. Done(k, e)
    BY <1>1 DEF Done, CopyBecomes
  <2>2. Seen(k, e)
    BY <2>1, EndsSeenIs DEF Arrival
  <2>. QED
    BY <1>1, <1>2, <2>2, Numbers, Ways3 DEF Seen, LaneBecomes
<1>5. ASSUME NEW k \in Hops
      PROVE  (UpDrained(k) => UpDrained(k)') /\ (DownDrained(k) => DownDrained(k)')
  <2>1. Final' = Final
    BY <1>2 DEF Final
  <2>2. UpDrained(k) => UpDrained(k)'
    BY <1>1, <1>2, Numbers, Ways3 DEF UpDrained, LaneBecomes, CopyBecomes
  <2>3. DownDrained(k) => DownDrained(k)'
    BY <1>1, <1>2, <2>1, Numbers, Ways3 DEF DownDrained, LaneBecomes, CopyBecomes
  <2>. QED
    BY <2>2, <2>3
<1>6. Drained'
  BY <1>2, <1>5 DEF Arrival, Drained, ClosedAhead, ClosedBehind
<1>. QED
  BY <1>4, <1>6 DEF Arrival

LEMMA WriteArrival ==
  ASSUME Shape, Arrival, NEW h \in Hops, NEW d \in Dirs, CopyWrites(h, d)
  PROVE  Arrival'
<1>1. PICK L, W, c, s :
        /\ L \in Legs /\ W \in Ways
        /\ LaneBecomes(L, W, s) /\ CopyBecomes(h, d, c) /\ c.pc = "read"
        /\ L = (IF d = "down" THEN h ELSE h + 1) /\ W = (IF d = "down" THEN "down" ELSE "up")
        /\ end[L].near # "closed" /\ end[L].far # "closed"
  BY WriteAt
<1>2. UNCHANGED <<mode, end, handler, timer, broken>> /\ copy[h][d].pc = "hold"
  BY DEF CopyWrites
<1>3. ~(h = 1 /\ d = "rest")
  BY <1>2 DEF Shape, RestIsTCP
<1>4. EndsSeen'
  <2>. SUFFICES ASSUME ~broken, NEW k \in Hops, NEW e \in Dirs, handler[k] = "wait", Done(k, e)'
                PROVE  Seen(k, e)'
    BY <1>2, EndsSeenIs DEF EndsSeen, From, Seen
  <2>1. Done(k, e)
    BY <1>1 DEF Done, CopyBecomes
  <2>2. Seen(k, e)
    BY <2>1, EndsSeenIs DEF Arrival
  <2>3. L = (IF e = "down" THEN k + 1 ELSE k) => W # (IF e = "down" THEN "down" ELSE "up")
    BY <1>1, <2>2, Numbers, Ways3 DEF Seen, Shape, HalfIsUsers
  <2>. QED
    BY <1>1, <1>2, <2>2, <2>3, Numbers, Ways3 DEF Seen, LaneBecomes
<1>5. ASSUME NEW k \in Hops
      PROVE  (UpDrained(k) => UpDrained(k)') /\ (DownDrained(k) => DownDrained(k)')
  <2>1. Final' = Final
    BY <1>2 DEF Final
  <2>2. UpDrained(k) => UpDrained(k)'
    BY <1>1, <1>2, <1>3, Numbers, Ways3 DEF UpDrained, LaneBecomes, CopyBecomes
  <2>3. DownDrained(k) => DownDrained(k)'
    BY <1>1, <1>2, <2>1, Numbers, Ways3 DEF DownDrained, LaneBecomes, CopyBecomes
  <2>. QED
    BY <2>2, <2>3
<1>6. Drained'
  BY <1>2, <1>5 DEF Arrival, Drained, ClosedAhead, ClosedBehind
<1>. QED
  BY <1>4, <1>6 DEF Arrival

LEMMA EndArrival ==
  ASSUME Shape, Arrival, NEW h \in Hops, NEW d \in Dirs, CopyEnds(h, d)
  PROVE  Arrival'
<1>1. UNCHANGED <<mode, end, data, handler, timer, broken>> /\ copy[h][d].pc = "read"
  BY DEF CopyEnds
<1>2. PICK c : CopyBecomes(h, d, c) /\ c.pc = "done"
  <2>1. [pc |-> "done", chunk |-> copy[h][d].chunk].pc = "done"
    OBVIOUS
  <2>2. CopyBecomes(h, d, [pc |-> "done", chunk |-> copy[h][d].chunk])
    BY Ending DEF Shape
  <2>. QED
    BY <2>1, <2>2
<1>3. handler[h] = "wait" => Seen(h, d)
  <2>1. PICK f : f = From(h, d)
    OBVIOUS
  <2>2. \/ end[f.leg][f.own] = "closed"
        \/ end[f.leg][f.peer] \in {"half", "closed"} /\ data[f.leg][f.way] = <<>>
    BY <2>1 DEF CopyEnds
  <2>3. /\ f.leg = (IF d = "down" THEN h + 1 ELSE h) /\ f.way = (IF d = "down" THEN "down" ELSE "up")
        /\ f.own = (IF d = "down" THEN "near" ELSE "far") /\ f.peer = (IF d = "down" THEN "far" ELSE "near")
    BY <2>1, SourceIs
  <2>. QED
    BY <2>2, <2>3 DEF Seen, Shape, HandlersHold
<1>4. EndsSeen'
  <2>. SUFFICES ASSUME ~broken, NEW k \in Hops, NEW e \in Dirs, handler[k] = "wait", Done(k, e)'
                PROVE  Seen(k, e)'
    BY <1>1, EndsSeenIs DEF EndsSeen, From, Seen
  <2>1. Seen(k, e)
    BY <1>2, <1>3, EndsSeenIs DEF Arrival, Done, CopyBecomes
  <2>. QED
    BY <1>1, <2>1 DEF Seen
<1>5. Drained'
  <2>1. Final' = Final
    BY <1>1 DEF Final
  <2>2. \A k \in Hops, e \in Dirs : copy'[k][e].pc = "hold" => copy[k][e].pc = "hold"
    BY <1>2 DEF CopyBecomes
  <2>. QED
    BY <1>1, <2>1, <2>2, Numbers, Ways3 DEF Arrival, Drained, ClosedAhead, ClosedBehind, UpDrained, DownDrained
<1>. QED
  BY <1>4, <1>5 DEF Arrival

LEMMA BreakArrival ==
  ASSUME NEW h \in Hops, NEW d \in Dirs, CopyBreaks(h, d)
  PROVE  Arrival'
BY DEF CopyBreaks, Arrival, EndsSeen, Drained

LEMMA TalkArrival ==
  ASSUME Shape, Arrival, UserSends \/ UserReads \/ DestSends \/ DestReads
  PROVE  Arrival'
<1>1. UNCHANGED <<mode, end, handler, copy, timer, broken>>
  BY DEF UserSends, UserReads, DestSends, DestReads
<1>2. PICK L, W, s :
        /\ L \in Legs /\ W \in Ways
        /\ LaneBecomes(L, W, s)
        /\ \/ L = 1 /\ W = "up" /\ end[1].near = "open"
           \/ L = 1 /\ W = "down"
           \/ L = Final /\ W = "down" /\ end[Final].far = "open"
           \/ L = Final /\ W = "up" /\ data[Final].up # <<>>
  <2>1. CASE UserSends
    BY <2>1, UserSending, Numbers, Ways3 DEF Shape, UserSends
  <2>2. CASE UserReads
    BY <2>2, UserReading, Numbers, Ways3 DEF Shape
  <2>3. CASE DestSends
    BY <2>3, DestSending, FinalIs, Ways3 DEF Shape, DestSends
  <2>4. CASE DestReads
    BY <2>4, DestReading, FinalIs, Ways3 DEF Shape, DestReads
  <2>. QED
    BY <2>1, <2>2, <2>3, <2>4
<1>3. Final' = Final /\ (Final = 2 \/ Final = 3) /\ (Final = 2 => handler[2] = "none")
  BY <1>1 DEF Final, Shape, HopsInTurn, Chained
<1>4. EndsSeen'
  <2>. SUFFICES ASSUME ~broken, NEW k \in Hops, NEW e \in Dirs, handler[k] = "wait", Done(k, e)'
                PROVE  Seen(k, e)'
    BY <1>1, EndsSeenIs DEF EndsSeen, From, Seen
  <2>1. Seen(k, e)
    BY <1>1, EndsSeenIs DEF Arrival, Done
  <2>2. L = (IF e = "down" THEN k + 1 ELSE k) => W # (IF e = "down" THEN "down" ELSE "up")
    BY <1>2, <1>3, <2>1, Numbers DEF Seen
  <2>. QED
    BY <1>1, <1>2, <2>1, <2>2, Numbers, Ways3 DEF Seen, LaneBecomes
<1>5. ASSUME NEW k \in Hops
      PROVE  (UpDrained(k) => UpDrained(k)') /\ (DownDrained(k) => DownDrained(k)')
  <2>1. UpDrained(k) => UpDrained(k)'
    BY <1>1, <1>2, <1>3, Numbers, Ways3 DEF UpDrained, LaneBecomes
  <2>2. DownDrained(k) => DownDrained(k)'
    BY <1>1, <1>2, <1>3, Numbers, Ways3 DEF DownDrained, LaneBecomes
  <2>. QED
    BY <2>1, <2>2
<1>6. Drained'
  BY <1>1, <1>5 DEF Arrival, Drained, ClosedAhead, ClosedBehind
<1>. QED
  BY <1>4, <1>6 DEF Arrival

LEMMA HangUpArrival ==
  ASSUME Shape, Arrival, UserEnds \/ DestEnds \/ TimesOut
  PROVE  Arrival'
<1>1. UNCHANGED <<mode, data, handler, copy, broken>> /\ (timer => timer')
  BY DEF UserEnds, DestEnds, TimesOut
<1>2. Final' = Final /\ (Final = 2 \/ Final = 3) /\ (Final = 2 => handler[2] = "none")
  BY <1>1 DEF Final, Shape, HopsInTurn, Chained
<1>3. ASSUME \A k \in Hops, e \in Dirs : Seen(k, e) => Seen(k, e)'
      PROVE  EndsSeen'
  <2>. SUFFICES ASSUME ~broken, NEW k \in Hops, NEW e \in Dirs, handler[k] = "wait", Done(k, e)'
                PROVE  Seen(k, e)'
    BY <1>1, EndsSeenIs DEF EndsSeen, From, Seen
  <2>. QED
    BY <1>1, <1>3, EndsSeenIs DEF Arrival, Done
<1>4. CASE UserEnds
  <2>1. /\ UNCHANGED timer /\ end'[1].near \in {"half", "closed"} /\ end'[1].far = end[1].far
        /\ \A l \in Legs : end'[l].far = end[l].far /\ (l # 1 => end'[l].near = end[l].near)
    BY <1>4, UserEnding, Numbers DEF Shape, NearBecomes, UserEnds
  <2>2. \A k \in Hops, e \in Dirs : Seen(k, e) => Seen(k, e)'
    BY <1>1, <2>1, Numbers DEF Seen
  <2>3. \A k \in Hops : (ClosedAhead(k)' => ClosedAhead(k)) /\ (ClosedBehind(k)' => ClosedBehind(k))
    BY <2>1, Numbers DEF ClosedAhead, ClosedBehind
  <2>4. \A k \in Hops : (UpDrained(k) => UpDrained(k)') /\ (DownDrained(k) => DownDrained(k)')
    BY <1>1, <1>2, <2>1, Numbers DEF UpDrained, DownDrained
  <2>. QED
    BY <1>1, <1>3, <2>1, <2>2, <2>3, <2>4 DEF Arrival, Drained
<1>5. CASE DestEnds
  <2>1. UNCHANGED timer /\ FarCloses(Final) /\ end[Final].far = "open"
    BY <1>5, DestEnding DEF Shape, DestEnds
  <2>2. \A k \in Hops, e \in Dirs : Seen(k, e) => Seen(k, e)'
    BY <1>1, <2>1, Numbers DEF Seen, FarCloses
  <2>3. ASSUME NEW k \in Hops
        PROVE  (ClosedAhead(k)' => ClosedAhead(k)) /\ (UpDrained(k) => UpDrained(k)')
    BY <1>1, <2>1, Numbers DEF ClosedAhead, FarCloses, UpDrained
  <2>4. ASSUME ~broken, ~timer, NEW k \in Hops, ClosedBehind(k)'
        PROVE  DownDrained(k)'
    <3>1. CASE k # Final
      <4>1. ClosedBehind(k)
        BY <2>1, <2>4, <3>1, Numbers DEF ClosedBehind, FarCloses
      <4>2. DownDrained(k)
        BY <2>4, <4>1 DEF Arrival, Drained
      <4>. QED
        BY <2>1, <4>2 DEF DownDrained
    <3>2. CASE k = Final
      <4>1. k = 2 /\ Final = 2 /\ handler[2] = "none"
        BY <1>2, <3>2, Numbers
      <4>2. handler[1] # "dial"
        BY <2>1, <4>1, Numbers DEF Shape, Unopened, NothingAhead
      <4>3. data[3].down = <<>> /\ copy[2]["down"].pc # "hold"
        BY <4>1, Numbers, Ways3 DEF Shape, Unopened, NothingAhead
      <4>4. end'[2].far = "closed"
        BY <2>1, <4>1, Numbers DEF FarCloses
      <4>. QED
        BY <1>1, <1>2, <4>1, <4>2, <4>3, <4>4 DEF DownDrained
    <3>. QED
      BY <3>1, <3>2
  <2>. QED
    BY <1>1, <1>3, <2>1, <2>2, <2>3, <2>4 DEF Arrival, Drained
<1>6. CASE TimesOut
  <2>1. UNCHANGED end /\ timer'
    BY <1>6 DEF TimesOut
  <2>2. \A k \in Hops, e \in Dirs : Seen(k, e) => Seen(k, e)'
    BY <1>1, <2>1 DEF Seen
  <2>. QED
    BY <1>3, <2>1, <2>2 DEF Arrival, Drained
<1>. QED
  BY <1>4, <1>5, <1>6

LEMMA LeaveArrival ==
  ASSUME Shape, Arrival, NEW h \in Hops, GivesUp(h) \/ Collected(h)
  PROVE  Arrival'
<1>1. /\ UNCHANGED <<mode, data, copy, timer, broken>> /\ handler[h] \in {"dial", "left"}
      /\ handler'[h] \in {"left", "closed"} /\ \A k \in Hops : k # h => handler'[k] = handler[k]
      /\ (UNCHANGED end /\ handler'[h] = "left") \/ (FarCloses(h) /\ handler'[h] = "closed")
  <2>1. CASE GivesUp(h)
    BY <2>1, GivingUp DEF GivesUp, Shape, SessionTypes
  <2>2. CASE Collected(h)
    BY <2>2, Collecting DEF Collected, Shape, SessionTypes
  <2>. QED
    BY <2>1, <2>2
<1>2. Final' = Final /\ (Final = 2 \/ Final = 3) /\ (handler[2] # "none" => Final = 3)
  BY <1>1 DEF Final, Shape, HopsInTurn, Chained
<1>3. \A l \in Legs : /\ end'[l].near = end[l].near
                      /\ end'[l].far = end[l].far \/ (l = h /\ end'[l].far = "closed" /\ handler'[h] = "closed")
  BY <1>1 DEF FarCloses
<1>4. EndsSeen'
  <2>. SUFFICES ASSUME ~broken, NEW k \in Hops, NEW e \in Dirs, handler'[k] = "wait", Done(k, e)'
                PROVE  Seen(k, e)'
    BY <1>1, EndsSeenIs DEF EndsSeen, From, Seen
  <2>1. Seen(k, e)
    BY <1>1, EndsSeenIs DEF Arrival, Done
  <2>. QED
    BY <1>1, <1>3, <2>1, Numbers DEF Seen
<1>5. ASSUME NEW k \in Hops
      PROVE  (ClosedAhead(k)' => ClosedAhead(k)) /\ (UpDrained(k) => UpDrained(k)')
  BY <1>1, <1>3, Numbers DEF ClosedAhead, UpDrained
<1>6. ASSUME ~broken, ~timer, NEW k \in Hops, ClosedBehind(k)'
      PROVE  DownDrained(k)'
  <2>1. CASE ClosedBehind(k)
    <3>1. DownDrained(k)
      BY <1>6, <2>1 DEF Arrival, Drained
    <3>2. end'[Final].far # "open" /\ handler'[1] # "dial" /\ handler'[2] # "dial"
      BY <1>1, <1>2, <1>3, <3>1, Numbers DEF DownDrained
    <3>. QED
      BY <1>1, <1>2, <3>1, <3>2 DEF DownDrained
  <2>2. CASE ~ClosedBehind(k)
    <3>1. k = h /\ handler'[h] = "closed"
      BY <1>3, <1>6, <2>2, Numbers DEF ClosedBehind
    <3>2. CASE h = 1
      <4>1. handler[2] = "none" /\ NothingAhead(1) /\ NothingAhead(2)
        BY <1>1, <3>2, Numbers DEF Shape, HopsInTurn, Unopened
      <4>2. /\ end[2].far = "none" /\ end[3].far = "none" /\ data[2].down = <<>> /\ data[3].down = <<>>
            /\ copy[1]["down"].pc = "none" /\ copy[2]["down"].pc = "none"
        BY <4>1, Ways3 DEF NothingAhead
      <4>3. end'[Final].far # "open" /\ handler'[1] = "closed" /\ handler'[2] = "none"
        BY <1>1, <1>2, <1>3, <3>1, <3>2, <4>1, <4>2, Numbers
      <4>. QED
        BY <1>1, <1>2, <4>2, <4>3 DEF DownDrained
    <3>3. CASE h = 2
      <4>1. Final = 3 /\ NothingAhead(2) /\ handler[1] # "dial"
        BY <1>1, <1>2, <3>3, Numbers DEF Shape, HopsInTurn, Unopened
      <4>2. end[3].far = "none" /\ data[3].down = <<>> /\ copy[2]["down"].pc = "none"
        BY <4>1, Ways3 DEF NothingAhead
      <4>3. end'[3].far # "open" /\ handler'[1] # "dial" /\ handler'[2] = "closed"
        BY <1>1, <1>3, <3>1, <3>3, <4>1, <4>2, Numbers
      <4>. QED
        BY <1>1, <1>2, <3>1, <3>3, <4>1, <4>2, <4>3 DEF DownDrained
    <3>. QED
      BY <3>2, <3>3, Numbers
  <2>. QED
    BY <2>1, <2>2
<1>. QED
  BY <1>1, <1>4, <1>5, <1>6 DEF Arrival, Drained

\* Which copies have ended when a handler returns before its time.
LEMMA OverIs ==
  ASSUME Shape, NEW h \in Hops, Release(h), ~timer
  PROVE  /\ Done(h, "up") \/ Done(h, "down")
         /\ h = 2 => /\ mode[1] = "tcp" => Done(2, "rest")
                     /\ mode[1] # "tcp" => Done(2, "up") /\ Done(2, "down")
<1>1. mode[2] \in {"direct", "chain"} /\ (h = 2 => Chained)
  BY ModeIs DEF Shape, SessionTypes, HopsInTurn, Release
<1>2. Role(h) = IF mode[2] = "direct" THEN "direct" ELSE IF h = 1 THEN "in" ELSE "out"
  BY DEF Role
<1>3. h = 2 => Role(h) = "out"
  BY <1>1, <1>2 DEF Chained
<1>4. Role(h) = "direct" \/ Role(h) = "in" \/ Role(h) = "out"
  BY <1>1, <1>2
<1>5. CASE mode[1] = "tcp"
  <2>1. TCPOver(h)
    BY <1>5 DEF Release
  <2>. QED
    BY <1>3, <1>5, <2>1 DEF TCPOver
<1>6. CASE mode[1] # "tcp"
  <2>1. TLSOver(h)
    BY <1>6 DEF Release
  <2>2. CASE Role(h) = "direct"
    BY <1>3, <1>6, <2>1, <2>2 DEF TLSOver
  <2>3. CASE Role(h) = "in"
    BY <1>3, <1>6, <2>1, <2>3 DEF TLSOver
  <2>4. CASE Role(h) = "out"
    BY <1>3, <1>6, <2>1, <2>4 DEF TLSOver
  <2>. QED
    BY <1>4, <2>2, <2>3, <2>4
<1>. QED
  BY <1>5, <1>6

LEMMA ReleaseArrival ==
  ASSUME Shape, Arrival, NEW h \in Hops, Release(h)
  PROVE  Arrival'
<1>1. /\ UNCHANGED <<mode, data, copy, timer, broken>> /\ handler[h] = "wait"
      /\ handler'[h] = "closed" /\ \A k \in Hops : k # h => handler'[k] = handler[k]
  BY DEF Release, Shape, SessionTypes
<1>2. Final' = Final /\ (Final = 2 \/ Final = 3)
  BY <1>1 DEF Final
<1>3. BothClose(h) /\ h \in Legs /\ h + 1 \in Legs /\ h # h + 1
  BY Releasing, Numbers DEF Shape
<1>4. end[h].far = "open" /\ end[h + 1].near = "open"
  BY <1>1 DEF Shape, HandlersHold
<1>5. EndsSeen'
  <2>. SUFFICES ASSUME ~broken, NEW k \in Hops, NEW e \in Dirs, handler'[k] = "wait", Done(k, e)'
                PROVE  Seen(k, e)'
    BY <1>1, EndsSeenIs DEF EndsSeen, From, Seen
  <2>1. Seen(k, e)
    BY <1>1, EndsSeenIs DEF Arrival, Done
  <2>2. k \in Legs /\ k + 1 \in Legs
    BY Numbers
  <2>. QED
    BY <1>1, <1>3, <2>1, <2>2 DEF Seen, BothClose
<1>6. ASSUME NEW k \in Hops
      PROVE  /\ UpDrained(k) => UpDrained(k)'
             /\ DownDrained(k) => DownDrained(k)'
             /\ k # h => (ClosedAhead(k)' => ClosedAhead(k)) /\ (ClosedBehind(k)' => ClosedBehind(k))
  <2>1. k \in Legs /\ k + 1 \in Legs /\ 1 \in Legs /\ Final \in Legs /\ (k # h => k + 1 # h + 1)
    BY <1>2, Numbers
  <2>2. UpDrained(k) => UpDrained(k)'
    BY <1>1, <1>3, <2>1 DEF UpDrained, BothClose
  <2>3. handler'[1] # "dial" \/ handler[1] = "dial"
    BY <1>1, Numbers
  <2>4. handler'[2] # "dial" \/ handler[2] = "dial"
    BY <1>1, Numbers
  <2>5. DownDrained(k) => DownDrained(k)'
    BY <1>1, <1>2, <1>3, <2>1, <2>3, <2>4 DEF DownDrained, BothClose
  <2>6. k # h => (ClosedAhead(k)' => ClosedAhead(k)) /\ (ClosedBehind(k)' => ClosedBehind(k))
    BY <1>3, <2>1 DEF ClosedAhead, ClosedBehind, BothClose
  <2>. QED
    BY <2>2, <2>5, <2>6
<1>7. ASSUME ~broken, ~timer, ClosedAhead(h)'
      PROVE  UpDrained(h)'
  <2>1. end[h + 1].far \notin {"half", "closed"}
    BY <1>3, <1>7 DEF ClosedAhead, BothClose, Shape, HalfIsUsers
  <2>2. \A d \in Dirs : Done(h, d) => Seen(h, d)
    BY <1>1, <1>7, EndsSeenIs DEF Arrival
  <2>3. ~Done(h, "down")
    BY <2>1, <2>2, Ways3 DEF Seen
  <2>4. Done(h, "up") /\ end[h].near \in {"half", "closed"} /\ data[h].up = <<>>
    BY <1>7, <2>2, <2>3, OverIs, Ways3 DEF Seen
  <2>5. CASE h = 1
    <3>1. end'[1].near = end[1].near
      BY <1>3, <2>5, Numbers DEF BothClose
    <3>. QED
      BY <1>1, <2>4, <2>5, <3>1 DEF UpDrained, Done
  <2>6. CASE h = 2
    <3>1. end[2].near = "closed" /\ end[2].far # "closed"
      BY <1>4, <2>4, <2>6, Numbers DEF Shape, HalfIsUsers
    <3>2. UpDrained(1)
      <4>1. ClosedAhead(1)
        BY <3>1 DEF ClosedAhead
      <4>. QED
        BY <1>7, <4>1, Numbers DEF Arrival, Drained
    <3>3. copy[2]["rest"].pc # "hold"
      BY <1>7, <2>3, <2>6, OverIs DEF Done
    <3>4. UpDrained(2)
      BY <2>4, <2>6, <3>2, <3>3 DEF UpDrained, Done
    <3>. QED
      BY <1>6, <2>6, <3>4
  <2>. QED
    BY <2>5, <2>6, Numbers
<1>8. ASSUME ~broken, ~timer, ClosedBehind(h)'
      PROVE  DownDrained(h)'
  <2>1. end[h].near \notin {"half", "closed"}
    BY <1>3, <1>8 DEF ClosedBehind, BothClose
  <2>2. \A d \in Dirs : Done(h, d) => Seen(h, d)
    BY <1>1, <1>8, EndsSeenIs DEF Arrival
  <2>3. ~Done(h, "up") /\ ~Done(h, "rest")
    BY <2>1, <2>2, Ways3 DEF Seen
  <2>4. Done(h, "down") /\ h # 2
    BY <1>8, <2>3, OverIs
  <2>5. h = 1 /\ end[2].far = "closed" /\ data[2].down = <<>> /\ end[2].near = "open"
    BY <1>4, <2>2, <2>4, Numbers, Ways3 DEF Seen, Shape, HalfIsUsers
  <2>6. DownDrained(2)
    <3>1. ClosedBehind(2)
      BY <2>5 DEF ClosedBehind
    <3>. QED
      BY <1>8, <3>1, Numbers DEF Arrival, Drained
  <2>7. DownDrained(1)
    BY <2>4, <2>5, <2>6 DEF DownDrained, Done
  <2>. QED
    BY <1>6, <2>5, <2>7
<1>9. Drained'
  <2>. SUFFICES ASSUME ~broken, ~timer, NEW k \in Hops
                PROVE  (ClosedAhead(k)' => UpDrained(k)') /\ (ClosedBehind(k)' => DownDrained(k)')
    BY <1>1 DEF Drained
  <2>1. CASE k = h
    BY <1>7, <1>8, <2>1
  <2>2. CASE k # h
    BY <1>6, <2>2 DEF Arrival, Drained
  <2>. QED
    BY <2>1, <2>2
<1>. QED
  BY <1>5, <1>9 DEF Arrival

LEMMA DialArrival ==
  ASSUME Shape, Arrival, DialChain \/ estabFromHeader \/ \E h \in Hops : DialDest(h)
  PROVE  Arrival'
<1>1. UNCHANGED <<mode, timer, broken>>
  BY DEF DialChain, estabFromHeader, DialDest
<1>2. CASE DialChain \/ \E h \in Hops : DialDest(h)
  <2>1. Dialling(1) /\ handler[1] = "dial" /\ handler[2] = "none" /\ handler'[2] # "wait"
    BY <1>2, ChainDial, DirectDial
  <2>2. \A l \in Legs : end'[l] = IF l = 2 THEN [near |-> "open", far |-> "open"] ELSE end[l]
    BY <2>1 DEF Dialling, EndBecomes
  <2>3. end[1].far = "open" /\ end[3].near = "none"
    BY <2>1, Numbers DEF Shape, HandlersHold, Unopened, NothingAhead
  <2>4. end'[1].far = "open" /\ end'[2].near = "open" /\ end'[2].far = "open" /\ end'[3].near = "none"
    BY <2>2, <2>3, Numbers
  <2>5. \A k \in Hops : ~ClosedAhead(k)' /\ ~ClosedBehind(k)'
    BY <2>4, Numbers DEF ClosedAhead, ClosedBehind
  <2>6. \A d \in Dirs : ~Done(1, d)'
    BY <2>1, Numbers DEF Dialling, Done
  <2>7. EndsSeen'
    BY <2>1, <2>6, Numbers DEF EndsSeen
  <2>. QED
    BY <2>5, <2>7 DEF Arrival, Drained
<1>3. CASE estabFromHeader
  <2>1. /\ Dialling(2) /\ LaneBecomes(2, "up", Tail(data[2].up))
        /\ handler[2] = "dial" /\ handler'[2] = "wait" /\ handler'[1] = handler[1]
    BY <1>3, HeaderDial
  <2>2. \A l \in Legs : end'[l] = IF l = 3 THEN [near |-> "open", far |-> "open"] ELSE end[l]
    BY <2>1 DEF Dialling, EndBecomes
  <2>3. end'[1] = end[1] /\ end'[2] = end[2] /\ end'[3].near = "open" /\ end[2].far = "open"
    BY <2>1, <2>2, Numbers DEF Shape, HandlersHold
  <2>4. /\ \A d \in Dirs : copy'[1][d] = copy[1][d] /\ ~Done(2, d)'
        /\ data'[1].up = data[1].up /\ data'[2].down = data[2].down
    BY <2>1, Numbers, Ways3 DEF Dialling, LaneBecomes, Done
  <2>5. EndsSeen'
    <3>. SUFFICES ASSUME ~broken, NEW k \in Hops, NEW e \in Dirs, handler'[k] = "wait", Done(k, e)'
                  PROVE  Seen(k, e)'
      BY <1>1, EndsSeenIs DEF EndsSeen, From, Seen
    <3>1. k = 1 /\ Done(1, e)
      BY <2>4, Numbers DEF Done
    <3>2. Seen(1, e)
      BY <2>1, <3>1, EndsSeenIs, Numbers DEF Arrival
    <3>. QED
      BY <2>3, <2>4, <3>1, <3>2 DEF Seen
  <2>6. ~ClosedAhead(2)' /\ ~ClosedBehind(2)'
    BY <2>3 DEF ClosedAhead, ClosedBehind
  <2>7. ~broken /\ ~timer /\ ClosedAhead(1)' => UpDrained(1)'
    <3>1. ClosedAhead(1)' => ClosedAhead(1)
      BY <2>3 DEF ClosedAhead
    <3>2. UpDrained(1) => UpDrained(1)'
      BY <2>3, <2>4, Ways3 DEF UpDrained
    <3>. QED
      BY <3>1, <3>2, Numbers DEF Arrival, Drained
  <2>8. ~broken /\ ~timer => ~ClosedBehind(1)'
    <3>1. ClosedBehind(1)' => ClosedBehind(1)
      BY <2>3 DEF ClosedBehind
    <3>. QED
      BY <2>1, <3>1, Numbers DEF Arrival, Drained, DownDrained
  <2>9. Drained'
    BY <1>1, <2>6, <2>7, <2>8, Numbers DEF Drained
  <2>. QED
    BY <2>5, <2>9 DEF Arrival
<1>. QED
  BY <1>2, <1>3

LEMMA ArrivalKept ==
  ASSUME Shape, Arrival, [Next]_vars
  PROVE  Arrival'
<1>1. CASE Ends
  BY <1>1, TalkArrival, HangUpArrival DEF Ends
<1>2. CASE Dials
  BY <1>2, DialArrival, LeaveArrival DEF Dials
<1>3. CASE TimesOut
  BY <1>3, HangUpArrival
<1>4. ASSUME NEW h \in Hops, Collected(h) \/ Release(h)
      PROVE  Arrival'
  BY <1>4, LeaveArrival, ReleaseArrival
<1>5. ASSUME NEW h \in Hops, NEW d \in Dirs, copyConn(h, d)
      PROVE  Arrival'
  BY <1>5, ReadArrival, WriteArrival, EndArrival, BreakArrival DEF copyConn
<1>6. CASE UNCHANGED vars
  <2>1. UNCHANGED <<mode, end, data, handler, copy, timer, broken>>
    BY <1>6 DEF vars
  <2>2. EndsSeen'
    <3>. SUFFICES ASSUME ~broken, NEW k \in Hops, NEW e \in Dirs, handler[k] = "wait", Done(k, e)'
                  PROVE  Seen(k, e)'
      BY <2>1, EndsSeenIs DEF EndsSeen, From, Seen
    <3>. QED
      BY <2>1, EndsSeenIs DEF Arrival, Done, Seen
  <2>3. Drained'
    BY <2>1 DEF Arrival, Drained, ClosedAhead, ClosedBehind, UpDrained, DownDrained, Final
  <2>. QED
    BY <2>2, <2>3 DEF Arrival
<1>. QED
  BY <1>1, <1>2, <1>3, <1>4, <1>5, <1>6 DEF Next

LEMMA InitArrival == Init => Arrival
<1>. SUFFICES ASSUME Init PROVE Arrival
  OBVIOUS
<1>1. \A h \in Hops, d \in Dirs : ~Done(h, d)
  BY DEF Init, Done, NoCopy
<1>2. end[1].far = "open" /\ end[2].near = "none" /\ end[2].far = "none" /\ end[3].near = "none"
  BY Numbers DEF Init
<1>3. \A h \in Hops : ~ClosedAhead(h) /\ ~ClosedBehind(h)
  BY <1>2, Numbers DEF ClosedAhead, ClosedBehind
<1>. QED
  BY <1>1, <1>3 DEF Arrival, EndsSeen, Drained

LEMMA ArrivalIsFlow ==
  ASSUME Shape, Flow, Arrival
  PROVE  AllArrives
<1>. SUFFICES ASSUME ~broken, ~timer
              PROVE  /\ /\ end[Final].far = "open" /\ end[Final].near = "closed" /\ data[Final].up = <<>>
                        => Len(got.dest) = sent.user
                     /\ /\ end[1].near = "open" /\ end[1].far = "closed" /\ data[1].down = <<>>
                        => Len(got.user) = sent.dest
  BY DEF AllArrives
<1>1. PICK u1, u2, u3, d1, d2, d3, hu, hd, ku, kd, kr, gd, gu, z \in Nat :
        Places(u1, u2, u3, d1, d2, d3, hu, hd, ku, kd, kr, gd, gu, z) /\ z <= u2
  BY PlacesAre, Zenon
<1>2. PICK s, r \in Nat : s = sent.user /\ r = sent.dest
  BY DEF Shape, SessionTypes
<1>3. gd + u3 + ku + kr + (u2 - z) + hu + u1 = s /\ gu + d1 + hd + (d2 + kd + d3) = r
  BY <1>1, <1>2, SumsAre DEF Flow
<1>4. /\ data[1].up = <<>> => u1 = 0
      /\ data[2].up = <<>> => u2 = 0
      /\ data[3].up = <<>> => u3 = 0
      /\ data[1].down = <<>> => d1 = 0
      /\ data[2].down = <<>> => d2 = 0
      /\ data[3].down = <<>> => d3 = 0
  BY <1>1, EmptySeq DEF Places, InLane
<1>5. /\ copy[1]["up"].pc # "hold" => hu = 0
      /\ copy[1]["down"].pc # "hold" => hd = 0
      /\ copy[2]["up"].pc # "hold" => ku = 0
      /\ copy[2]["down"].pc # "hold" => kd = 0
      /\ copy[2]["rest"].pc # "hold" => kr = 0
  BY <1>1 DEF Places, Held
<1>6. ASSUME end[Final].far = "open", end[Final].near = "closed", data[Final].up = <<>>
      PROVE  Len(got.dest) = sent.user
  <2>1. /\ data[1].up = <<>> /\ data[2].up = <<>> /\ data[3].up = <<>>
        /\ copy[1]["up"].pc # "hold" /\ copy[2]["up"].pc # "hold" /\ copy[2]["rest"].pc # "hold"
    <3>1. CASE Final = 2
      <4>1. handler[2] = "none"
        BY <3>1 DEF Final, Shape, HopsInTurn, Chained
      <4>2. data[3].up = <<>> /\ copy[2]["up"].pc = "none" /\ copy[2]["rest"].pc = "none"
        BY <4>1, Numbers, Ways3 DEF Shape, Unopened, NothingAhead
      <4>3. UpDrained(1)
        BY <1>6, <3>1, Numbers DEF Arrival, Drained, ClosedAhead
      <4>. QED
        BY <1>6, <3>1, <4>2, <4>3 DEF UpDrained
    <3>2. CASE Final = 3
      <4>1. UpDrained(2)
        BY <1>6, <3>2, Numbers DEF Arrival, Drained, ClosedAhead
      <4>. QED
        BY <1>6, <3>2, <4>1 DEF UpDrained
    <3>. QED
      BY <3>1, <3>2 DEF Final
  <2>2. u1 = 0 /\ u2 = 0 /\ u3 = 0 /\ hu = 0 /\ ku = 0 /\ kr = 0
    BY <1>4, <1>5, <2>1
  <2>3. gd = s
    BY <1>1, <1>3, <2>2
  <2>. QED
    BY <1>1, <1>2, <2>3 DEF Places
<1>7. ASSUME end[1].near = "open", end[1].far = "closed", data[1].down = <<>>
      PROVE  Len(got.user) = sent.dest
  <2>1. DownDrained(1)
    BY <1>7, Numbers DEF Arrival, Drained, ClosedBehind
  <2>2. d1 = 0 /\ d2 = 0 /\ d3 = 0 /\ hd = 0 /\ kd = 0
    BY <1>4, <1>5, <1>7, <2>1 DEF DownDrained
  <2>3. gu = r
    BY <1>1, <1>3, <2>2
  <2>. QED
    BY <1>1, <1>2, <2>3 DEF Places
<1>. QED
  BY <1>6, <1>7

-----------------------------------------------------------------------------
(* In what order the chunks are. *)

\* s holds the chunks a + 1 to b in their order, behind z that are none.
Run(s, z, a, b) == a <= b /\ Len(s) = z + (b - a) /\ \A i \in 1 .. Len(s) : i > z => s[i] = a + (i - z)

LEMMA RunAppend ==
  ASSUME NEW s \in Seq(Nat), NEW z \in Nat, NEW a \in Nat, NEW b \in Nat, Run(s, z, a, b)
  PROVE  Run(Append(s, b + 1), z, a, b + 1)
<1>1. PICK t : t = Append(s, b + 1)
  OBVIOUS
<1>2. PICK n \in Nat : n = Len(s)
  OBVIOUS
<1>3. Len(t) = n + 1 /\ t[n + 1] = b + 1 /\ \A i \in 1 .. n : t[i] = s[i]
  BY <1>1, <1>2, ChunkWritten
<1>4. a <= b /\ n = z + (b - a) /\ \A i \in 1 .. n : i > z => s[i] = a + (i - z)
  BY <1>2 DEF Run
<1>5. ASSUME NEW i \in 1 .. n + 1, i > z
      PROVE  t[i] = a + (i - z)
  <2>1. CASE i = n + 1
    BY <1>3, <1>4, <2>1
  <2>2. CASE i # n + 1
    <3>1. i \in 1 .. n
      BY <2>2
    <3>. QED
      BY <1>3, <1>4, <1>5, <3>1
  <2>. QED
    BY <2>1, <2>2
<1>6. a <= b + 1 /\ n + 1 = z + ((b + 1) - a)
  BY <1>4
<1>7. Run(t, z, a, b + 1)
  BY <1>3, <1>5, <1>6, Zenon DEF Run
<1>. QED
  BY <1>1, <1>7

LEMMA RunTail ==
  ASSUME NEW s \in Seq(Nat), NEW a \in Nat, NEW b \in Nat, Run(s, 0, a, b), s # <<>>
  PROVE  Head(s) = a + 1 /\ Run(Tail(s), 0, a + 1, b)
<1>1. PICK t : t = Tail(s)
  OBVIOUS
<1>2. PICK n \in Nat : n = Len(s)
  OBVIOUS
<1>3. Len(t) = n - 1 /\ n > 0 /\ \A i \in 1 .. n - 1 : t[i] = s[i + 1]
  BY <1>1, <1>2, ChunkRead
<1>4. a <= b /\ n = b - a /\ \A i \in 1 .. n : s[i] = a + i
  BY <1>2 DEF Run
<1>5. Head(s) = s[1]
  OBVIOUS
<1>6. Head(s) = a + 1
  BY <1>3, <1>4, <1>5
<1>7. ASSUME NEW i \in 1 .. n - 1
      PROVE  t[i] = (a + 1) + (i - 0)
  <2>1. i + 1 \in 1 .. n /\ t[i] = s[i + 1]
    BY <1>3
  <2>. QED
    BY <1>4, <2>1
<1>8. a + 1 <= b /\ n - 1 = 0 + (b - (a + 1))
  BY <1>3, <1>4
<1>. QED
  BY <1>1, <1>3, <1>6, <1>7, <1>8 DEF Run

LEMMA RunSkip ==
  ASSUME NEW s \in Seq(Nat), NEW a \in Nat, NEW b \in Nat, Run(s, 1, a, b)
  PROVE  Run(Tail(s), 0, a, b)
<1>1. PICK t : t = Tail(s)
  OBVIOUS
<1>2. PICK n \in Nat : n = Len(s)
  OBVIOUS
<1>3. a <= b /\ n = 1 + (b - a) /\ \A i \in 1 .. n : i > 1 => s[i] = a + (i - 1)
  BY <1>2 DEF Run
<1>4. s # <<>>
  <2>1. n # 0
    BY <1>3
  <2>2. Len(<<>>) = 0
    OBVIOUS
  <2>. QED
    BY <1>2, <2>1, <2>2
<1>5. Len(t) = n - 1 /\ \A i \in 1 .. n - 1 : t[i] = s[i + 1]
  BY <1>1, <1>2, <1>4, ChunkRead
<1>6. ASSUME NEW i \in 1 .. n - 1
      PROVE  t[i] = a + (i - 0)
  <2>1. i + 1 \in 1 .. n /\ i + 1 > 1 /\ t[i] = s[i + 1]
    BY <1>5
  <2>2. s[i + 1] = a + ((i + 1) - 1)
    BY <1>3, <2>1
  <2>. QED
    BY <2>1, <2>2
<1>7. a <= b /\ n - 1 = 0 + (b - a)
  BY <1>3
<1>. QED
  BY <1>1, <1>5, <1>6, <1>7 DEF Run

LEMMA RunNone ==
  /\ \A a \in Nat : Run(<<>>, 0, a, a) /\ Run(<<Header>>, 1, a, a)
  /\ \A a \in Nat, b \in Nat : Run(<<>>, 0, a, b) => a = b
<1>1. Len(<<>>) = 0 /\ Len(<<Header>>) = 1
  OBVIOUS
<1>. QED
  BY <1>1 DEF Run

LEMMA RunIsPrefix ==
  ASSUME NEW s \in Seq(Nat), NEW b \in Nat, NEW n \in Nat, Run(s, 0, 0, b), b <= n
  PROVE  IsPrefix(s, Stream(n))
<1>1. Len(s) = b /\ \A i \in 1 .. b : s[i] = i
  BY DEF Run
<1>2. PICK t : t = Stream(n)
  OBVIOUS
<1>3. t \in Seq(Nat) /\ Len(t) = n /\ \A i \in 1 .. n : t[i] = i
  BY <1>2 DEF Stream
<1>4. SubSeq(s, 1, b) = [i \in 1 .. b |-> s[i]] /\ SubSeq(t, 1, b) = [i \in 1 .. b |-> t[i]]
  BY <1>1, <1>3
<1>5. \A i \in 1 .. b : s[i] = t[i]
  BY <1>1, <1>3
<1>6. SubSeq(s, 1, b) = SubSeq(t, 1, b)
  BY <1>4, <1>5
<1>. QED
  BY <1>1, <1>2, <1>3, <1>6 DEF IsPrefix

\* A sequence of which no chunk is twice.
LEMMA DistinctAppend ==
  ASSUME NEW s \in Seq(Nat), NEW c \in Nat, IsInjective(s), c \notin ToSet(s)
  PROVE  IsInjective(Append(s, c)) /\ ToSet(Append(s, c)) = ToSet(s) \cup {c}
<1>1. PICK t : t = Append(s, c)
  OBVIOUS
<1>2. PICK n \in Nat : n = Len(s)
  OBVIOUS
<1>3. t \in Seq(Nat) /\ Len(t) = n + 1 /\ t[n + 1] = c /\ \A i \in 1 .. n : t[i] = s[i]
  BY <1>1, <1>2, ChunkWritten
<1>4. DOMAIN t = 1 .. n + 1 /\ DOMAIN s = 1 .. n
  BY <1>2, <1>3
<1>5. \A i \in 1 .. n + 1 : i \in 1 .. n \/ i = n + 1
  OBVIOUS
<1>6. \A i \in 1 .. n : i \in 1 .. n + 1
  OBVIOUS
<1>7. n + 1 \in 1 .. n + 1
  OBVIOUS
<1>8. ToSet(t) = ToSet(s) \cup {c}
  BY <1>3, <1>4, <1>5, <1>6, <1>7 DEF ToSet
<1>9. \A i \in 1 .. n : s[i] # c
  BY <1>4 DEF ToSet
<1>10. IsInjective(t)
  BY <1>3, <1>4, <1>5, <1>9 DEF IsInjective
<1>. QED
  BY <1>1, <1>8, <1>10

LEMMA DistinctTail ==
  ASSUME NEW s \in Seq(Nat), s # <<>>, IsInjective(s)
  PROVE  /\ IsInjective(Tail(s)) /\ Head(s) \notin ToSet(Tail(s))
         /\ ToSet(s) = ToSet(Tail(s)) \cup {Head(s)}
<1>1. PICK t : t = Tail(s)
  OBVIOUS
<1>2. PICK n \in Nat : n = Len(s)
  OBVIOUS
<1>3. t \in Seq(Nat) /\ Len(t) = n - 1 /\ n > 0 /\ \A i \in 1 .. n - 1 : t[i] = s[i + 1]
  BY <1>1, <1>2, ChunkRead
<1>4. DOMAIN t = 1 .. n - 1 /\ DOMAIN s = 1 .. n /\ Head(s) = s[1] /\ 1 \in 1 .. n
  BY <1>2, <1>3
<1>5. \A i \in 1 .. n - 1 : i + 1 \in 1 .. n /\ i + 1 # 1
  BY <1>3
<1>6. \A i, j \in 1 .. n - 1 : i + 1 = j + 1 => i = j
  OBVIOUS
<1>7. IsInjective(t)
  <2>. SUFFICES ASSUME NEW i \in 1 .. n - 1, NEW j \in 1 .. n - 1, t[i] = t[j]
                PROVE  i = j
    BY <1>4 DEF IsInjective
  <2>1. s[i + 1] = s[j + 1] /\ i + 1 \in 1 .. n /\ j + 1 \in 1 .. n
    BY <1>3, <1>5
  <2>2. i + 1 = j + 1
    BY <1>4, <2>1 DEF IsInjective
  <2>. QED
    BY <1>6, <2>2
<1>8. Head(s) \notin ToSet(t)
  <2>. SUFFICES ASSUME NEW i \in 1 .. n - 1, t[i] = Head(s)
                PROVE  FALSE
    BY <1>4 DEF ToSet
  <2>1. s[i + 1] = s[1] /\ i + 1 \in 1 .. n /\ i + 1 # 1
    BY <1>3, <1>4, <1>5
  <2>. QED
    BY <1>4, <2>1 DEF IsInjective
<1>9. \A x : x \in ToSet(t) => x \in ToSet(s)
  BY <1>3, <1>4, <1>5 DEF ToSet
<1>10. ASSUME NEW x \in ToSet(s)
       PROVE  x \in ToSet(t) \/ x = Head(s)
  <2>1. PICK i \in 1 .. n : x = s[i]
    BY <1>4 DEF ToSet
  <2>2. CASE i = 1
    BY <1>4, <2>1, <2>2
  <2>3. CASE i # 1
    <3>1. i - 1 \in 1 .. n - 1 /\ (i - 1) + 1 = i
      BY <2>3
    <3>2. t[i - 1] = s[i]
      BY <1>3, <3>1
    <3>. QED
      BY <1>4, <2>1, <3>1, <3>2 DEF ToSet
  <2>. QED
    BY <2>2, <2>3
<1>11. Head(s) \in ToSet(s)
  BY <1>4 DEF ToSet
<1>. QED
  BY <1>1, <1>7, <1>8, <1>9, <1>10, <1>11

-----------------------------------------------------------------------------
(* How two lanes joined by a copy go together. *)

Alive(l) == end[l].near # "closed" /\ end[l].far # "closed"

\* The leg a copy writes to is closed at neither end: else it loses what it holds.
Intact(h, d) == handler[h] # "none" => Alive(IF d = "down" THEN h ELSE h + 1)

\* What copy d of hop h reads next comes after a, what it has written ends at b.
Joins(h, d, b, a) ==
  /\ b <= a
  /\ Intact(h, d) => b + Held(h, d) = a /\ (copy[h][d].pc = "hold" => copy[h][d].chunk = a)

LEMMA JoinsStill ==
  ASSUME NEW h, NEW d, NEW b \in Nat, NEW a \in Nat, Joins(h, d, b, a), Intact(h, d)' => Intact(h, d),
         Intact(h, d)' => /\ copy'[h][d].pc = "hold" <=> copy[h][d].pc = "hold"
                          /\ copy'[h][d].pc = "hold" => copy'[h][d].chunk = copy[h][d].chunk
  PROVE  Joins(h, d, b, a)'
BY DEF Joins, Held

LEMMA JoinsReading ==
  ASSUME NEW h, NEW d, NEW b \in Nat, NEW a \in Nat, Joins(h, d, b, a), Intact(h, d)' => Intact(h, d),
         copy[h][d].pc # "hold", copy'[h][d].pc = "hold", copy'[h][d].chunk = a + 1
  PROVE  Joins(h, d, b, a + 1)'
<1>1. Held(h, d) = 0 /\ Held(h, d)' = 1
  BY DEF Held
<1>. QED
  BY <1>1 DEF Joins

LEMMA JoinsWriting ==
  ASSUME NEW h, NEW d, NEW b \in Nat, NEW a \in Nat, Joins(h, d, b, a), Intact(h, d),
         copy[h][d].pc = "hold", copy'[h][d].pc # "hold"
  PROVE  copy[h][d].chunk = b + 1 /\ Joins(h, d, b + 1, a)'
<1>1. Held(h, d) = 1 /\ Held(h, d)' = 0
  BY DEF Held
<1>2. b + 1 = a /\ copy[h][d].chunk = a
  BY <1>1 DEF Joins
<1>. QED
  BY <1>1, <1>2 DEF Joins

\* A connection closed at one end stays so, and a hop that has dialled has dialled.
LEMMA StaysClosed ==
  ASSUME Shape, [Next]_vars
  PROVE  /\ \A l \in Legs : Alive(l)' => Alive(l)
         /\ \A h \in Hops : handler[h] # "none" => handler'[h] # "none"
<1>1. ASSUME NEW e, e \in {"half", "closed"}, UserEnds, NearBecomes(1, e)
      PROVE  \A l \in Legs : Alive(l)' => Alive(l)
  BY <1>1 DEF NearBecomes, Alive, UserEnds
<1>2. ASSUME NEW L, FarCloses(L)
      PROVE  \A l \in Legs : Alive(l)' => Alive(l)
  BY <1>2 DEF FarCloses, Alive
<1>3. ASSUME NEW h \in Hops, BothClose(h)
      PROVE  \A l \in Legs : Alive(l)' => Alive(l)
  BY <1>3 DEF BothClose, Alive
<1>4. ASSUME NEW h \in Hops, Dialling(h), NothingAhead(h)
      PROVE  \A l \in Legs : Alive(l)' => Alive(l)
  BY <1>4 DEF Dialling, EndBecomes, NothingAhead, Alive
<1>5. ASSUME UNCHANGED <<end, handler>>
      PROVE  /\ \A l \in Legs : Alive(l)' => Alive(l)
             /\ \A h \in Hops : handler[h] # "none" => handler'[h] # "none"
  BY <1>5 DEF Alive
<1>6. CASE Ends
  <2>1. CASE UserEnds
    BY <1>1, <2>1, UserEnding DEF Shape, UserEnds
  <2>2. CASE DestEnds
    BY <1>2, <2>2, DestEnding DEF Shape, DestEnds
  <2>3. CASE UserSends \/ UserReads \/ DestSends \/ DestReads
    BY <1>5, <2>3 DEF UserSends, UserReads, DestSends, DestReads
  <2>. QED
    BY <1>6, <2>1, <2>2, <2>3 DEF Ends
<1>7. CASE DialChain \/ \E h \in Hops : DialDest(h)
  <2>1. Dialling(1) /\ handler[1] = "dial" /\ handler'[1] = "wait" /\ handler[2] = "none"
    BY <1>7, ChainDial, DirectDial
  <2>2. NothingAhead(1)
    BY <2>1, Numbers DEF Shape, Unopened
  <2>. QED
    BY <1>4, <2>1, <2>2, Numbers
<1>8. CASE estabFromHeader
  <2>1. Dialling(2) /\ handler[2] = "dial" /\ handler'[2] = "wait" /\ handler'[1] = handler[1]
    BY <1>8, HeaderDial
  <2>2. NothingAhead(2)
    BY <2>1, Numbers DEF Shape, Unopened
  <2>. QED
    BY <1>4, <2>1, <2>2, Numbers
<1>9. ASSUME NEW h \in Hops, GivesUp(h) \/ Collected(h) \/ Release(h)
      PROVE  /\ \A l \in Legs : Alive(l)' => Alive(l)
             /\ \A k \in Hops : handler[k] # "none" => handler'[k] # "none"
  <2>1. \A k \in Hops : handler[k] # "none" => handler'[k] # "none"
    BY <1>9 DEF GivesUp, Collected, Release, Shape, SessionTypes
  <2>2. FarCloses(h) \/ BothClose(h) \/ UNCHANGED end
    BY <1>9, GivingUp, Collecting, Releasing DEF Shape
  <2>3. UNCHANGED end => \A l \in Legs : Alive(l)' => Alive(l)
    BY DEF Alive
  <2>. QED
    BY <1>2, <1>3, <2>1, <2>2, <2>3
<1>10. CASE Dials
  BY <1>7, <1>8, <1>9, <1>10 DEF Dials
<1>11. ASSUME NEW h \in Hops, NEW d \in Dirs, copyConn(h, d)
       PROVE  UNCHANGED <<end, handler>>
  BY <1>11 DEF copyConn, CopyReads, CopyEnds, CopyWrites, CopyBreaks
<1>12. CASE TimesOut \/ UNCHANGED vars
  BY <1>5, <1>12 DEF TimesOut, vars
<1>. QED
  BY <1>5, <1>6, <1>9, <1>10, <1>11, <1>12 DEF Next

LEMMA StaysBroken ==
  ASSUME Shape, [Next]_vars, NEW h \in Hops, NEW d \in Dirs, Intact(h, d)'
  PROVE  Intact(h, d)
BY StaysClosed, Numbers DEF Intact

\* What a copy holds is what it held, and it drops nothing unless the leg it writes to is closed.
Holds(h, d) ==
  /\ copy'[h][d].pc = "hold" => copy[h][d].pc = "hold" /\ copy'[h][d].chunk = copy[h][d].chunk
  /\ Intact(h, d)' /\ copy[h][d].pc = "hold" => copy'[h][d].pc = "hold"

\* No chunk is read or written by copy d of hop h.
LEMMA OthersHold ==
  ASSUME Shape, [Next]_vars, NEW h \in Hops, NEW d \in Dirs, ~CopyReads(h, d), ~CopyWrites(h, d)
  PROVE  Holds(h, d)
<1>1. ASSUME copy'[h][d] = copy[h][d]
      PROVE  Holds(h, d)
  BY <1>1 DEF Holds
<1>2. CASE Ends \/ TimesOut \/ UNCHANGED vars
  BY <1>1, <1>2 DEF Ends, UserSends, UserEnds, UserReads, DestSends, DestEnds, DestReads, TimesOut, vars
<1>3. ASSUME NEW k \in Hops, Dialling(k), NothingAhead(k)
      PROVE  Holds(h, d)
  BY <1>3 DEF Dialling, NothingAhead, Holds
<1>4. CASE DialChain \/ estabFromHeader \/ \E k \in Hops : DialDest(k)
  <2>1. (Dialling(1) /\ handler[1] = "dial") \/ (Dialling(2) /\ handler[2] = "dial")
    BY <1>4, ChainDial, HeaderDial, DirectDial
  <2>. QED
    BY <1>3, <2>1, Numbers DEF Shape, Unopened
<1>5. ASSUME NEW k \in Hops, GivesUp(k) \/ Collected(k) \/ Release(k)
      PROVE  Holds(h, d)
  BY <1>1, <1>5 DEF GivesUp, Collected, Release
<1>6. ASSUME NEW k \in Hops, NEW e \in Dirs, NEW c, CopyBecomes(k, e, c), k # h \/ e # d
      PROVE  Holds(h, d)
  BY <1>1, <1>6 DEF CopyBecomes
<1>7. ASSUME NEW k \in Hops, NEW e \in Dirs, CopyReads(k, e)
      PROVE  Holds(h, d)
  BY <1>6, <1>7, ReadAt
<1>8. ASSUME NEW k \in Hops, NEW e \in Dirs, CopyWrites(k, e)
      PROVE  Holds(h, d)
  BY <1>6, <1>8, WriteAt
<1>9. ASSUME NEW k \in Hops, NEW e \in Dirs, CopyEnds(k, e)
      PROVE  Holds(h, d)
  <2>1. PICK c : CopyBecomes(k, e, c) /\ c.pc = "done" /\ copy[k][e].pc = "read"
    <3>1. [pc |-> "done", chunk |-> copy[k][e].chunk].pc = "done"
      OBVIOUS
    <3>2. CopyBecomes(k, e, [pc |-> "done", chunk |-> copy[k][e].chunk])
      BY <1>9, Ending DEF Shape
    <3>. QED
      BY <1>9, <3>1, <3>2 DEF CopyEnds
  <2>. QED
    BY <1>6, <2>1 DEF Holds, CopyBecomes
<1>10. ASSUME NEW k \in Hops, NEW e \in Dirs, CopyBreaks(k, e)
       PROVE  Holds(h, d)
  <2>1. CASE k # h \/ e # d
    BY <1>6, <1>10, <2>1, Breaking DEF Shape
  <2>2. CASE k = h /\ e = d
    <3>1. PICK t : t = To(h, d)
      OBVIOUS
    <3>2. /\ t.leg = (IF d = "down" THEN h ELSE h + 1)
          /\ t.own = (IF d = "down" THEN "far" ELSE "near") /\ t.peer = (IF d = "down" THEN "near" ELSE "far")
      BY <3>1, SourceIs
    <3>3. "closed" \in {end[t.leg][t.own], end[t.leg][t.peer]} /\ UNCHANGED <<end, handler>> /\ copy[h][d].pc = "hold"
      BY <1>10, <2>2, <3>1 DEF CopyBreaks
    <3>4. ~Alive(IF d = "down" THEN h ELSE h + 1)'
      BY <3>2, <3>3 DEF Alive
    <3>5. handler[h] # "none"
      BY <3>3 DEF Shape, Unopened, NothingAhead
    <3>6. copy'[h][d].pc # "hold"
      <4>1. [pc |-> "done", chunk |-> 0].pc # "hold" /\ [pc |-> "read", chunk |-> 0].pc # "hold"
        OBVIOUS
      <4>2. copy'[h][d] = [pc |-> "done", chunk |-> 0] \/ copy'[h][d] = [pc |-> "read", chunk |-> 0]
        BY <1>10, <2>2, Breaking DEF Shape, CopyBecomes
      <4>. QED
        BY <4>1, <4>2
    <3>. QED
      BY <3>3, <3>4, <3>5, <3>6 DEF Holds, Intact
  <2>. QED
    BY <2>1, <2>2
<1>11. CASE Dials
  BY <1>4, <1>5, <1>11 DEF Dials
<1>. QED
  BY <1>2, <1>5, <1>7, <1>8, <1>9, <1>10, <1>11 DEF Next, copyConn

LEMMA JoinsKept ==
  ASSUME Shape, [Next]_vars, NEW h \in Hops, NEW d \in Dirs, NEW b \in Nat, NEW a \in Nat,
         Joins(h, d, b, a), ~CopyReads(h, d), ~CopyWrites(h, d)
  PROVE  Joins(h, d, b, a)'
BY OthersHold, StaysBroken, JoinsStill DEF Holds

LEMMA JoinsRead ==
  ASSUME Shape, NEW h \in Hops, NEW d \in Dirs, NEW b \in Nat, NEW a \in Nat, Joins(h, d, b, a),
         CopyReads(h, d), NEW c, CopyBecomes(h, d, c), c.pc = "hold", c.chunk = a + 1
  PROVE  Joins(h, d, b, a + 1)'
<1>1. copy[h][d].pc = "read" /\ UNCHANGED <<end, handler>>
  BY DEF CopyReads
<1>2. copy'[h][d].pc = "hold" /\ copy'[h][d].chunk = a + 1
  BY DEF CopyBecomes
<1>3. Intact(h, d)' => Intact(h, d)
  BY <1>1 DEF Intact, Alive
<1>. QED
  BY <1>1, <1>2, <1>3, JoinsReading

LEMMA JoinsWrite ==
  ASSUME Shape, NEW h \in Hops, NEW d \in Dirs, NEW b \in Nat, NEW a \in Nat, Joins(h, d, b, a),
         CopyWrites(h, d)
  PROVE  copy[h][d].chunk = b + 1 /\ Joins(h, d, b + 1, a)'
<1>1. PICK L, c :
        /\ L \in Legs
        /\ L = (IF d = "down" THEN h ELSE h + 1) /\ c.pc = "read" /\ CopyBecomes(h, d, c)
        /\ end[L].near # "closed" /\ end[L].far # "closed"
  BY WriteAt
<1>2. Intact(h, d)
  BY <1>1 DEF Intact, Alive
<1>3. copy[h][d].pc = "hold" /\ copy'[h][d].pc # "hold"
  BY <1>1 DEF CopyBecomes, CopyWrites
<1>. QED
  BY <1>2, <1>3, JoinsWriting

-----------------------------------------------------------------------------
(* The destination's stream, lane by lane from the user. *)

DownAt(a1, b1, a2, b2, a3) ==
  /\ Run(got.user, 0, 0, a1) /\ Run(data[1].down, 0, a1, b1)
  /\ Joins(1, "down", b1, a2) /\ Run(data[2].down, 0, a2, b2)
  /\ Joins(2, "down", b2, a3) /\ Run(data[3].down, 0, a3, sent.dest)

DownInOrder == \E a1, b1, a2, b2, a3 \in Nat : DownAt(a1, b1, a2, b2, a3)

LEMMA LaneTypes ==
  ASSUME Shape
  PROVE  /\ \A l \in Legs : data[l].up \in Seq(Nat) /\ data[l].down \in Seq(Nat)
         /\ got.user \in Seq(Nat) /\ got.dest \in Seq(Nat) /\ sent.user \in Nat /\ sent.dest \in Nat
BY DEF Shape, SessionTypes

LEMMA DownStays ==
  ASSUME Shape, [Next]_vars, ~UserReads, ~DestSends,
         \A h \in Hops : ~CopyReads(h, "down") /\ ~CopyWrites(h, "down")
  PROVE  got'.user = got.user /\ sent'.dest = sent.dest /\ \A l \in Legs : data'[l].down = data[l].down
<1>1. ASSUME NEW L, NEW s, LaneBecomes(L, "up", s)
      PROVE  \A l \in Legs : data'[l].down = data[l].down
  BY <1>1, Ways3 DEF LaneBecomes
<1>2. CASE Ends
  <2>1. CASE UserSends
    BY <1>1, <2>1, UserSending DEF Shape, UserSends
  <2>2. CASE DestReads
    BY <1>1, <2>2, DestReading DEF Shape, DestReads
  <2>. QED
    BY <1>2, <2>1, <2>2 DEF Ends, UserEnds, DestEnds
<1>3. CASE Dials
  <2>1. CASE DialChain
    BY <1>1, <2>1, ChainDial DEF DialChain
  <2>2. CASE estabFromHeader
    BY <1>1, <2>2, HeaderDial DEF estabFromHeader
  <2>. QED
    BY <1>3, <2>1, <2>2 DEF Dials, DialDest, GivesUp
<1>4. ASSUME NEW h \in Hops, NEW d \in Dirs, CopyReads(h, d)
      PROVE  got'.user = got.user /\ sent'.dest = sent.dest /\ \A l \in Legs : data'[l].down = data[l].down
  <2>1. d # "down"
    BY <1>4
  <2>2. UNCHANGED <<got, sent>>
    BY <1>4 DEF CopyReads
  <2>. QED
    BY <1>1, <1>4, <2>1, <2>2, ReadAt
<1>5. ASSUME NEW h \in Hops, NEW d \in Dirs, CopyWrites(h, d)
      PROVE  got'.user = got.user /\ sent'.dest = sent.dest /\ \A l \in Legs : data'[l].down = data[l].down
  <2>1. d # "down"
    BY <1>5
  <2>2. UNCHANGED <<got, sent>>
    BY <1>5 DEF CopyWrites
  <2>. QED
    BY <1>1, <1>5, <2>1, <2>2, WriteAt
<1>6. ASSUME NEW h \in Hops, NEW d \in Dirs, copyConn(h, d)
      PROVE  got'.user = got.user /\ sent'.dest = sent.dest /\ \A l \in Legs : data'[l].down = data[l].down
  BY <1>4, <1>5, <1>6 DEF copyConn, CopyEnds, CopyBreaks
<1>7. ASSUME NEW h \in Hops, Collected(h) \/ Release(h)
      PROVE  UNCHANGED <<got, sent, data>>
  BY <1>7 DEF Collected, Release
<1>8. CASE TimesOut \/ UNCHANGED vars
  BY <1>8 DEF TimesOut, vars
<1>. QED
  BY <1>2, <1>3, <1>6, <1>7, <1>8 DEF Next

LEMMA DownStill ==
  ASSUME Shape, [Next]_vars, DownInOrder, ~UserReads, ~DestSends,
         \A h \in Hops : ~CopyReads(h, "down") /\ ~CopyWrites(h, "down")
  PROVE  DownInOrder'
<1>1. PICK a1, b1, a2, b2, a3 \in Nat : DownAt(a1, b1, a2, b2, a3)
  BY DEF DownInOrder
<1>2. Joins(1, "down", b1, a2)' /\ Joins(2, "down", b2, a3)'
  BY <1>1, JoinsKept, Numbers, Ways3 DEF DownAt
<1>3. got'.user = got.user /\ sent'.dest = sent.dest /\ \A l \in Legs : data'[l].down = data[l].down
  BY DownStays
<1>4. DownAt(a1, b1, a2, b2, a3)'
  BY <1>1, <1>2, <1>3, Numbers DEF DownAt
<1>. QED
  BY <1>4 DEF DownInOrder

LEMMA DownRead ==
  ASSUME Shape, [Next]_vars, DownInOrder, NEW h \in Hops, CopyReads(h, "down")
  PROVE  DownInOrder'
<1>1. PICK a1, b1, a2, b2, a3 \in Nat : DownAt(a1, b1, a2, b2, a3)
  BY DEF DownInOrder
<1>2. PICK L, c :
        /\ L \in Legs
        /\ L = h + 1 /\ data[L].down \in Seq(Nat) /\ data[L].down # <<>>
        /\ LaneBecomes(L, "down", Tail(data[L].down))
        /\ c.pc = "hold" /\ c.chunk = Head(data[L].down) /\ CopyBecomes(h, "down", c)
  BY ReadAt, Ways3
<1>3. UNCHANGED <<got, sent, end, handler>>
  BY DEF CopyReads
<1>4. \A l \in Legs : data'[l].down = IF l = L THEN Tail(data[L].down) ELSE data[l].down
  BY <1>2, Ways3 DEF LaneBecomes
<1>5. ASSUME NEW k \in Hops, k # h, NEW b \in Nat, NEW a \in Nat, Joins(k, "down", b, a)
      PROVE  Joins(k, "down", b, a)'
  <2>1. copy'[k]["down"] = copy[k]["down"]
    BY <1>2, <1>5, Ways3 DEF CopyBecomes
  <2>. QED
    BY <1>3, <1>5, <2>1, JoinsStill DEF Intact, Alive
<1>6. CASE h = 1
  <2>1. Head(data[2].down) = a2 + 1 /\ Run(Tail(data[2].down), 0, a2 + 1, b2)
    BY <1>1, <1>2, <1>6, RunTail DEF DownAt
  <2>2. Joins(1, "down", b1, a2 + 1)'
    BY <1>1, <1>2, <1>6, <2>1, JoinsRead, Ways3 DEF DownAt
  <2>3. Joins(2, "down", b2, a3)'
    BY <1>1, <1>5, <1>6, Numbers DEF DownAt
  <2>4. data'[1].down = data[1].down /\ data'[2].down = Tail(data[2].down) /\ data'[3].down = data[3].down
    BY <1>2, <1>4, <1>6, Numbers
  <2>5. DownAt(a1, b1, a2 + 1, b2, a3)'
    BY <1>1, <1>3, <2>1, <2>2, <2>3, <2>4 DEF DownAt
  <2>6. a2 + 1 \in Nat
    OBVIOUS
  <2>. QED
    BY <2>5, <2>6 DEF DownInOrder
<1>7. CASE h = 2
  <2>0. PICK r \in Nat : r = sent.dest
    BY LaneTypes
  <2>1. Head(data[3].down) = a3 + 1 /\ Run(Tail(data[3].down), 0, a3 + 1, sent.dest)
    <3>1. data[3].down \in Seq(Nat) /\ data[3].down # <<>> /\ Run(data[3].down, 0, a3, r)
      BY <1>1, <1>2, <1>7, <2>0 DEF DownAt
    <3>. QED
      BY <2>0, <3>1, RunTail
  <2>2. Joins(2, "down", b2, a3 + 1)'
    BY <1>1, <1>2, <1>7, <2>1, JoinsRead, Ways3 DEF DownAt
  <2>3. Joins(1, "down", b1, a2)'
    BY <1>1, <1>5, <1>7, Numbers DEF DownAt
  <2>4. data'[1].down = data[1].down /\ data'[2].down = data[2].down /\ data'[3].down = Tail(data[3].down)
    BY <1>2, <1>4, <1>7, Numbers
  <2>5. DownAt(a1, b1, a2, b2, a3 + 1)'
    BY <1>1, <1>3, <2>1, <2>2, <2>3, <2>4 DEF DownAt
  <2>6. a3 + 1 \in Nat
    OBVIOUS
  <2>. QED
    BY <2>5, <2>6 DEF DownInOrder
<1>. QED
  BY <1>6, <1>7, Numbers

LEMMA DownWrite ==
  ASSUME Shape, [Next]_vars, DownInOrder, NEW h \in Hops, CopyWrites(h, "down")
  PROVE  DownInOrder'
<1>1. PICK a1, b1, a2, b2, a3 \in Nat : DownAt(a1, b1, a2, b2, a3)
  BY DEF DownInOrder
<1>2. PICK L, c :
        /\ L \in Legs
        /\ L = h /\ data[L].down \in Seq(Nat)
        /\ LaneBecomes(L, "down", Append(data[L].down, copy[h]["down"].chunk)) /\ CopyBecomes(h, "down", c)
  BY WriteAt, Ways3
<1>3. UNCHANGED <<got, sent, end, handler>>
  BY DEF CopyWrites
<1>4. \A l \in Legs : data'[l].down = IF l = L THEN Append(data[L].down, copy[h]["down"].chunk) ELSE data[l].down
  BY <1>2, Ways3 DEF LaneBecomes
<1>5. ASSUME NEW k \in Hops, k # h, NEW b \in Nat, NEW a \in Nat, Joins(k, "down", b, a)
      PROVE  Joins(k, "down", b, a)'
  <2>1. copy'[k]["down"] = copy[k]["down"]
    BY <1>2, <1>5, Ways3 DEF CopyBecomes
  <2>. QED
    BY <1>3, <1>5, <2>1, JoinsStill DEF Intact, Alive
<1>6. CASE h = 1
  <2>1. copy[1]["down"].chunk = b1 + 1 /\ Joins(1, "down", b1 + 1, a2)'
    BY <1>1, <1>6, JoinsWrite, Ways3 DEF DownAt
  <2>2. Run(Append(data[1].down, b1 + 1), 0, a1, b1 + 1)
    BY <1>1, <1>2, <1>6, RunAppend DEF DownAt
  <2>3. Joins(2, "down", b2, a3)'
    BY <1>1, <1>5, <1>6, Numbers DEF DownAt
  <2>4. data'[1].down = Append(data[1].down, b1 + 1) /\ data'[2].down = data[2].down /\ data'[3].down = data[3].down
    <3>1. PICK s : s = Append(data[1].down, b1 + 1)
      OBVIOUS
    <3>2. Append(data[L].down, copy[h]["down"].chunk) = s
      BY <1>2, <1>6, <2>1, <3>1
    <3>3. \A l \in Legs : data'[l].down = IF l = 1 THEN s ELSE data[l].down
      BY <1>2, <1>4, <1>6, <3>2
    <3>4. data'[1].down = (IF 1 = 1 THEN s ELSE data[1].down) /\ data'[2].down = (IF 2 = 1 THEN s ELSE data[2].down)
          /\ data'[3].down = data[3].down
      BY <3>3, Numbers
    <3>. QED
      BY <3>1, <3>4
  <2>5. DownAt(a1, b1 + 1, a2, b2, a3)'
    BY <1>1, <1>3, <2>1, <2>2, <2>3, <2>4 DEF DownAt
  <2>6. b1 + 1 \in Nat
    OBVIOUS
  <2>. QED
    BY <2>5, <2>6 DEF DownInOrder
<1>7. CASE h = 2
  <2>1. copy[2]["down"].chunk = b2 + 1 /\ Joins(2, "down", b2 + 1, a3)'
    BY <1>1, <1>7, JoinsWrite, Ways3 DEF DownAt
  <2>2. Run(Append(data[2].down, b2 + 1), 0, a2, b2 + 1)
    BY <1>1, <1>2, <1>7, RunAppend DEF DownAt
  <2>3. Joins(1, "down", b1, a2)'
    BY <1>1, <1>5, <1>7, Numbers DEF DownAt
  <2>4. data'[1].down = data[1].down /\ data'[2].down = Append(data[2].down, b2 + 1) /\ data'[3].down = data[3].down
    <3>1. PICK s : s = Append(data[2].down, b2 + 1)
      OBVIOUS
    <3>2. Append(data[L].down, copy[h]["down"].chunk) = s
      BY <1>2, <1>7, <2>1, <3>1
    <3>3. \A l \in Legs : data'[l].down = IF l = 2 THEN s ELSE data[l].down
      BY <1>2, <1>4, <1>7, <3>2
    <3>4. data'[1].down = (IF 1 = 2 THEN s ELSE data[1].down) /\ data'[2].down = (IF 2 = 2 THEN s ELSE data[2].down)
          /\ data'[3].down = data[3].down
      BY <3>3, Numbers
    <3>. QED
      BY <3>1, <3>4
  <2>5. DownAt(a1, b1, a2, b2 + 1, a3)'
    BY <1>1, <1>3, <2>1, <2>2, <2>3, <2>4 DEF DownAt
  <2>6. b2 + 1 \in Nat
    OBVIOUS
  <2>. QED
    BY <2>5, <2>6 DEF DownInOrder
<1>. QED
  BY <1>6, <1>7, Numbers

LEMMA DownEnds ==
  ASSUME Shape, [Next]_vars, DownInOrder, UserReads \/ DestSends
  PROVE  DownInOrder'
<1>1. PICK a1, b1, a2, b2, a3 \in Nat : DownAt(a1, b1, a2, b2, a3)
  BY DEF DownInOrder
<1>2. UNCHANGED <<mode, end, handler, copy>>
  BY DEF UserReads, DestSends
<1>3. \A h \in Hops, b \in Nat, a \in Nat : Joins(h, "down", b, a) => Joins(h, "down", b, a)'
  BY <1>2 DEF Joins, Held, Intact, Alive
<1>4. Joins(1, "down", b1, a2)' /\ Joins(2, "down", b2, a3)'
  BY <1>1, <1>3, Numbers DEF DownAt
<1>5. CASE UserReads
  <2>1. /\ LaneBecomes(1, "down", Tail(data[1].down)) /\ data[1].down # <<>>
        /\ got'.user = Append(got.user, Head(data[1].down)) /\ sent'.dest = sent.dest
    BY <1>5, UserReading DEF Shape, UserReads
  <2>2. Head(data[1].down) = a1 + 1 /\ Run(Tail(data[1].down), 0, a1 + 1, b1)
    BY <1>1, <2>1, RunTail, LaneTypes, Numbers DEF DownAt
  <2>3. Run(Append(got.user, a1 + 1), 0, 0, a1 + 1)
    BY <1>1, RunAppend, LaneTypes DEF DownAt
  <2>4. data'[1].down = Tail(data[1].down) /\ data'[2].down = data[2].down /\ data'[3].down = data[3].down
    BY <2>1, Numbers, Ways3 DEF LaneBecomes
  <2>5. DownAt(a1 + 1, b1, a2, b2, a3)'
    BY <1>1, <1>4, <2>1, <2>2, <2>3, <2>4 DEF DownAt
  <2>6. a1 + 1 \in Nat
    OBVIOUS
  <2>. QED
    BY <2>5, <2>6 DEF DownInOrder
<1>6. CASE DestSends
  <2>1. /\ LaneBecomes(Final, "down", Append(data[Final].down, sent.dest + 1))
        /\ sent'.dest = sent.dest + 1 /\ got' = got
    BY <1>6, DestSending DEF Shape, DestSends
  <2>2. PICK r \in Nat : r = sent.dest
    BY LaneTypes
  <2>3. CASE Final = 3
    <3>1. Run(Append(data[3].down, r + 1), 0, a3, r + 1)
      BY <1>1, <2>2, RunAppend, LaneTypes, Numbers DEF DownAt
    <3>2. /\ data'[1].down = data[1].down /\ data'[2].down = data[2].down
          /\ data'[3].down = Append(data[3].down, r + 1)
      <4>1. PICK s : s = Append(data[3].down, r + 1)
        OBVIOUS
      <4>2. LaneBecomes(3, "down", s)
        BY <2>1, <2>2, <2>3, <4>1
      <4>3. data'[1].down = data[1].down /\ data'[2].down = data[2].down /\ data'[3].down = s
        BY <4>2, Numbers, Ways3 DEF LaneBecomes
      <4>. QED
        BY <4>1, <4>3
    <3>3. DownAt(a1, b1, a2, b2, a3)'
      BY <1>1, <1>4, <2>1, <2>2, <3>1, <3>2 DEF DownAt
    <3>. QED
      BY <3>3 DEF DownInOrder
  <2>4. CASE Final = 2
    <3>1. handler[2] = "none" /\ NothingAhead(2)
      BY <2>4, Numbers DEF Final, Shape, HopsInTurn, Chained, Unopened
    <3>2. data[3].down = <<>> /\ copy[2]["down"].pc = "none"
      BY <3>1, Ways3 DEF NothingAhead
    <3>3. a3 = r
      BY <1>1, <2>2, <3>2, RunNone DEF DownAt
    <3>4. b2 = a3
      BY <1>1, <3>1, <3>2 DEF DownAt, Joins, Intact, Held
    <3>5. Joins(2, "down", b2 + 1, a3 + 1)'
      BY <1>2, <3>2, <3>4 DEF Joins, Held
    <3>6. Run(Append(data[2].down, b2 + 1), 0, a2, b2 + 1)
      BY <1>1, RunAppend, LaneTypes, Numbers DEF DownAt
    <3>7. /\ data'[1].down = data[1].down /\ data'[3].down = <<>>
          /\ data'[2].down = Append(data[2].down, b2 + 1)
      <4>1. PICK s : s = Append(data[2].down, b2 + 1)
        OBVIOUS
      <4>2. LaneBecomes(2, "down", s)
        BY <2>1, <2>2, <2>4, <3>3, <3>4, <4>1
      <4>3. data'[1].down = data[1].down /\ data'[2].down = s /\ data'[3].down = data[3].down
        BY <4>2, Numbers, Ways3 DEF LaneBecomes
      <4>. QED
        BY <3>2, <4>1, <4>3
    <3>8. Run(<<>>, 0, a3 + 1, a3 + 1) /\ a3 + 1 \in Nat /\ b2 + 1 \in Nat
      BY RunNone
    <3>9. sent'.dest = a3 + 1
      BY <2>1, <2>2, <3>3
    <3>10. DownAt(a1, b1, a2, b2 + 1, a3 + 1)'
      BY <1>1, <1>4, <2>1, <3>5, <3>6, <3>7, <3>8, <3>9 DEF DownAt
    <3>. QED
      BY <3>8, <3>10 DEF DownInOrder
  <2>. QED
    BY <2>3, <2>4 DEF Final
<1>. QED
  BY <1>5, <1>6

LEMMA DownKept ==
  ASSUME Shape, [Next]_vars, DownInOrder
  PROVE  DownInOrder'
BY DownStill, DownRead, DownWrite, DownEnds

LEMMA InitDown == Init => DownInOrder
<1>. SUFFICES ASSUME Init PROVE DownInOrder
  OBVIOUS
<1>1. \A h \in Hops : Joins(h, "down", 0, 0)
  BY DEF Init, Joins, Held, NoCopy, Dirs
<1>2. got.user = <<>> /\ sent.dest = 0 /\ \A l \in Legs : data[l].down = <<>>
  BY DEF Init
<1>3. Run(<<>>, 0, 0, 0) /\ 0 \in Nat
  BY RunNone
<1>4. DownAt(0, 0, 0, 0, 0)
  BY <1>1, <1>2, <1>3, Numbers DEF DownAt
<1>. QED
  BY <1>3, <1>4 DEF DownInOrder

LEMMA DownIsPrefix ==
  ASSUME Shape, DownInOrder
  PROVE  IsPrefix(got.user, Stream(sent.dest))
<1>1. PICK a1, b1, a2, b2, a3 \in Nat : DownAt(a1, b1, a2, b2, a3)
  BY DEF DownInOrder
<1>2. PICK r \in Nat : r = sent.dest
  BY LaneTypes
<1>3. a1 <= b1 /\ b1 <= a2 /\ a2 <= b2 /\ b2 <= a3 /\ a3 <= r
  BY <1>1, <1>2 DEF DownAt, Run, Joins
<1>4. a1 <= r
  BY <1>3
<1>. QED
  BY <1>1, <1>2, <1>4, RunIsPrefix, LaneTypes DEF DownAt

-----------------------------------------------------------------------------
(* The user's stream, up to hop 2 and from there on. *)

\* Hop 2 reads what comes after m next.
UpAt(a, b, m) ==
  /\ Run(data[1].up, 0, a, sent.user) /\ Joins(1, "up", b, a) /\ Run(data[2].up, Leading, m, b)

\* A single reader passes its chunks on in order,
InTurn(m) ==
  \E b, a \in Nat : Joins(2, "up", b, m) /\ Run(data[3].up, 0, a, b) /\ Run(got.dest, 0, 0, a)

\* and two readers take turns, but never both take the same one.
HeldSet(d) == IF copy[2][d].pc = "hold" THEN {copy[2][d].chunk} ELSE {}

Apart(m) ==
  /\ IsInjective(got.dest) /\ IsInjective(data[3].up)
  /\ ToSet(got.dest) \cap ToSet(data[3].up) = {}
  /\ HeldSet("up") \cap HeldSet("rest") = {}
  /\ (ToSet(got.dest) \cup ToSet(data[3].up)) \cap (HeldSet("up") \cup HeldSet("rest")) = {}
  /\ ToSet(got.dest) \cup ToSet(data[3].up) \cup HeldSet("up") \cup HeldSet("rest") \subseteq 1 .. m

PassedOn(m) == IF TwoReaders THEN Apart(m) ELSE InTurn(m)

UpInOrder == \E a, b, m \in Nat : UpAt(a, b, m) /\ PassedOn(m)

LEMMA ModeStays ==
  ASSUME [Next]_vars
  PROVE  mode' = mode
<1>1. ASSUME NEW h \in Hops, NEW d \in Dirs, copyConn(h, d)
      PROVE  mode' = mode
  BY <1>1 DEF copyConn, CopyReads, CopyEnds, CopyWrites, CopyBreaks
<1>. QED
  BY <1>1 DEF Next, Ends, Dials, UserSends, UserEnds, UserReads, DestSends, DestEnds, DestReads, DialDest, DialChain,
              estabFromHeader, GivesUp, Collected, Release, TimesOut, vars

LEMMA LeadingStays ==
  ASSUME Shape, [Next]_vars, ~DialChain, ~estabFromHeader
  PROVE  Leading' = Leading
<1>1. ASSUME handler'[2] = handler[2], copy'[2]["up"].pc = "none" <=> copy[2]["up"].pc = "none"
      PROVE  Leading' = Leading
  BY <1>1 DEF Leading, Ahead
<1>2. CASE Ends \/ TimesOut \/ UNCHANGED vars
  BY <1>1, <1>2 DEF Ends, UserSends, UserEnds, UserReads, DestSends, DestEnds, DestReads, TimesOut, vars
<1>3. ASSUME NEW h \in Hops, GivesUp(h) \/ Collected(h) \/ Release(h)
      PROVE  Leading' = Leading
  <2>1. (handler'[2] = "none" <=> handler[2] = "none") /\ UNCHANGED copy
    <3>1. CASE GivesUp(h)
      BY <3>1, Numbers DEF GivesUp, Shape, SessionTypes
    <3>2. CASE Collected(h)
      BY <3>2, Numbers DEF Collected, Shape, SessionTypes
    <3>3. CASE Release(h)
      BY <3>3, Numbers DEF Release, Shape, SessionTypes
    <3>. QED
      BY <1>3, <3>1, <3>2, <3>3
  <2>. QED
    BY <2>1 DEF Leading, Ahead
<1>4. ASSUME NEW h \in Hops, DialDest(h)
      PROVE  Leading' = Leading
  <2>1. handler[2] = "none" /\ handler'[2] = "none"
    BY <1>4, DirectDial
  <2>. QED
    BY <2>1 DEF Leading, Ahead
<1>5. ASSUME NEW h \in Hops, NEW d \in Dirs, copyConn(h, d)
      PROVE  Leading' = Leading
  <2>1. copy[h][d].pc # "none" /\ UNCHANGED handler
    BY <1>5 DEF copyConn, CopyReads, CopyEnds, CopyWrites, CopyBreaks
  <2>2. PICK c : CopyBecomes(h, d, c) /\ c.pc # "none"
    <3>1. CASE CopyReads(h, d) \/ CopyWrites(h, d)
      BY <3>1, ReadAt, WriteAt
    <3>2. CASE CopyEnds(h, d) \/ CopyBreaks(h, d)
      <4>1. /\ [pc |-> "done", chunk |-> copy[h][d].chunk].pc # "none"
            /\ [pc |-> "done", chunk |-> 0].pc # "none" /\ [pc |-> "read", chunk |-> 0].pc # "none"
        OBVIOUS
      <4>2. \/ CopyBecomes(h, d, [pc |-> "done", chunk |-> copy[h][d].chunk])
            \/ CopyBecomes(h, d, [pc |-> "done", chunk |-> 0])
            \/ CopyBecomes(h, d, [pc |-> "read", chunk |-> 0])
        BY <3>2, Ending, Breaking DEF Shape
      <4>. QED
        BY <4>1, <4>2
    <3>. QED
      BY <1>5, <3>1, <3>2 DEF copyConn
  <2>. QED
    BY <1>1, <2>1, <2>2, Numbers, Ways3 DEF CopyBecomes
<1>. QED
  BY <1>2, <1>3, <1>4, <1>5 DEF Next, Dials

\* The lanes up change by their writer, their reader and the header.
LEMMA UpStays ==
  ASSUME Shape, [Next]_vars, ~UserSends, ~DestReads, ~DialChain, ~estabFromHeader,
         \A h \in Hops, d \in Dirs : d # "down" => ~CopyReads(h, d) /\ ~CopyWrites(h, d)
  PROVE  got'.dest = got.dest /\ sent'.user = sent.user /\ \A l \in Legs : data'[l].up = data[l].up
<1>1. ASSUME NEW L, NEW s, LaneBecomes(L, "down", s)
      PROVE  \A l \in Legs : data'[l].up = data[l].up
  BY <1>1, Ways3 DEF LaneBecomes
<1>2. CASE Ends
  <2>1. CASE DestSends
    BY <1>1, <2>1, DestSending DEF Shape, DestSends
  <2>2. CASE UserReads
    BY <1>1, <2>2, UserReading DEF Shape, UserReads
  <2>. QED
    BY <1>2, <2>1, <2>2 DEF Ends, UserEnds, DestEnds
<1>3. CASE Dials
  BY <1>3 DEF Dials, DialDest, GivesUp
<1>4. ASSUME NEW h \in Hops, NEW d \in Dirs, CopyReads(h, d)
      PROVE  got'.dest = got.dest /\ sent'.user = sent.user /\ \A l \in Legs : data'[l].up = data[l].up
  <2>1. d = "down"
    BY <1>4
  <2>2. UNCHANGED <<got, sent>>
    BY <1>4 DEF CopyReads
  <2>. QED
    BY <1>1, <1>4, <2>1, <2>2, ReadAt
<1>5. ASSUME NEW h \in Hops, NEW d \in Dirs, CopyWrites(h, d)
      PROVE  got'.dest = got.dest /\ sent'.user = sent.user /\ \A l \in Legs : data'[l].up = data[l].up
  <2>1. d = "down"
    BY <1>5
  <2>2. UNCHANGED <<got, sent>>
    BY <1>5 DEF CopyWrites
  <2>. QED
    BY <1>1, <1>5, <2>1, <2>2, WriteAt
<1>6. ASSUME NEW h \in Hops, NEW d \in Dirs, copyConn(h, d)
      PROVE  got'.dest = got.dest /\ sent'.user = sent.user /\ \A l \in Legs : data'[l].up = data[l].up
  BY <1>4, <1>5, <1>6 DEF copyConn, CopyEnds, CopyBreaks
<1>7. ASSUME NEW h \in Hops, Collected(h) \/ Release(h)
      PROVE  UNCHANGED <<got, sent, data>>
  BY <1>7 DEF Collected, Release
<1>8. CASE TimesOut \/ UNCHANGED vars
  BY <1>8 DEF TimesOut, vars
<1>. QED
  BY <1>2, <1>3, <1>6, <1>7, <1>8 DEF Next

LEMMA PassedStill ==
  ASSUME Shape, [Next]_vars, NEW m \in Nat, PassedOn(m),
         got'.dest = got.dest, data'[3].up = data[3].up,
         \A d \in Dirs : d # "down" => ~CopyReads(2, d) /\ ~CopyWrites(2, d)
  PROVE  PassedOn(m)'
<1>1. TwoReaders' = TwoReaders
  BY ModeStays DEF TwoReaders
<1>2. CASE TwoReaders
  <2>1. \A d \in {"up", "rest"} : Holds(2, d)
    BY OthersHold, Numbers, Ways3
  <2>2. HeldSet("up")' \subseteq HeldSet("up") /\ HeldSet("rest")' \subseteq HeldSet("rest")
    BY <2>1 DEF HeldSet, Holds
  <2>3. Apart(m)
    BY <1>2 DEF PassedOn
  <2>4. Apart(m)'
    BY <2>2, <2>3 DEF Apart
  <2>. QED
    BY <1>1, <1>2, <2>4 DEF PassedOn
<1>3. CASE ~TwoReaders
  <2>1. PICK b \in Nat, a \in Nat : Joins(2, "up", b, m) /\ Run(data[3].up, 0, a, b) /\ Run(got.dest, 0, 0, a)
    BY <1>3 DEF PassedOn, InTurn
  <2>2. Joins(2, "up", b, m)'
    BY <2>1, JoinsKept, Numbers, Ways3
  <2>3. InTurn(m)'
    BY <2>1, <2>2 DEF InTurn
  <2>. QED
    BY <1>1, <1>3, <2>3 DEF PassedOn
<1>. QED
  BY <1>2, <1>3

LEMMA UpStill ==
  ASSUME Shape, [Next]_vars, UpInOrder, ~UserSends, ~DestReads, ~DialChain, ~estabFromHeader,
         \A h \in Hops, d \in Dirs : d # "down" => ~CopyReads(h, d) /\ ~CopyWrites(h, d)
  PROVE  UpInOrder'
<1>1. PICK a \in Nat, b \in Nat, m \in Nat : UpAt(a, b, m) /\ PassedOn(m)
  BY DEF UpInOrder
<1>2. got'.dest = got.dest /\ sent'.user = sent.user /\ (\A l \in Legs : data'[l].up = data[l].up) /\ Leading' = Leading
  BY UpStays, LeadingStays
<1>3. Joins(1, "up", b, a)'
  BY <1>1, JoinsKept, Numbers, Ways3 DEF UpAt
<1>4. UpAt(a, b, m)'
  BY <1>1, <1>2, <1>3, Numbers DEF UpAt
<1>5. PassedOn(m)'
  BY <1>1, <1>2, PassedStill, Numbers
<1>. QED
  BY <1>4, <1>5 DEF UpInOrder

\* The user and hop 1.
LEMMA UpSent ==
  ASSUME Shape, [Next]_vars, UpInOrder, UserSends
  PROVE  UpInOrder'
<1>1. PICK a \in Nat, b \in Nat, m \in Nat : UpAt(a, b, m) /\ PassedOn(m)
  BY DEF UpInOrder
<1>2. PICK n \in Nat : n = sent.user
  BY LaneTypes
<1>3. PICK s : s = Append(data[1].up, n + 1)
  OBVIOUS
<1>4. Run(s, 0, a, n + 1)
  BY <1>1, <1>2, <1>3, RunAppend, LaneTypes, Numbers DEF UpAt
<1>5. LaneBecomes(1, "up", s) /\ sent'.user = n + 1
  BY <1>2, <1>3, UserSending DEF Shape
<1>6. data'[1].up = s /\ data'[2].up = data[2].up /\ data'[3].up = data[3].up
  BY <1>5, Numbers, Ways3 DEF LaneBecomes
<1>7. UNCHANGED <<end, handler, copy, got>>
  BY DEF UserSends
<1>8. Leading' = Leading /\ Joins(1, "up", b, a)'
  BY <1>1, <1>7 DEF Leading, Ahead, UpAt, Joins, Held, Intact, Alive
<1>9. UpAt(a, b, m)'
  BY <1>1, <1>4, <1>5, <1>6, <1>8 DEF UpAt
<1>10. \A d \in Dirs : ~CopyReads(2, d) /\ ~CopyWrites(2, d)
  <2>1. sent'.user # sent.user
    BY <1>2, <1>5
  <2>. QED
    BY <2>1 DEF CopyReads, CopyWrites
<1>11. PassedOn(m)'
  BY <1>1, <1>6, <1>7, <1>10, PassedStill
<1>. QED
  BY <1>9, <1>11 DEF UpInOrder

LEMMA UpReadFirst ==
  ASSUME Shape, [Next]_vars, UpInOrder, CopyReads(1, "up")
  PROVE  UpInOrder'
<1>1. PICK a \in Nat, b \in Nat, m \in Nat : UpAt(a, b, m) /\ PassedOn(m)
  BY DEF UpInOrder
<1>2. PICK c : /\ data[1].up \in Seq(Nat) /\ data[1].up # <<>> /\ LaneBecomes(1, "up", Tail(data[1].up))
               /\ c.pc = "hold" /\ c.chunk = Head(data[1].up) /\ CopyBecomes(1, "up", c)
  BY ReadAt, Numbers, Ways3
<1>3. PICK n \in Nat : n = sent.user
  BY LaneTypes
<1>4. Run(data[1].up, 0, a, n)
  BY <1>1, <1>3 DEF UpAt
<1>5. Head(data[1].up) = a + 1 /\ Run(Tail(data[1].up), 0, a + 1, n)
  BY <1>2, <1>4, RunTail
<1>6. UNCHANGED <<sent, got, handler>>
  BY DEF CopyReads
<1>7. data'[1].up = Tail(data[1].up) /\ data'[2].up = data[2].up /\ data'[3].up = data[3].up
  BY <1>2, Numbers, Ways3 DEF LaneBecomes
<1>8. Joins(1, "up", b, a + 1)'
  BY <1>1, <1>2, <1>5, JoinsRead, Numbers, Ways3 DEF UpAt
<1>9. \A d \in Dirs : copy'[2][d] = copy[2][d]
  BY <1>2, Numbers DEF CopyBecomes
<1>10. Leading' = Leading
  BY <1>6, <1>9, Ways3 DEF Leading, Ahead
<1>11. UpAt(a + 1, b, m)'
  BY <1>1, <1>3, <1>5, <1>6, <1>7, <1>8, <1>10 DEF UpAt
<1>12. \A d \in Dirs : ~CopyReads(2, d) /\ ~CopyWrites(2, d)
  <2>1. copy[1]["up"].pc # "hold" /\ copy'[1]["up"].pc = "hold"
    BY <1>2, Numbers, Ways3 DEF CopyBecomes, CopyReads
  <2>2. ASSUME NEW d \in Dirs, CopyReads(2, d) \/ CopyWrites(2, d)
        PROVE  copy'[1]["up"] = copy[1]["up"]
    BY <2>2, ReadAt, WriteAt, Numbers, Ways3 DEF CopyBecomes
  <2>. QED
    BY <2>1, <2>2
<1>13. PassedOn(m)'
  BY <1>1, <1>6, <1>7, <1>12, PassedStill
<1>14. a + 1 \in Nat
  OBVIOUS
<1>. QED
  BY <1>11, <1>13, <1>14 DEF UpInOrder

LEMMA UpWriteFirst ==
  ASSUME Shape, [Next]_vars, UpInOrder, CopyWrites(1, "up")
  PROVE  UpInOrder'
<1>1. PICK a \in Nat, b \in Nat, m \in Nat : UpAt(a, b, m) /\ PassedOn(m)
  BY DEF UpInOrder
<1>2. copy[1]["up"].chunk = b + 1 /\ Joins(1, "up", b + 1, a)'
  BY <1>1, JoinsWrite, Numbers, Ways3 DEF UpAt
<1>3. PICK s : s = Append(data[2].up, b + 1)
  OBVIOUS
<1>4. PICK c : LaneBecomes(2, "up", s) /\ c.pc = "read" /\ CopyBecomes(1, "up", c)
  <2>1. PICK L, c : /\ L \in Legs
                    /\ L = 1 + 1 /\ LaneBecomes(L, "up", Append(data[L].up, copy[1]["up"].chunk))
                    /\ c.pc = "read" /\ CopyBecomes(1, "up", c)
    BY WriteAt, Numbers, Ways3
  <2>2. L = 2
    BY <2>1
  <2>3. Append(data[L].up, copy[1]["up"].chunk) = s
    BY <1>2, <1>3, <2>2
  <2>. QED
    BY <2>1, <2>2, <2>3
<1>5. PICK z \in Nat : z = Leading
  BY DEF Leading
<1>6. Run(s, z, m, b + 1)
  BY <1>1, <1>3, <1>5, RunAppend, LaneTypes, Numbers DEF UpAt
<1>7. UNCHANGED <<sent, got, handler>>
  BY DEF CopyWrites
<1>8. data'[1].up = data[1].up /\ data'[2].up = s /\ data'[3].up = data[3].up
  BY <1>4, Numbers, Ways3 DEF LaneBecomes
<1>9. \A d \in Dirs : copy'[2][d] = copy[2][d]
  BY <1>4, Numbers DEF CopyBecomes
<1>10. Leading' = z
  BY <1>5, <1>7, <1>9, Ways3 DEF Leading, Ahead
<1>11. UpAt(a, b + 1, m)'
  BY <1>1, <1>2, <1>6, <1>7, <1>8, <1>10 DEF UpAt
<1>12. \A d \in Dirs : ~CopyReads(2, d) /\ ~CopyWrites(2, d)
  <2>1. copy[1]["up"].pc = "hold" /\ copy'[1]["up"].pc # "hold"
    BY <1>4, Numbers, Ways3 DEF CopyBecomes, CopyWrites
  <2>2. ASSUME NEW d \in Dirs, CopyReads(2, d) \/ CopyWrites(2, d)
        PROVE  copy'[1]["up"] = copy[1]["up"]
    BY <2>2, ReadAt, WriteAt, Numbers, Ways3 DEF CopyBecomes
  <2>. QED
    BY <2>1, <2>2
<1>13. PassedOn(m)'
  BY <1>1, <1>7, <1>8, <1>12, PassedStill
<1>14. b + 1 \in Nat
  OBVIOUS
<1>. QED
  BY <1>11, <1>13, <1>14 DEF UpInOrder

\* Hop 2, whose two readers take from the same lane.
LEMMA UpReadNext ==
  ASSUME Shape, [Next]_vars, UpInOrder, NEW d \in Dirs, d # "down", CopyReads(2, d)
  PROVE  UpInOrder'
<1>1. PICK a \in Nat, b \in Nat, m \in Nat : UpAt(a, b, m) /\ PassedOn(m)
  BY DEF UpInOrder
<1>2. PICK c : /\ data[2].up \in Seq(Nat) /\ data[2].up # <<>> /\ LaneBecomes(2, "up", Tail(data[2].up))
               /\ c.pc = "hold" /\ c.chunk = Head(data[2].up) /\ CopyBecomes(2, d, c)
  BY ReadAt, Numbers
<1>3. copy[2][d].pc = "read" /\ UNCHANGED <<sent, got, handler, end>>
  BY DEF CopyReads
<1>4. copy[2]["up"].pc # "none"
  BY <1>3, Ways3 DEF Shape, RestIsTCP
<1>5. Leading = 0 /\ Leading' = 0
  BY <1>2, <1>3, <1>4, Numbers, Ways3 DEF Leading, Ahead, CopyBecomes
<1>6. Head(data[2].up) = m + 1 /\ Run(Tail(data[2].up), 0, m + 1, b)
  BY <1>1, <1>2, <1>5, RunTail DEF UpAt
<1>7. data'[1].up = data[1].up /\ data'[2].up = Tail(data[2].up) /\ data'[3].up = data[3].up
  BY <1>2, Numbers, Ways3 DEF LaneBecomes
<1>8. copy'[1]["up"] = copy[1]["up"]
  BY <1>2, Numbers, Ways3 DEF CopyBecomes
<1>9. Joins(1, "up", b, a)'
  BY <1>1, <1>3, <1>8 DEF UpAt, Joins, Held, Intact, Alive
<1>10. UpAt(a, b, m + 1)'
  BY <1>1, <1>3, <1>5, <1>6, <1>7, <1>9 DEF UpAt
<1>11. TwoReaders' = TwoReaders
  BY ModeStays DEF TwoReaders
<1>12. ASSUME TwoReaders
       PROVE  PassedOn(m + 1)'
  <2>1. Apart(m)
    BY <1>1, <1>12 DEF PassedOn
  <2>2. HeldSet(d) = {} /\ HeldSet(d)' = {m + 1}
    BY <1>2, <1>3, <1>6, Numbers DEF HeldSet, CopyBecomes
  <2>3. \A e \in Dirs : e # d => HeldSet(e)' = HeldSet(e)
    BY <1>2, Numbers DEF HeldSet, CopyBecomes
  <2>4. m + 1 \notin 1 .. m /\ 1 .. m \subseteq 1 .. m + 1 /\ m + 1 \in 1 .. m + 1
    OBVIOUS
  <2>5. ASSUME d = "up"
        PROVE  Apart(m + 1)'
    <3>1. HeldSet("up") = {} /\ HeldSet("up")' = {m + 1} /\ HeldSet("rest")' = HeldSet("rest")
      BY <2>2, <2>3, <2>5, Ways3
    <3>. QED
      BY <1>3, <1>7, <2>1, <2>4, <3>1 DEF Apart
  <2>6. ASSUME d = "rest"
        PROVE  Apart(m + 1)'
    <3>1. HeldSet("rest") = {} /\ HeldSet("rest")' = {m + 1} /\ HeldSet("up")' = HeldSet("up")
      BY <2>2, <2>3, <2>6, Ways3
    <3>. QED
      BY <1>3, <1>7, <2>1, <2>4, <3>1 DEF Apart
  <2>7. Apart(m + 1)'
    BY <2>5, <2>6, Ways3
  <2>. QED
    BY <1>11, <1>12, <2>7 DEF PassedOn
<1>13. ASSUME ~TwoReaders
       PROVE  PassedOn(m + 1)'
  <2>1. d = "up"
    BY <1>3, <1>13, Ways3 DEF Shape, RestIsTCP
  <2>2. PICK k \in Nat, j \in Nat : Joins(2, "up", k, m) /\ Run(data[3].up, 0, j, k) /\ Run(got.dest, 0, 0, j)
    BY <1>1, <1>13 DEF PassedOn, InTurn
  <2>3. Joins(2, "up", k, m + 1)'
    BY <1>2, <1>6, <2>1, <2>2, JoinsRead, Numbers
  <2>4. InTurn(m + 1)'
    BY <1>3, <1>7, <2>2, <2>3 DEF InTurn
  <2>. QED
    BY <1>11, <1>13, <2>4 DEF PassedOn
<1>14. m + 1 \in Nat /\ PassedOn(m + 1)'
  BY <1>12, <1>13
<1>. QED
  BY <1>10, <1>14 DEF UpInOrder

LEMMA UpWriteNext ==
  ASSUME Shape, [Next]_vars, UpInOrder, NEW d \in Dirs, d # "down", CopyWrites(2, d)
  PROVE  UpInOrder'
<1>1. PICK a \in Nat, b \in Nat, m \in Nat : UpAt(a, b, m) /\ PassedOn(m)
  BY DEF UpInOrder
<1>2. PICK v \in Nat : v = copy[2][d].chunk
  BY Numbers DEF Shape, SessionTypes
<1>3. PICK s : s = Append(data[3].up, v)
  OBVIOUS
<1>4. PICK c : LaneBecomes(3, "up", s) /\ c.pc = "read" /\ CopyBecomes(2, d, c)
  <2>1. PICK L, c : /\ L \in Legs
                    /\ L = 2 + 1 /\ LaneBecomes(L, "up", Append(data[L].up, copy[2][d].chunk))
                    /\ c.pc = "read" /\ CopyBecomes(2, d, c)
    BY WriteAt, Numbers
  <2>2. L = 3
    BY <2>1
  <2>3. Append(data[L].up, copy[2][d].chunk) = s
    BY <1>2, <1>3, <2>2
  <2>. QED
    BY <2>1, <2>2, <2>3
<1>5. UNCHANGED <<sent, got, handler, end>> /\ copy[2][d].pc = "hold"
  BY DEF CopyWrites
<1>6. data'[1].up = data[1].up /\ data'[2].up = data[2].up /\ data'[3].up = s
  BY <1>4, Numbers, Ways3 DEF LaneBecomes
<1>7. Leading' = Leading
  BY LeadingStays, <1>4, <1>5, Numbers, Ways3 DEF Leading, Ahead, CopyBecomes
<1>8. copy'[1]["up"] = copy[1]["up"]
  BY <1>4, Numbers, Ways3 DEF CopyBecomes
<1>9. Joins(1, "up", b, a)'
  BY <1>1, <1>5, <1>8 DEF UpAt, Joins, Held, Intact, Alive
<1>10. UpAt(a, b, m)'
  BY <1>1, <1>5, <1>6, <1>7, <1>9 DEF UpAt
<1>11. TwoReaders' = TwoReaders
  BY ModeStays DEF TwoReaders
<1>12. ASSUME TwoReaders
       PROVE  PassedOn(m)'
  <2>1. Apart(m)
    BY <1>1, <1>12 DEF PassedOn
  <2>2. HeldSet(d) = {v} /\ HeldSet(d)' = {}
    BY <1>2, <1>4, <1>5, Numbers DEF HeldSet, CopyBecomes
  <2>3. \A e \in Dirs : e # d => HeldSet(e)' = HeldSet(e)
    BY <1>4, Numbers DEF HeldSet, CopyBecomes
  <2>4. v \in HeldSet("up") \cup HeldSet("rest")
    BY <2>2, Ways3
  <2>5. v \notin ToSet(data[3].up) /\ v \notin ToSet(got.dest) /\ v \in 1 .. m /\ IsInjective(data[3].up)
    BY <2>1, <2>4 DEF Apart
  <2>6. IsInjective(s) /\ ToSet(s) = ToSet(data[3].up) \cup {v}
    BY <1>3, <2>5, DistinctAppend, LaneTypes, Numbers
  <2>7. ASSUME d = "up"
        PROVE  Apart(m)'
    <3>1. HeldSet("up") = {v} /\ HeldSet("up")' = {} /\ HeldSet("rest")' = HeldSet("rest")
      BY <2>2, <2>3, <2>7, Ways3
    <3>. QED
      BY <1>5, <1>6, <2>1, <2>5, <2>6, <3>1 DEF Apart
  <2>8. ASSUME d = "rest"
        PROVE  Apart(m)'
    <3>1. HeldSet("rest") = {v} /\ HeldSet("rest")' = {} /\ HeldSet("up")' = HeldSet("up")
      BY <2>2, <2>3, <2>8, Ways3
    <3>. QED
      BY <1>5, <1>6, <2>1, <2>5, <2>6, <3>1 DEF Apart
  <2>9. Apart(m)'
    BY <2>7, <2>8, Ways3
  <2>. QED
    BY <1>11, <1>12, <2>9 DEF PassedOn
<1>13. ASSUME ~TwoReaders
       PROVE  PassedOn(m)'
  <2>1. d = "up"
    BY <1>5, <1>13, Ways3 DEF Shape, RestIsTCP
  <2>2. PICK k \in Nat, j \in Nat : Joins(2, "up", k, m) /\ Run(data[3].up, 0, j, k) /\ Run(got.dest, 0, 0, j)
    BY <1>1, <1>13 DEF PassedOn, InTurn
  <2>3. copy[2]["up"].chunk = k + 1 /\ Joins(2, "up", k + 1, m)'
    BY <2>1, <2>2, JoinsWrite, Numbers
  <2>4. Run(s, 0, j, k + 1)
    BY <1>2, <1>3, <2>1, <2>2, <2>3, RunAppend, LaneTypes, Numbers
  <2>5. InTurn(m)'
    <3>1. k + 1 \in Nat
      OBVIOUS
    <3>. QED
      BY <1>5, <1>6, <2>2, <2>3, <2>4, <3>1 DEF InTurn
  <2>. QED
    BY <1>11, <1>13, <2>5 DEF PassedOn
<1>. QED
  BY <1>10, <1>12, <1>13 DEF UpInOrder

LEMMA UpReceived ==
  ASSUME Shape, [Next]_vars, UpInOrder, DestReads
  PROVE  UpInOrder'
<1>1. PICK a \in Nat, b \in Nat, m \in Nat : UpAt(a, b, m) /\ PassedOn(m)
  BY DEF UpInOrder
<1>2. /\ LaneBecomes(Final, "up", Tail(data[Final].up)) /\ data[Final].up # <<>>
      /\ got'.dest = Append(got.dest, Head(data[Final].up))
  BY DestReading DEF Shape
<1>3. UNCHANGED <<mode, sent, end, handler, copy>>
  BY DEF DestReads
<1>4. Leading' = Leading /\ TwoReaders' = TwoReaders
  BY <1>3 DEF Leading, Ahead, TwoReaders
<1>5. \A h \in Hops, k \in Nat, j \in Nat : Joins(h, "up", k, j) => Joins(h, "up", k, j)'
  BY <1>3 DEF Joins, Held, Intact, Alive
<1>6. Joins(1, "up", b, a)'
  BY <1>1, <1>5, Numbers DEF UpAt
<1>7. CASE Final = 3
  <2>1. data'[1].up = data[1].up /\ data'[2].up = data[2].up /\ data'[3].up = Tail(data[3].up)
    BY <1>2, <1>7, Numbers, Ways3 DEF LaneBecomes
  <2>2. UpAt(a, b, m)'
    BY <1>1, <1>3, <1>4, <1>6, <2>1 DEF UpAt
  <2>3. CASE TwoReaders
    <3>1. Apart(m) /\ HeldSet("up")' = HeldSet("up") /\ HeldSet("rest")' = HeldSet("rest")
      BY <1>1, <1>3, <2>3 DEF PassedOn, HeldSet
    <3>2. PICK v, t : v = Head(data[3].up) /\ t = Tail(data[3].up)
      OBVIOUS
    <3>3. data[3].up \in Seq(Nat) /\ data[3].up # <<>> /\ got.dest \in Seq(Nat) /\ got'.dest = Append(got.dest, v)
      BY <1>2, <1>7, <3>2, LaneTypes, Numbers
    <3>4. v \in Nat /\ IsInjective(t) /\ v \notin ToSet(t) /\ ToSet(data[3].up) = ToSet(t) \cup {v}
      BY <3>1, <3>2, <3>3, DistinctTail, ChunkRead DEF Apart
    <3>5. v \notin ToSet(got.dest)
      BY <3>1, <3>4 DEF Apart
    <3>6. IsInjective(got'.dest) /\ ToSet(got'.dest) = ToSet(got.dest) \cup {v}
      BY <3>1, <3>3, <3>4, <3>5, DistinctAppend DEF Apart
    <3>7. data'[3].up = t
      BY <2>1, <3>2
    <3>8. Apart(m)'
      BY <3>1, <3>4, <3>5, <3>6, <3>7 DEF Apart
    <3>. QED
      BY <1>4, <2>2, <2>3, <3>8 DEF PassedOn, UpInOrder
  <2>4. CASE ~TwoReaders
    <3>1. PICK k \in Nat, j \in Nat : Joins(2, "up", k, m) /\ Run(data[3].up, 0, j, k) /\ Run(got.dest, 0, 0, j)
      BY <1>1, <2>4 DEF PassedOn, InTurn
    <3>2. Head(data[3].up) = j + 1 /\ Run(Tail(data[3].up), 0, j + 1, k)
      BY <1>2, <1>7, <3>1, RunTail, LaneTypes, Numbers
    <3>3. Run(Append(got.dest, j + 1), 0, 0, j + 1)
      BY <3>1, RunAppend, LaneTypes
    <3>4. Joins(2, "up", k, m)' /\ j + 1 \in Nat
      BY <1>5, <3>1, Numbers
    <3>5. got'.dest = Append(got.dest, j + 1)
      BY <1>2, <1>7, <3>2
    <3>6. InTurn(m)'
      BY <2>1, <3>2, <3>3, <3>4, <3>5 DEF InTurn
    <3>. QED
      BY <1>4, <2>2, <2>4, <3>6 DEF PassedOn, UpInOrder
  <2>. QED
    BY <2>3, <2>4
<1>8. CASE Final = 2
  <2>1. handler[2] = "none" /\ NothingAhead(2) /\ ~TwoReaders
    BY <1>8, Numbers DEF Final, Shape, HopsInTurn, Chained, Unopened, TwoReaders
  <2>2. data[3].up = <<>> /\ copy[2]["up"].pc = "none" /\ Leading = 0
    BY <2>1, Ways3 DEF NothingAhead, Leading, Ahead
  <2>3. PICK k \in Nat, j \in Nat : Joins(2, "up", k, m) /\ Run(data[3].up, 0, j, k) /\ Run(got.dest, 0, 0, j)
    BY <1>1, <2>1 DEF PassedOn, InTurn
  <2>4. j = k
    BY <2>2, <2>3, RunNone
  <2>5. k = m
    BY <2>1, <2>2, <2>3 DEF Joins, Intact, Held
  <2>6. Head(data[2].up) = m + 1 /\ Run(Tail(data[2].up), 0, m + 1, b)
    BY <1>1, <1>2, <1>8, <2>2, RunTail, LaneTypes, Numbers DEF UpAt
  <2>7. data'[1].up = data[1].up /\ data'[2].up = Tail(data[2].up) /\ data'[3].up = <<>>
    BY <1>2, <1>8, <2>2, Numbers, Ways3 DEF LaneBecomes
  <2>8. UpAt(a, b, m + 1)'
    BY <1>1, <1>3, <1>4, <1>6, <2>2, <2>6, <2>7 DEF UpAt
  <2>9. got'.dest = Append(got.dest, m + 1) /\ Run(Append(got.dest, m + 1), 0, 0, m + 1)
    BY <1>2, <1>8, <2>3, <2>4, <2>5, <2>6, RunAppend, LaneTypes
  <2>10. m + 1 \in Nat /\ Run(<<>>, 0, m + 1, m + 1)
    BY RunNone
  <2>11. Joins(2, "up", m + 1, m + 1)'
    BY <1>3, <2>2, <2>10 DEF Joins, Held
  <2>12. InTurn(m + 1)'
    BY <2>7, <2>9, <2>10, <2>11 DEF InTurn
  <2>. QED
    BY <1>4, <2>1, <2>8, <2>10, <2>12 DEF PassedOn, UpInOrder
<1>. QED
  BY <1>7, <1>8 DEF Final

\* The header goes ahead of the chunks, and is taken out before the copies of hop 2 start.
LEMMA UpDialled ==
  ASSUME Shape, [Next]_vars, UpInOrder, DialChain \/ estabFromHeader
  PROVE  UpInOrder'
<1>1. PICK a \in Nat, b \in Nat, m \in Nat : UpAt(a, b, m) /\ PassedOn(m)
  BY DEF UpInOrder
<1>2. UNCHANGED <<mode, sent, got>>
  BY DEF DialChain, estabFromHeader
<1>3. PICK s : LaneBecomes(2, "up", s) /\ Run(s, Leading', m, b)
  <2>1. CASE DialChain
    <3>1. /\ LaneBecomes(2, "up", <<Header>>) /\ Dialling(1)
          /\ handler[1] = "dial" /\ handler[2] = "none" /\ handler'[2] = "dial"
      BY <2>1, ChainDial
    <3>2. Leading = 0 /\ data[2].up = <<>> /\ copy[2]["up"].pc = "none"
      BY <3>1, Numbers, Ways3 DEF Leading, Ahead, Shape, Unopened, NothingAhead
    <3>3. Leading' = 1
      BY <3>1, <3>2, Numbers, Ways3 DEF Leading, Ahead, Dialling
    <3>4. m = b
      BY <1>1, <3>2, RunNone DEF UpAt
    <3>. QED
      BY <3>1, <3>3, <3>4, RunNone
  <2>2. CASE estabFromHeader
    <3>1. LaneBecomes(2, "up", Tail(data[2].up)) /\ Dialling(2) /\ handler[2] = "dial" /\ handler'[2] = "wait"
      BY <2>2, HeaderDial
    <3>2. Leading = 1
      BY <3>1, Numbers, Ways3 DEF Leading, Ahead, Shape, Unopened, NothingAhead
    <3>3. Leading' = 0
      BY <3>1, Numbers, Ways3 DEF Leading, Ahead, Dialling
    <3>4. Run(Tail(data[2].up), 0, m, b)
      BY <1>1, <3>2, RunSkip, LaneTypes, Numbers DEF UpAt
    <3>. QED
      BY <3>1, <3>3, <3>4
  <2>. QED
    BY <2>1, <2>2
<1>4. data'[1].up = data[1].up /\ data'[2].up = s /\ data'[3].up = data[3].up
  BY <1>3, Numbers, Ways3 DEF LaneBecomes
<1>5. \A h \in Hops, d \in Dirs : ~CopyReads(h, d) /\ ~CopyWrites(h, d)
  <2>1. UNCHANGED counted
    BY DEF DialChain, estabFromHeader
  <2>2. handler' # handler
    <3>1. handler[1] # handler'[1] \/ handler[2] # handler'[2]
      BY ChainDial, HeaderDial
    <3>. QED
      BY <3>1
  <2>. QED
    BY <2>2 DEF CopyReads, CopyWrites
<1>6. Joins(1, "up", b, a)'
  BY <1>1, <1>5, JoinsKept, Numbers, Ways3 DEF UpAt
<1>7. UpAt(a, b, m)'
  BY <1>1, <1>2, <1>3, <1>4, <1>6 DEF UpAt
<1>8. PassedOn(m)'
  BY <1>1, <1>2, <1>4, <1>5, PassedStill, Numbers
<1>. QED
  BY <1>7, <1>8 DEF UpInOrder

LEMMA UpKept ==
  ASSUME Shape, [Next]_vars, UpInOrder
  PROVE  UpInOrder'
<1>1. ASSUME NEW h \in Hops, NEW d \in Dirs, d # "down", CopyReads(h, d) \/ CopyWrites(h, d)
      PROVE  UpInOrder'
  <2>1. copy[h][d].pc # "none"
    BY <1>1 DEF CopyReads, CopyWrites
  <2>2. CASE h = 1
    <3>1. d = "up"
      BY <1>1, <2>1, <2>2, Ways3 DEF Shape, RestIsTCP
    <3>. QED
      BY <1>1, <2>2, <3>1, UpReadFirst, UpWriteFirst
  <2>3. CASE h = 2
    BY <1>1, <2>3, UpReadNext, UpWriteNext
  <2>. QED
    BY <2>2, <2>3, Numbers
<1>. QED
  BY <1>1, UpSent, UpReceived, UpDialled, UpStill

LEMMA InitUp == Init => UpInOrder
<1>. SUFFICES ASSUME Init PROVE UpInOrder
  OBVIOUS
<1>1. \A h \in Hops : Joins(h, "up", 0, 0)
  BY DEF Init, Joins, Held, NoCopy, Dirs
<1>2. got.dest = <<>> /\ sent.user = 0 /\ \A l \in Legs : data[l].up = <<>>
  BY DEF Init
<1>3. Run(<<>>, 0, 0, 0) /\ 0 \in Nat
  BY RunNone
<1>4. Leading = 0
  BY Numbers DEF Init, Leading, Ahead
<1>5. UpAt(0, 0, 0)
  BY <1>1, <1>2, <1>3, <1>4, Numbers DEF UpAt
<1>6. InTurn(0)
  BY <1>1, <1>2, <1>3, Numbers DEF InTurn
<1>7. Apart(0)
  <2>1. HeldSet("up") = {} /\ HeldSet("rest") = {}
    BY Numbers DEF Init, HeldSet, NoCopy, Dirs
  <2>2. IsInjective(<<>>) /\ ToSet(<<>>) = {}
    BY DEF IsInjective, ToSet
  <2>. QED
    BY <1>2, <2>1, <2>2, Numbers DEF Apart
<1>. QED
  BY <1>3, <1>5, <1>6, <1>7 DEF PassedOn, UpInOrder

LEMMA UpIsInOrder ==
  ASSUME Shape, UpInOrder
  PROVE  IF TwoReaders THEN IsInjective(got.dest) /\ ToSet(got.dest) \subseteq 1 .. sent.user
                       ELSE IsPrefix(got.dest, Stream(sent.user))
<1>1. PICK a \in Nat, b \in Nat, m \in Nat : UpAt(a, b, m) /\ PassedOn(m)
  BY DEF UpInOrder
<1>2. PICK n \in Nat : n = sent.user
  BY LaneTypes
<1>3. m <= b /\ b <= a /\ a <= n
  BY <1>1, <1>2 DEF UpAt, Run, Joins
<1>4. m <= n /\ 1 .. m \subseteq 1 .. n
  BY <1>3
<1>5. CASE TwoReaders
  BY <1>1, <1>2, <1>4, <1>5 DEF PassedOn, Apart
<1>6. CASE ~TwoReaders
  <2>1. PICK k \in Nat, j \in Nat : Joins(2, "up", k, m) /\ Run(data[3].up, 0, j, k) /\ Run(got.dest, 0, 0, j)
    BY <1>1, <1>6 DEF PassedOn, InTurn
  <2>2. j <= k /\ k <= m
    BY <2>1 DEF Run, Joins
  <2>3. j <= n
    BY <1>4, <2>2
  <2>. QED
    BY <1>2, <1>6, <2>1, <2>3, RunIsPrefix, LaneTypes
<1>. QED
  BY <1>5, <1>6

-----------------------------------------------------------------------------
(* Type correctness. *)

\* What travels each way.
Chunks(d) == IF d = "down" THEN 1 .. Reply ELSE 0 .. Request

Sized ==
  /\ sent.user <= Request /\ sent.dest <= Reply
  /\ \A l \in Legs, w \in Ways : data[l][w] \in Seq(Chunks(w))
  /\ \A h \in Hops, d \in Dirs : copy[h][d].pc = "hold" => copy[h][d].chunk \in Chunks(d)

LEMMA SizedLane ==
  ASSUME Sized, NEW L, NEW W \in Ways, NEW s \in Seq(Chunks(W)), LaneBecomes(L, W, s)
  PROVE  \A l \in Legs, w \in Ways : data'[l][w] \in Seq(Chunks(w))
BY DEF Sized, LaneBecomes

LEMMA SizedEnds ==
  ASSUME Shape, Sized, UserSends \/ DestSends \/ UserReads \/ DestReads
  PROVE  Sized'
<1>1. UNCHANGED copy
  BY DEF UserSends, DestSends, UserReads, DestReads
<1>2. CASE UserSends
  <2>1. PICK n \in Nat : n = sent.user
    BY LaneTypes
  <2>2. LaneBecomes(1, "up", Append(data[1].up, n + 1)) /\ sent'.user = n + 1 /\ sent'.dest = sent.dest
    BY <1>2, <2>1, UserSending DEF Shape
  <2>3. n + 1 <= Request
    BY <1>2, <2>1, SessionAssumption DEF UserSends
  <2>4. n + 1 \in Chunks("up") /\ data[1].up \in Seq(Chunks("up"))
    <3>1. n + 1 \in Chunks("up")
      BY <2>1, <2>3, SessionAssumption DEF Chunks
    <3>2. data[1].up \in Seq(Chunks("up"))
      BY Numbers, Ways3 DEF Sized
    <3>. QED
      BY <3>1, <3>2
  <2>5. Append(data[1].up, n + 1) \in Seq(Chunks("up"))
    BY <2>4, AppendProperties
  <2>6. \A l \in Legs, w \in Ways : data'[l][w] \in Seq(Chunks(w))
    BY <2>2, <2>5, SizedLane, Ways3
  <2>. QED
    BY <1>1, <2>2, <2>3, <2>6 DEF Sized
<1>3. CASE DestSends
  <2>1. PICK n \in Nat : n = sent.dest
    BY LaneTypes
  <2>2. LaneBecomes(Final, "down", Append(data[Final].down, n + 1)) /\ sent'.dest = n + 1 /\ sent'.user = sent.user
    BY <1>3, <2>1, DestSending DEF Shape
  <2>3. n + 1 <= Reply
    BY <1>3, <2>1, SessionAssumption DEF DestSends
  <2>4. n + 1 \in Chunks("down") /\ data[Final].down \in Seq(Chunks("down"))
    <3>1. n + 1 \in Chunks("down")
      BY <2>1, <2>3, SessionAssumption DEF Chunks
    <3>2. data[Final].down \in Seq(Chunks("down"))
      BY FinalIs, Ways3 DEF Sized
    <3>. QED
      BY <3>1, <3>2
  <2>5. Append(data[Final].down, n + 1) \in Seq(Chunks("down"))
    BY <2>4, AppendProperties
  <2>6. \A l \in Legs, w \in Ways : data'[l][w] \in Seq(Chunks(w))
    BY <2>2, <2>5, SizedLane, Ways3
  <2>. QED
    BY <1>1, <2>2, <2>3, <2>6 DEF Sized
<1>4. CASE UserReads
  <2>1. LaneBecomes(1, "down", Tail(data[1].down)) /\ data[1].down # <<>> /\ UNCHANGED sent
    BY <1>4, UserReading DEF Shape, UserReads
  <2>2. Tail(data[1].down) \in Seq(Chunks("down"))
    BY <2>1, HeadTailProperties, Numbers, Ways3 DEF Sized
  <2>3. \A l \in Legs, w \in Ways : data'[l][w] \in Seq(Chunks(w))
    BY <2>1, <2>2, SizedLane, Ways3
  <2>. QED
    BY <1>1, <2>1, <2>3 DEF Sized
<1>5. CASE DestReads
  <2>1. LaneBecomes(Final, "up", Tail(data[Final].up)) /\ data[Final].up # <<>> /\ UNCHANGED sent
    BY <1>5, DestReading DEF Shape, DestReads
  <2>2. Tail(data[Final].up) \in Seq(Chunks("up"))
    BY <2>1, HeadTailProperties, FinalIs, Ways3 DEF Sized
  <2>3. \A l \in Legs, w \in Ways : data'[l][w] \in Seq(Chunks(w))
    BY <2>1, <2>2, SizedLane, Ways3
  <2>. QED
    BY <1>1, <2>1, <2>3 DEF Sized
<1>. QED
  BY <1>2, <1>3, <1>4, <1>5

LEMMA SizedRead ==
  ASSUME Shape, Sized, NEW h \in Hops, NEW d \in Dirs, CopyReads(h, d)
  PROVE  Sized'
<1>1. PICK L, W, c :
        /\ L \in Legs /\ W \in Ways
        /\ L = (IF d = "down" THEN h + 1 ELSE h) /\ W = (IF d = "down" THEN "down" ELSE "up")
        /\ data[L][W] \in Seq(Nat) /\ data[L][W] # <<>> /\ LaneBecomes(L, W, Tail(data[L][W]))
        /\ c.pc = "hold" /\ c.chunk = Head(data[L][W]) /\ CopyBecomes(h, d, c)
  BY ReadAt
<1>2. Chunks(W) = Chunks(d)
  BY <1>1 DEF Chunks
<1>3. Tail(data[L][W]) \in Seq(Chunks(W)) /\ Head(data[L][W]) \in Chunks(d)
  BY <1>1, <1>2, HeadTailProperties DEF Sized
<1>4. \A l \in Legs, w \in Ways : data'[l][w] \in Seq(Chunks(w))
  BY <1>1, <1>3, SizedLane
<1>5. \A k \in Hops, e \in Dirs : copy'[k][e].pc = "hold" => copy'[k][e].chunk \in Chunks(e)
  BY <1>1, <1>3 DEF Sized, CopyBecomes
<1>6. UNCHANGED sent
  BY DEF CopyReads
<1>. QED
  BY <1>4, <1>5, <1>6 DEF Sized

LEMMA SizedWrite ==
  ASSUME Shape, Sized, NEW h \in Hops, NEW d \in Dirs, CopyWrites(h, d)
  PROVE  Sized'
<1>1. PICK L, W, c :
        /\ L \in Legs /\ W \in Ways
        /\ W = (IF d = "down" THEN "down" ELSE "up")
        /\ LaneBecomes(L, W, Append(data[L][W], copy[h][d].chunk))
        /\ c.pc = "read" /\ CopyBecomes(h, d, c)
  BY WriteAt
<1>2. Chunks(W) = Chunks(d)
  BY <1>1 DEF Chunks
<1>3. copy[h][d].chunk \in Chunks(W) /\ data[L][W] \in Seq(Chunks(W))
  BY <1>1, <1>2 DEF Sized, CopyWrites
<1>4. Append(data[L][W], copy[h][d].chunk) \in Seq(Chunks(W))
  BY <1>3, AppendProperties
<1>5. \A l \in Legs, w \in Ways : data'[l][w] \in Seq(Chunks(w))
  BY <1>1, <1>4, SizedLane
<1>6. \A k \in Hops, e \in Dirs : copy'[k][e].pc = "hold" => copy'[k][e].chunk \in Chunks(e)
  BY <1>1 DEF Sized, CopyBecomes
<1>7. UNCHANGED sent
  BY DEF CopyWrites
<1>. QED
  BY <1>5, <1>6, <1>7 DEF Sized

LEMMA SizedKept ==
  ASSUME Shape, Sized, [Next]_vars
  PROVE  Sized'
<1>1. CASE DialChain \/ estabFromHeader
  <2>1. \A h \in Hops, d \in Dirs : ~CopyReads(h, d) /\ ~CopyWrites(h, d)
    <3>1. handler[1] # handler'[1] \/ handler[2] # handler'[2]
      BY <1>1, ChainDial, HeaderDial
    <3>. QED
      BY <3>1 DEF CopyReads, CopyWrites
  <2>2. \A h \in Hops, d \in Dirs : copy'[h][d].pc = "hold" => copy'[h][d].chunk \in Chunks(d)
    BY <2>1, OthersHold DEF Holds, Sized
  <2>3. PICK s \in Seq(Chunks("up")) : LaneBecomes(2, "up", s)
    <3>1. CASE DialChain
      <4>1. Header \in Chunks("up")
        BY SessionAssumption DEF Header, Chunks
      <4>2. <<Header>> \in Seq(Chunks("up"))
        BY <4>1
      <4>. QED
        BY <3>1, <4>2, ChainDial
    <3>2. CASE estabFromHeader
      <4>1. LaneBecomes(2, "up", Tail(data[2].up)) /\ data[2].up # <<>>
        BY <3>2, HeaderDial
      <4>2. Tail(data[2].up) \in Seq(Chunks("up"))
        BY <4>1, HeadTailProperties, Numbers, Ways3 DEF Sized
      <4>. QED
        BY <4>1, <4>2
    <3>. QED
      BY <1>1, <3>1, <3>2
  <2>4. \A l \in Legs, w \in Ways : data'[l][w] \in Seq(Chunks(w))
    BY <2>3, SizedLane, Ways3
  <2>5. UNCHANGED sent
    BY <1>1 DEF DialChain, estabFromHeader
  <2>. QED
    BY <2>2, <2>4, <2>5 DEF Sized
<1>2. ASSUME ~DialChain, ~estabFromHeader, ~UserSends, ~DestSends, ~UserReads, ~DestReads,
             \A h \in Hops, d \in Dirs : ~CopyReads(h, d) /\ ~CopyWrites(h, d)
      PROVE  Sized'
  <2>1. \A h \in Hops, d \in Dirs : copy'[h][d].pc = "hold" => copy'[h][d].chunk \in Chunks(d)
    BY <1>2, OthersHold DEF Holds, Sized
  <2>2. sent'.dest = sent.dest /\ \A l \in Legs : data'[l].down = data[l].down
    BY <1>2, DownStays, Ways3
  <2>3. sent'.user = sent.user /\ \A l \in Legs : data'[l].up = data[l].up
    BY <1>2, UpStays
  <2>4. \A l \in Legs, w \in Ways : data'[l][w] = data[l][w]
    BY <2>2, <2>3 DEF Ways
  <2>. QED
    BY <2>1, <2>2, <2>3, <2>4 DEF Sized
<1>. QED
  BY <1>1, <1>2, SizedEnds, SizedRead, SizedWrite

LEMMA InitSized == Init => Sized
<1>. SUFFICES ASSUME Init PROVE Sized
  OBVIOUS
<1>1. \A l \in Legs, w \in Ways : data[l][w] = <<>>
  BY DEF Init, Ways
<1>2. \A h \in Hops, d \in Dirs : copy[h][d].pc = "none"
  BY DEF Init, NoCopy
<1>3. sent.user = 0 /\ sent.dest = 0
  BY DEF Init
<1>4. \A w \in Ways : <<>> \in Seq(Chunks(w))
  OBVIOUS
<1>5. \A l \in Legs, w \in Ways : data[l][w] \in Seq(Chunks(w))
  BY <1>1, <1>4
<1>6. sent.user <= Request /\ sent.dest <= Reply
  BY <1>3, SessionAssumption
<1>7. \A h \in Hops, d \in Dirs : copy[h][d].pc # "hold"
  BY <1>2
<1>. QED
  BY <1>5, <1>6, <1>7 DEF Sized

LEMMA SizedIsTyped ==
  ASSUME Shape, Sized, CountedOnce
  PROVE  TypeOK
<1>1. \A l \in Legs : data[l].up \in Seq(0 .. Request) /\ data[l].down \in Seq(1 .. Reply)
  BY Ways3 DEF Sized, Chunks
<1>2. PICK n, m, t \in Nat : n = sent.user /\ m = sent.dest /\ t = counted
  BY DEF Shape, SessionTypes
<1>3. n \in 0 .. Request /\ m \in 0 .. Reply
  BY <1>2, SessionAssumption DEF Sized
<1>4. t <= n + m
  BY <1>2 DEF CountedOnce
<1>5. t \in 0 .. Request + Reply
  BY <1>3, <1>4, SessionAssumption
<1>. QED
  BY <1>1, <1>2, <1>3, <1>5 DEF Shape, SessionTypes, TypeOK

-----------------------------------------------------------------------------
SessionInv == Shape /\ Sized /\ Flow /\ Arrival /\ DownInOrder /\ UpInOrder

\* What the theorems below rest on: every step of the two ends, the handlers, their copies and the collector keeps
\* the connections in shape, the chunks accounted for and in order, and what closes behind the last of them.
THEOREM SessionInvariant == Spec => []SessionInv
<1>1. Init => SessionInv
  BY InitShape, InitSized, InitFlow, InitArrival, InitDown, InitUp DEF SessionInv
<1>2. SessionInv /\ [Next]_vars => SessionInv'
  BY ShapeKept, SizedKept, FlowKept, ArrivalKept, DownKept, UpKept DEF SessionInv
<1>. QED
  BY <1>1, <1>2, PTL DEF Spec

\* Type correctness, with the bounds on what is sent and counted.
THEOREM TypeCorrect == Spec => []TypeOK
<1>1. SessionInv => TypeOK
  BY SizedIsTyped, FlowIsCounted DEF SessionInv
<1>. QED
  BY <1>1, SessionInvariant, PTL

\* Neither side receives what the other has not sent, nor in another order, behind whatever connectors and whichever
\* of their connections closes when; behind a TCP chain the two readers still never deliver a chunk twice.
THEOREM StreamsAreInOrder == Spec => []InOrder
<1>1. SessionInv => InOrder
  BY DownIsPrefix, UpIsInOrder DEF SessionInv, InOrder
<1>. QED
  BY <1>1, SessionInvariant, PTL

\* A side that finds the connection closed after the last byte has received all the other side sent.
THEOREM EverythingArrives == Spec => []AllArrives
<1>1. SessionInv => AllArrives
  BY ArrivalIsFlow DEF SessionInv
<1>. QED
  BY <1>1, SessionInvariant, PTL

\* The hop next to the user counts every chunk before it is delivered and none that was not sent.
THEOREM ChunksAreCountedOnce == Spec => []CountedOnce
<1>1. SessionInv => CountedOnce
  BY FlowIsCounted DEF SessionInv
<1>. QED
  BY <1>1, SessionInvariant, PTL
=============================================================================
