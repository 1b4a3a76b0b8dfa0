--------------------------- MODULE Metering_proofs ---------------------------
(***************************************************************************)
(* Theorems about Metering, for any number of connectors, rules and users, *)
(* any rates and any number of bytes and faults.                           *)
(*                                                                         *)
(* The bytes are followed connector by connector.  The last part is about  *)
(* sums: what a sum over a finite set is, and that a user's day and the    *)
(* columns of the user's rules differ by the reports between the two.      *)
(***************************************************************************)
EXTENDS Metering, FiniteSetTheorems, WellFoundedInduction, TLAPS

-----------------------------------------------------------------------------
(* Type correctness. *)

LEMMA InitType == Init => TypeOK
BY DEF Init, TypeOK, NoReport, Conn, Rep, Tally

\* A connector changes state and keeps what it was opened for.
LEMMA ConnMoves ==
  ASSUME TypeOK, NEW c \in Conns, NEW st \in {"draining", "closed"}, conn[c].st # "new",
         conn' = [conn EXCEPT ![c].st = st]
  PROVE  /\ conn' \in [Conns -> Conn]
         /\ \A d \in Conns : /\ conn'[d].port = conn[d].port /\ conn'[d].rule = conn[d].rule
                             /\ conn'[d].st = (IF d = c THEN st ELSE conn[d].st)
BY DEF TypeOK, Conn

\* A report ends.
LEMMA ReportEnds ==
  ASSUME TypeOK, NEW c \in Conns, rep' = [rep EXCEPT ![c] = NoReport]
  PROVE  /\ rep' \in [Conns -> Rep]
         /\ rep'[c] = NoReport /\ \A d \in Conns \ {c} : rep'[d] = rep[d]
BY DEF TypeOK, Rep, NoReport

\* A report that is charged, and one that is paid, has what it comes to written with it.
LEMMA ReportAdds ==
  ASSUME TypeOK, NEW c \in Conns, NEW pc \in {"upsert", "reply"}, NEW add \in Nat,
         rep' = [rep EXCEPT ![c].pc = pc, ![c].add = add]
  PROVE  /\ rep' \in [Conns -> Rep]
         /\ rep'[c].pc = pc /\ rep'[c].amount = rep[c].amount /\ rep'[c].rule = rep[c].rule
         /\ rep'[c].add = add
         /\ \A d \in Conns \ {c} : rep'[d] = rep[d]
<1> DEFINE new == [rep[c] EXCEPT !.pc = pc, !.add = add]
<1>1. rep \in [Conns -> Rep] /\ rep[c] \in Rep
  BY DEF TypeOK
<1>2. rep' = [rep EXCEPT ![c] = new]
  BY <1>1 DEF Rep
<1>3. new \in Rep
  BY <1>1 DEF Rep
<1>4. new.pc = pc /\ new.amount = rep[c].amount /\ new.rule = rep[c].rule /\ new.add = add
  BY <1>1 DEF Rep
<1> HIDE DEF new
<1>5. rep' \in [Conns -> Rep]
  BY <1>1, <1>2, <1>3
<1>6. rep'[c] = new /\ \A d \in Conns \ {c} : rep'[d] = rep[d]
  BY <1>1, <1>2
<1> QED
  BY <1>4, <1>5, <1>6

LEMMA ReportFinds ==
  ASSUME TypeOK, NEW c \in Conns, NEW r \in Rules, NEW rate \in Rates,
         rep' = [rep EXCEPT ![c].pc = "charge", ![c].rule = r, ![c].rate = rate]
  PROVE  /\ rep' \in [Conns -> Rep]
         /\ rep'[c].pc = "charge" /\ rep'[c].amount = rep[c].amount /\ rep'[c].rule = r
         /\ \A d \in Conns \ {c} : rep'[d] = rep[d]
<1> DEFINE new == [rep[c] EXCEPT !.pc = "charge", !.rule = r, !.rate = rate]
<1>1. rep \in [Conns -> Rep] /\ rep[c] \in Rep
  BY DEF TypeOK
<1>2. rep' = [rep EXCEPT ![c] = new]
  BY <1>1 DEF Rep
<1>3. new \in Rep
  BY <1>1 DEF Rep
<1>4. new.pc = "charge" /\ new.amount = rep[c].amount /\ new.rule = r
  BY <1>1 DEF Rep
<1> HIDE DEF new
<1>5. rep' \in [Conns -> Rep]
  BY <1>1, <1>2, <1>3
<1>6. rep'[c] = new /\ \A d \in Conns \ {c} : rep'[d] = rep[d]
  BY <1>1, <1>2
<1> QED
  BY <1>4, <1>5, <1>6

LEMMA ReportStarts ==
  ASSUME TypeOK, NEW c \in Conns,
         rep' = [rep EXCEPT ![c] = [NoReport EXCEPT !.pc = "lookup", !.amount = cur[c]]]
  PROVE  /\ rep' \in [Conns -> Rep]
         /\ rep'[c].pc = "lookup" /\ rep'[c].amount = cur[c]
         /\ \A d \in Conns \ {c} : rep'[d] = rep[d]
BY DEF TypeOK, Rep, NoReport

LEMMA TallyCarries ==
  ASSUME TypeOK, NEW c \in Conns, NEW n \in Nat,
         tally' = [tally EXCEPT ![c].carried = @ + 1, ![c].missed = @ + n]
  PROVE  /\ tally' \in [Conns -> Tally]
         /\ tally'[c].carried = tally[c].carried + 1
         /\ tally'[c].missed = tally[c].missed + n
         /\ tally'[c].paid = tally[c].paid /\ tally'[c].again = tally[c].again
         /\ tally'[c].payers = tally[c].payers
         /\ \A d \in Conns \ {c} : tally'[d] = tally[d]
<1>1. tally \in [Conns -> Tally] /\ tally[c] \in Tally
  BY DEF TypeOK
<1> DEFINE new == [tally[c] EXCEPT !.carried = tally[c].carried + 1,
                                  !.missed = tally[c].missed + n]
<1>2. tally' = [tally EXCEPT ![c] = new]
  BY <1>1 DEF Tally
<1>3. new \in Tally
  <2>1. tally[c].carried + 1 \in Nat /\ tally[c].missed + n \in Nat
    BY <1>1 DEF Tally
  <2> QED
    BY <1>1, <2>1 DEF Tally
<1>4. /\ new.carried = tally[c].carried + 1 /\ new.missed = tally[c].missed + n
      /\ new.paid = tally[c].paid /\ new.again = tally[c].again /\ new.payers = tally[c].payers
  BY <1>1 DEF Tally
<1> HIDE DEF new
<1> QED
  BY <1>1, <1>2, <1>3, <1>4

LEMMA TallyPays ==
  ASSUME TypeOK, NEW c \in Conns, NEW u \in Users,
         tally' = [tally EXCEPT ![c].paid = @ + rep[c].amount, ![c].payers = @ \cup {u}]
  PROVE  /\ tally' \in [Conns -> Tally]
         /\ tally'[c].paid = tally[c].paid + rep[c].amount
         /\ tally'[c].carried = tally[c].carried /\ tally'[c].again = tally[c].again
         /\ tally'[c].missed = tally[c].missed /\ tally'[c].payers = tally[c].payers \cup {u}
         /\ \A d \in Conns \ {c} : tally'[d] = tally[d]
<1>1. tally \in [Conns -> Tally] /\ tally[c] \in Tally /\ rep[c].amount \in Nat
  BY DEF TypeOK, Rep
<1> DEFINE new == [tally[c] EXCEPT !.paid = tally[c].paid + rep[c].amount,
                                  !.payers = tally[c].payers \cup {u}]
<1>2. tally' = [tally EXCEPT ![c] = new]
  BY <1>1 DEF Tally
<1>3. new \in Tally
  <2>1. tally[c].paid + rep[c].amount \in Nat
    BY <1>1 DEF Tally
  <2>2. tally[c].payers \cup {u} \in SUBSET Users
    BY <1>1 DEF Tally
  <2> QED
    BY <1>1, <2>1, <2>2 DEF Tally
<1>4. /\ new.paid = tally[c].paid + rep[c].amount
      /\ new.carried = tally[c].carried /\ new.again = tally[c].again
      /\ new.missed = tally[c].missed /\ new.payers = tally[c].payers \cup {u}
  BY <1>1 DEF Tally
<1> HIDE DEF new
<1> QED
  BY <1>1, <1>2, <1>3, <1>4

LEMMA TallyRepeats ==
  ASSUME TypeOK, NEW c \in Conns, NEW n \in Nat,
         tally' = [tally EXCEPT ![c].again = @ + n, ![c].faults = @ + 1]
  PROVE  /\ tally' \in [Conns -> Tally]
         /\ tally'[c].again = tally[c].again + n
         /\ tally'[c].carried = tally[c].carried /\ tally'[c].paid = tally[c].paid
         /\ tally'[c].missed = tally[c].missed /\ tally'[c].payers = tally[c].payers
         /\ \A d \in Conns \ {c} : tally'[d] = tally[d]
<1> DEFINE new == [tally[c] EXCEPT !.again = tally[c].again + n, !.faults = tally[c].faults + 1]
<1>1. tally \in [Conns -> Tally] /\ tally[c] \in Tally
  BY DEF TypeOK
<1>2. tally' = [tally EXCEPT ![c] = new]
  BY <1>1 DEF Tally
<1>3. new \in Tally
  <2>1. tally[c].again + n \in Nat /\ tally[c].faults + 1 \in Nat
    BY <1>1 DEF Tally
  <2> QED
    BY <1>1, <2>1 DEF Tally
<1>4. /\ new.again = tally[c].again + n
      /\ new.carried = tally[c].carried /\ new.paid = tally[c].paid
      /\ new.missed = tally[c].missed /\ new.payers = tally[c].payers
  BY <1>1 DEF Tally
<1> HIDE DEF new
<1> QED
  BY <1>1, <1>2, <1>3, <1>4

LEMMA TallyFails ==
  ASSUME TypeOK, NEW c \in Conns, tally' = [tally EXCEPT ![c].faults = @ + 1]
  PROVE  /\ tally' \in [Conns -> Tally]
         /\ tally'[c].again = tally[c].again
         /\ tally'[c].carried = tally[c].carried /\ tally'[c].paid = tally[c].paid
         /\ tally'[c].missed = tally[c].missed /\ tally'[c].payers = tally[c].payers
         /\ \A d \in Conns \ {c} : tally'[d] = tally[d]
<1> DEFINE new == [tally[c] EXCEPT !.faults = tally[c].faults + 1]
<1>1. tally \in [Conns -> Tally] /\ tally[c] \in Tally
  BY DEF TypeOK
<1>2. tally' = [tally EXCEPT ![c] = new]
  BY <1>1 DEF Tally
<1>3. new \in Tally
  <2>1. tally[c].faults + 1 \in Nat
    BY <1>1 DEF Tally
  <2> QED
    BY <1>1, <2>1 DEF Tally
<1>4. /\ new.again = tally[c].again
      /\ new.carried = tally[c].carried /\ new.paid = tally[c].paid
      /\ new.missed = tally[c].missed /\ new.payers = tally[c].payers
  BY <1>1 DEF Tally
<1> HIDE DEF new
<1> QED
  BY <1>1, <1>2, <1>3, <1>4

-----------------------------------------------------------------------------
(* The inductive invariant.  What it says of one connector's count, report *)
(* and bytes is its ledger; the rest is about whose bytes they are.        *)

Ledger(c) ==
  LET t == tally[c] IN
  /\ t.paid + cur[c] <= t.carried + t.again + IF In(c, "reply") THEN rep[c].amount ELSE 0
  /\ t.paid + (IF Sent(c) THEN rep[c].amount ELSE 0) <= t.carried + t.again
  /\ t.carried <= t.paid + cur[c] + t.missed
  /\ In(c, "reply") => t.carried <= t.paid + t.missed
  /\ Sent(c) => t.carried <= t.paid + rep[c].amount + t.missed

LEMMA Ledgers == NotChargedYet /\ MissedIsMore <=> \A c \in Conns : Ledger(c)
BY DEF NotChargedYet, MissedIsMore, Ledger

LEMMA InitMeter == Init => MeterInv
<1> SUFFICES ASSUME Init PROVE MeterInv
  OBVIOUS
<1>1. \A c \in Conns : Ledger(c)
  BY DEF Init, Ledger, In, Sent, NoReport
<1>2. UnusedIsIdle /\ FindsOwnRule /\ OwnTraffic
  BY DEF Init, UnusedIsIdle, FindsOwnRule, OwnTraffic, In, NoReport
<1>3. CrowdsAreNoted
  <2> SUFFICES ASSUME NEW p \in Ports PROVE Parties(p) = {}
    BY DEF CrowdsAreNoted, Crowded
  <2>1. RowsOn(p) = {}
    BY DEF Init, RowsOn
  <2>2. \A c \in Conns : ~Holds(c)
    BY DEF Init, Holds, Carries, In, NoReport
  <2> QED
    BY <2>1, <2>2 DEF Parties
<1> QED
  BY <1>1, <1>2, <1>3, Ledgers DEF MeterInv

\* Nobody meets anybody when rows and bytes only go away.
LEMMA NobodyMeets ==
  ASSUME TypeOK, MeterInv,
         relet' = relet,
         \A r \in Rules : row'[r] = "live" => row[r] = "live" /\ at'[r] = at[r],
         \A c \in Conns : Holds(c)' => Holds(c) /\ conn'[c].port = conn[c].port
                                                /\ conn'[c].rule = conn[c].rule
  PROVE  CrowdsAreNoted'
<1> SUFFICES ASSUME NEW p \in Ports, NEW u \in Parties(p)', NEW v \in Parties(p)', u # v
             PROVE  p \in relet
  BY DEF CrowdsAreNoted, Crowded
<1>1. RowsOn(p)' \subseteq RowsOn(p)
  BY DEF RowsOn
<1>2. Parties(p)' \subseteq Parties(p)
  BY <1>1 DEF Parties
<1> QED
  BY <1>2 DEF MeterInv, CrowdsAreNoted, Crowded

\* The users on a port are all one when their traffic has not met.
LEMMA OneParty ==
  ASSUME TypeOK, MeterInv, NEW c \in Conns, Holds(c), conn[c].port \in Ports \ relet,
         NEW r \in RowsOn(conn[c].port)
  PROVE  Owner[r] = Owner[conn[c].rule]
<1>1. Owner[r] \in Parties(conn[c].port) /\ Owner[conn[c].rule] \in Parties(conn[c].port)
  BY DEF Parties
<1> QED
  BY <1>1 DEF MeterInv, CrowdsAreNoted, Crowded

\* A connector that has something to do was opened.
LEMMA BusyIsOpened ==
  ASSUME TypeOK, MeterInv, NEW c \in Conns,
         Carries(c) \/ cur[c] > 0 \/ ~In(c, "rest")
  PROVE  conn[c].st # "new" /\ conn[c].port \in Ports /\ conn[c].rule \in Rules
BY DEF TypeOK, MeterInv, UnusedIsIdle, Carries

\* What a step of connector c has to show.
LEMMA ConnectorKeeps ==
  ASSUME TypeOK, MeterInv, NEW c \in Conns, conn[c].st # "new", conn'[c].st # "new",
         UNCHANGED <<row, at, relet>>,
         traffic' \in [Rules -> Nat], daily' \in [Users -> Nat],
         fresh' \subseteq Users, torn' \subseteq Users,
         conn' \in [Conns -> Conn], cur' \in [Conns -> Nat],
         rep' \in [Conns -> Rep], tally' \in [Conns -> Tally],
         \A d \in Conns : conn'[d].port = conn[d].port /\ conn'[d].rule = conn[d].rule,
         \A d \in Conns \ {c} : conn'[d].st = conn[d].st /\ cur'[d] = cur[d]
                                /\ rep'[d] = rep[d] /\ tally'[d] = tally[d],
         Holds(c)' => Holds(c),
         rep'[c].pc \in {"charge", "upsert", "reply"} => rep'[c].rule \in Rules,
         Ledger(c)',
         rep'[c].pc \in {"charge", "upsert"} /\ conn[c].port \notin relet
           => Owner[rep'[c].rule] = Owner[conn[c].rule],
         conn[c].port \notin relet
           => tally'[c].payers \subseteq tally[c].payers \cup {Owner[conn[c].rule]}
  PROVE  TypeOK' /\ MeterInv'
<1>1. TypeOK'
  BY DEF TypeOK
<1>2. NotChargedYet' /\ MissedIsMore'
  <2>1. \A d \in Conns : Ledger(d)'
    <3> SUFFICES ASSUME NEW d \in Conns, d # c PROVE Ledger(d)'
      OBVIOUS
    <3>1. Ledger(d)
      BY Ledgers DEF MeterInv
    <3> QED
      BY <3>1 DEF Ledger, In, Sent
  <2> QED
    BY <2>1 DEF NotChargedYet, MissedIsMore, Ledger
<1>3. UnusedIsIdle'
  BY DEF MeterInv, UnusedIsIdle, In
<1>4. CrowdsAreNoted'
  <2>1. \A d \in Conns \ {c} : Holds(d)' => Holds(d)
    BY DEF Holds, Carries, In
  <2> QED
    BY <2>1, NobodyMeets
<1>5. FindsOwnRule'
  BY DEF MeterInv, FindsOwnRule, Payer
<1>6. OwnTraffic'
  BY DEF MeterInv, OwnTraffic
<1> QED
  BY <1>1, <1>2, <1>3, <1>4, <1>5, <1>6 DEF MeterInv

LEMMA Counts ==
  ASSUME TypeOK, NEW c \in Conns
  PROVE  /\ tally[c].carried \in Nat /\ tally[c].paid \in Nat /\ tally[c].again \in Nat
         /\ tally[c].missed \in Nat /\ tally[c].payers \subseteq Users
         /\ cur[c] \in Nat /\ rep[c].amount \in Nat /\ rep[c].add \in Nat
         /\ rep[c].pc \in {"rest", "lookup", "charge", "upsert", "reply"}
<1>1. tally[c] \in Tally /\ rep[c] \in Rep /\ cur[c] \in Nat
  BY DEF TypeOK
<1>2. /\ rep[c].amount \in Nat /\ rep[c].add \in Nat
      /\ rep[c].pc \in {"rest", "lookup", "charge", "upsert", "reply"}
  BY <1>1 DEF Rep
<1> QED
  BY <1>1, <1>2 DEF Tally

LEMMA CarryKeeps ==
  ASSUME TypeOK, MeterInv, NEW c \in Conns, Carry(c)
  PROVE  TypeOK' /\ MeterInv'
<1>1. conn[c].st # "new" /\ Holds(c)
  BY BusyIsOpened DEF Carry, Holds
<1>2. /\ cur' \in [Conns -> Nat] /\ cur'[c] = cur[c] + 1
      /\ \A d \in Conns \ {c} : cur'[d] = cur[d]
  BY DEF Carry, TypeOK
<1>3. Late(c) \in Nat /\ Late(c) = IF In(c, "rest") THEN 0 ELSE 1
  BY DEF Late
<1>4. /\ tally' \in [Conns -> Tally]
      /\ tally'[c].carried = tally[c].carried + 1
      /\ tally'[c].missed = tally[c].missed + Late(c)
      /\ tally'[c].paid = tally[c].paid /\ tally'[c].again = tally[c].again
      /\ tally'[c].payers = tally[c].payers
      /\ \A d \in Conns \ {c} : tally'[d] = tally[d]
  BY <1>3, TallyCarries DEF Carry
<1>5. Ledger(c)'
  <2>1. Ledger(c) /\ rep' = rep
    BY Ledgers DEF MeterInv, Carry
  <2> QED
    BY <2>1, <1>2, <1>3, <1>4, Counts DEF Ledger, In, Sent
<1> QED
  BY <1>1, <1>2, <1>4, <1>5, ConnectorKeeps
     DEF Carry, db, TypeOK, MeterInv, FindsOwnRule, Payer

LEMMA SessionsEndKeeps ==
  ASSUME TypeOK, MeterInv, NEW c \in Conns, SessionsEnd(c)
  PROVE  TypeOK' /\ MeterInv'
<1>1. conn[c].st = "draining" /\ Holds(c)
  BY DEF SessionsEnd, Holds, Carries
<1>2. /\ conn' \in [Conns -> Conn]
      /\ \A d \in Conns : /\ conn'[d].port = conn[d].port /\ conn'[d].rule = conn[d].rule
                          /\ conn'[d].st = (IF d = c THEN "closed" ELSE conn[d].st)
  BY <1>1, ConnMoves DEF SessionsEnd
<1>3. Ledger(c)'
  <2>1. Ledger(c) /\ rep' = rep /\ cur' = cur /\ tally' = tally
    BY Ledgers DEF MeterInv, SessionsEnd
  <2> QED
    BY <2>1 DEF Ledger, In, Sent
<1>4. UNCHANGED <<row, at, traffic, daily, fresh, cur, rep, tally, relet, torn>>
  BY DEF SessionsEnd, db
<1>5. /\ conn[c].st # "new" /\ conn'[c].st # "new"
      /\ \A d \in Conns \ {c} : conn'[d].st = conn[d].st
  BY <1>1, <1>2
<1>6. /\ rep[c].pc \in {"charge", "upsert", "reply"} => rep[c].rule \in Rules
      /\ rep[c].pc \in {"charge", "upsert"} /\ conn[c].port \notin relet
           => Owner[rep[c].rule] = Owner[conn[c].rule]
  BY DEF TypeOK, MeterInv, FindsOwnRule, Payer
<1>7. /\ traffic \in [Rules -> Nat] /\ daily \in [Users -> Nat]
      /\ fresh \subseteq Users /\ torn \subseteq Users
      /\ cur \in [Conns -> Nat] /\ rep \in [Conns -> Rep] /\ tally \in [Conns -> Tally]
  BY DEF TypeOK
<1> QED
  BY <1>1, <1>2, <1>3, <1>4, <1>5, <1>6, <1>7, ConnectorKeeps

\* A step of the reporter that leaves the connector and the tables alone.
LEMMA ReporterKeeps ==
  ASSUME TypeOK, MeterInv, NEW c \in Conns,
         Holds(c) \/ ~In(c, "rest"),
         UNCHANGED <<db, conn, relet>>,
         torn' \subseteq Users,
         cur' \in [Conns -> Nat], rep' \in [Conns -> Rep], tally' \in [Conns -> Tally],
         \A d \in Conns \ {c} : cur'[d] = cur[d] /\ rep'[d] = rep[d] /\ tally'[d] = tally[d],
         Holds(c)' => Holds(c),
         rep'[c].pc \in {"charge", "upsert", "reply"} => rep'[c].rule \in Rules,
         Ledger(c)',
         rep'[c].pc \in {"charge", "upsert"} /\ conn[c].port \notin relet
           => Owner[rep'[c].rule] = Owner[conn[c].rule],
         tally'[c].payers = tally[c].payers
  PROVE  TypeOK' /\ MeterInv'
<1>1. conn[c].st # "new"
  BY BusyIsOpened DEF Holds, In
<1>2. conn'[c].st # "new"
  BY <1>1
<1> QED
  BY <1>1, <1>2, ConnectorKeeps DEF db, TypeOK

LEMMA ReportKeeps ==
  ASSUME TypeOK, MeterInv, NEW c \in Conns, Report(c)
  PROVE  TypeOK' /\ MeterInv'
<1>1. In(c, "rest") /\ Holds(c) /\ UNCHANGED <<db, conn, cur, tally, relet, torn>>
  BY DEF Report, Holds
<1>2. /\ rep' \in [Conns -> Rep] /\ rep'[c].pc = "lookup" /\ rep'[c].amount = cur[c]
      /\ \A d \in Conns \ {c} : rep'[d] = rep[d]
  BY ReportStarts DEF Report
<1>3. Ledger(c)'
  <2>1. Ledger(c)
    BY Ledgers DEF MeterInv
  <2> QED
    BY <2>1, <1>1, <1>2, Counts DEF Ledger, In, Sent
<1> QED
  BY <1>1, <1>2, <1>3, ReporterKeeps DEF TypeOK

LEMMA AcceptedKeeps ==
  ASSUME TypeOK, MeterInv, NEW c \in Conns, Accepted(c)
  PROVE  TypeOK' /\ MeterInv'
<1>1. In(c, "reply") /\ ~In(c, "rest") /\ UNCHANGED <<db, conn, tally, relet, torn>>
  BY DEF Accepted, In
<1>2. /\ rep' \in [Conns -> Rep] /\ rep'[c] = NoReport
      /\ \A d \in Conns \ {c} : rep'[d] = rep[d]
  BY ReportEnds DEF Accepted
<1>3. /\ cur' \in [Conns -> Nat] /\ cur'[c] = 0
      /\ \A d \in Conns \ {c} : cur'[d] = cur[d]
  BY DEF Accepted, TypeOK
<1>4. rep'[c].pc = "rest"
  BY <1>2 DEF NoReport
<1>5. Ledger(c)'
  <2>1. Ledger(c)
    BY Ledgers DEF MeterInv
  <2> QED
    BY <2>1, <1>1, <1>3, <1>4, Counts DEF Ledger, In, Sent
<1>6. Holds(c)' => Holds(c)
  BY <1>1, <1>3, <1>4 DEF Holds, Carries, In
<1> QED
  BY <1>1, <1>2, <1>3, <1>4, <1>5, <1>6, ReporterKeeps DEF TypeOK

\* The report is over, and the agent will make it again.
LEMMA RefusedKeeps ==
  ASSUME TypeOK, MeterInv, NEW c \in Conns, Sent(c),
         rep' = [rep EXCEPT ![c] = NoReport],
         UNCHANGED <<db, conn, cur, relet>>, torn' \subseteq Users,
         tally' = tally \/ tally' = [tally EXCEPT ![c].faults = @ + 1]
  PROVE  TypeOK' /\ MeterInv'
<1>1. ~In(c, "rest") /\ ~In(c, "reply")
  BY DEF Sent, In
<1>2. /\ rep' \in [Conns -> Rep] /\ rep'[c].pc = "rest"
      /\ \A d \in Conns \ {c} : rep'[d] = rep[d]
  BY ReportEnds DEF NoReport
<1>3. /\ tally' \in [Conns -> Tally]
      /\ tally'[c].again = tally[c].again
      /\ tally'[c].carried = tally[c].carried /\ tally'[c].paid = tally[c].paid
      /\ tally'[c].missed = tally[c].missed /\ tally'[c].payers = tally[c].payers
      /\ \A d \in Conns \ {c} : tally'[d] = tally[d]
  BY TallyFails DEF TypeOK
<1>4. Ledger(c)'
  <2>1. Ledger(c)
    BY Ledgers DEF MeterInv
  <2> QED
    BY <2>1, <1>1, <1>2, <1>3, Counts DEF Ledger, In, Sent
<1>5. Holds(c)' => Holds(c)
  BY <1>2 DEF Holds, Carries, In
<1> QED
  BY <1>1, <1>2, <1>3, <1>4, <1>5, ReporterKeeps DEF TypeOK

LEMMA ReplyLostKeeps ==
  ASSUME TypeOK, MeterInv, NEW c \in Conns, ReplyLost(c)
  PROVE  TypeOK' /\ MeterInv'
<1>1. /\ In(c, "reply") /\ ~In(c, "rest") /\ UNCHANGED <<db, conn, cur, relet, torn>>
  BY DEF ReplyLost, In
<1>2. /\ rep' \in [Conns -> Rep] /\ rep'[c].pc = "rest"
      /\ \A d \in Conns \ {c} : rep'[d] = rep[d]
  BY ReportEnds DEF NoReport, ReplyLost
<1>3. /\ tally' \in [Conns -> Tally]
      /\ tally'[c].again = tally[c].again + rep[c].amount
      /\ tally'[c].carried = tally[c].carried /\ tally'[c].paid = tally[c].paid
      /\ tally'[c].missed = tally[c].missed /\ tally'[c].payers = tally[c].payers
      /\ \A d \in Conns \ {c} : tally'[d] = tally[d]
  BY TallyRepeats, Counts DEF ReplyLost
<1>4. Ledger(c)'
  <2>1. Ledger(c)
    BY Ledgers DEF MeterInv
  <2> QED
    BY <2>1, <1>1, <1>2, <1>3, Counts DEF Ledger, In, Sent
<1>5. Holds(c)' => Holds(c)
  BY <1>1, <1>2 DEF Holds, Carries, In
<1> QED
  BY <1>1, <1>2, <1>3, <1>4, <1>5, ReporterKeeps DEF TypeOK

LEMMA LookupKeeps ==
  ASSUME TypeOK, MeterInv, NEW c \in Conns, Lookup(c)
  PROVE  TypeOK' /\ MeterInv'
<1>1. In(c, "lookup") /\ Sent(c) /\ Holds(c) /\ ~In(c, "reply")
  BY DEF Lookup, In, Sent, Holds
<1>2. UNCHANGED <<db, conn, cur, tally, relet, torn>>
  BY DEF Lookup
<1>3. CASE \E r \in RowsOn(conn[c].port), rate \in Rates :
             rep' = [rep EXCEPT ![c].pc = "charge", ![c].rule = r, ![c].rate = rate]
  <2>1. PICK r \in RowsOn(conn[c].port), rate \in Rates :
          rep' = [rep EXCEPT ![c].pc = "charge", ![c].rule = r, ![c].rate = rate]
    BY <1>3
  <2>2. r \in Rules
    BY DEF RowsOn
  <2>3. /\ rep' \in [Conns -> Rep]
        /\ rep'[c].pc = "charge" /\ rep'[c].amount = rep[c].amount /\ rep'[c].rule = r
        /\ \A d \in Conns \ {c} : rep'[d] = rep[d]
    BY <2>1, <2>2, ReportFinds
  <2>4. Ledger(c)'
    <3>1. Ledger(c)
      BY Ledgers DEF MeterInv
    <3> QED
      BY <3>1, <1>1, <1>2, <2>3, Counts DEF Ledger, In, Sent
  <2>5. conn[c].port \notin relet => Owner[r] = Owner[conn[c].rule]
    BY <1>1, OneParty, BusyIsOpened DEF In
  <2> QED
    BY <1>1, <1>2, <2>2, <2>3, <2>4, <2>5, ReporterKeeps DEF TypeOK
<1>4. CASE rep' = [rep EXCEPT ![c] = NoReport]
  BY <1>1, <1>2, <1>4, RefusedKeeps DEF TypeOK
<1> QED
  BY <1>3, <1>4 DEF Lookup

LEMMA UnreachedKeeps ==
  ASSUME TypeOK, MeterInv, NEW c \in Conns, Unreached(c)
  PROVE  TypeOK' /\ MeterInv'
<1>1. Sent(c) /\ UNCHANGED <<db, conn, cur, tally, relet, torn>>
  BY DEF Unreached, In, Sent
<1> QED
  BY <1>1, RefusedKeeps DEF Unreached, TypeOK

LEMMA UpsertFailsKeeps ==
  ASSUME TypeOK, MeterInv, NEW c \in Conns, UpsertFails(c)
  PROVE  TypeOK' /\ MeterInv'
<1>1. Sent(c) /\ rep[c].rule \in Rules /\ UNCHANGED <<db, conn, cur, relet>>
  BY DEF UpsertFails, In, Sent, TypeOK
<1>2. torn' \subseteq Users
  BY <1>1, MeteringAssumption DEF UpsertFails, Payer, TypeOK
<1> QED
  BY <1>1, <1>2, RefusedKeeps DEF UpsertFails

LEMMA SumsAreNat == \A b, rate : AddTraffic(b, rate) \subseteq Nat
BY DEF AddTraffic

LEMMA ChargeKeeps ==
  ASSUME TypeOK, MeterInv, NEW c \in Conns, Charge(c)
  PROVE  TypeOK' /\ MeterInv'
<1>1. /\ In(c, "charge") /\ ~In(c, "rest") /\ Sent(c) /\ rep[c].rule \in Rules
      /\ UNCHANGED <<row, at, daily, fresh, conn, cur, tally, relet>>
  BY DEF Charge, In, Sent, TypeOK
<1>0. PICK add \in AddTraffic(rep[c].amount, rep[c].rate) :
        /\ traffic' = [r \in Rules |-> IF r \in RowsOn(conn[c].port) THEN traffic[r] + add ELSE traffic[r]]
        /\ rep' = [rep EXCEPT ![c].pc = "upsert", ![c].add = add]
  BY DEF Charge
<1>2. /\ rep' \in [Conns -> Rep]
      /\ rep'[c].pc = "upsert" /\ rep'[c].amount = rep[c].amount /\ rep'[c].rule = rep[c].rule
      /\ \A d \in Conns \ {c} : rep'[d] = rep[d]
  BY <1>0, SumsAreNat, ReportAdds
<1>3. traffic' \in [Rules -> Nat]
  BY <1>0, SumsAreNat DEF TypeOK
<1>4. torn' \subseteq Users
  BY <1>1, MeteringAssumption DEF Charge, RowsOn, TypeOK
<1>5. conn[c].st # "new" /\ conn'[c].st # "new"
  BY <1>1, BusyIsOpened
<1>6. Ledger(c)'
  <2>1. Ledger(c)
    BY Ledgers DEF MeterInv
  <2> QED
    BY <2>1, <1>1, <1>2, Counts DEF Ledger, In, Sent
<1>7. Holds(c)' => Holds(c)
  BY <1>1, <1>2 DEF Holds, Carries, In
<1>8. conn[c].port \notin relet => Owner[rep'[c].rule] = Owner[conn[c].rule]
  BY <1>1, <1>2 DEF MeterInv, FindsOwnRule, Payer, In
<1> QED
  BY <1>1, <1>2, <1>3, <1>4, <1>5, <1>6, <1>7, <1>8, ConnectorKeeps DEF TypeOK

LEMMA UpsertKeeps ==
  ASSUME TypeOK, MeterInv, NEW c \in Conns, Upsert(c)
  PROVE  TypeOK' /\ MeterInv'
<1>1. /\ In(c, "upsert") /\ ~In(c, "rest") /\ Sent(c) /\ rep[c].rule \in Rules
      /\ UNCHANGED <<row, at, traffic, conn, cur, relet>>
  BY DEF Upsert, In, Sent, TypeOK
<1>2. Payer(c) \in Users
  BY <1>1, MeteringAssumption DEF Payer
<1>3. /\ rep' \in [Conns -> Rep]
      /\ rep'[c].pc = "reply" /\ rep'[c].amount = rep[c].amount /\ rep'[c].rule = rep[c].rule
      /\ \A d \in Conns \ {c} : rep'[d] = rep[d]
  BY ReportAdds DEF Upsert
<1>4. /\ tally' \in [Conns -> Tally]
      /\ tally'[c].paid = tally[c].paid + rep[c].amount
      /\ tally'[c].carried = tally[c].carried /\ tally'[c].again = tally[c].again
      /\ tally'[c].missed = tally[c].missed
      /\ tally'[c].payers = tally[c].payers \cup {Payer(c)}
      /\ \A d \in Conns \ {c} : tally'[d] = tally[d]
  BY <1>2, TallyPays DEF Upsert
<1>5. daily' \in [Users -> Nat]
  <2> DEFINE more == IF Payer(c) \in fresh THEN rep[c].amount ELSE rep[c].add
  <2>1. rep[c].amount \in Nat /\ rep[c].add \in Nat
    BY Counts
  <2>2. more \in Nat
    BY <2>1
  <2>3. daily' = [daily EXCEPT ![Payer(c)] = @ + more]
    BY DEF Upsert
  <2> HIDE DEF more
  <2>4. daily \in [Users -> Nat] /\ daily[Payer(c)] + more \in Nat
    BY <1>2, <2>2 DEF TypeOK
  <2> QED
    BY <2>3, <2>4
<1>6. fresh' \subseteq Users /\ torn' \subseteq Users
  BY <1>2 DEF Upsert, TypeOK
<1>7. conn[c].st # "new" /\ conn'[c].st # "new"
  BY <1>1, BusyIsOpened
<1>8. Ledger(c)'
  <2>1. Ledger(c)
    BY Ledgers DEF MeterInv
  <2> QED
    BY <2>1, <1>1, <1>3, <1>4, Counts DEF Ledger, In, Sent
<1>9. Holds(c)' => Holds(c)
  BY <1>1, <1>3 DEF Holds, Carries, In
<1>10. conn[c].port \notin relet => Payer(c) = Owner[conn[c].rule]
  BY <1>1 DEF MeterInv, FindsOwnRule, In
<1> QED
  BY <1>1, <1>3, <1>4, <1>5, <1>6, <1>7, <1>8, <1>9, <1>10, ConnectorKeeps DEF TypeOK

\* What a step of the rule service has to show: counts, reports and bytes are not its.
LEMMA ServiceKeeps ==
  ASSUME TypeOK, MeterInv,
         UNCHANGED <<traffic, daily, cur, rep, tally, torn>>,
         fresh' \subseteq Users,
         row' \in [Rules -> {"none", "live", "gone"}], at' \in [Rules -> Ports \cup {None}],
         conn' \in [Conns -> Conn],
         \A c \in Conns : conn'[c].st # "new" => conn'[c].port \in Ports /\ conn'[c].rule \in Rules,
         \A c \in Conns : conn[c].st # "new" =>
           conn'[c].st # "new" /\ conn'[c].port = conn[c].port /\ conn'[c].rule = conn[c].rule,
         \A c \in Conns : conn'[c].st = "new" => conn'[c] = conn[c],
         relet \subseteq relet', relet' \subseteq Ports, CrowdsAreNoted'
  PROVE  TypeOK' /\ MeterInv'
<1>1. TypeOK'
  BY DEF TypeOK
<1>2. NotChargedYet' /\ MissedIsMore'
  BY DEF MeterInv, NotChargedYet, MissedIsMore, In, Sent
<1>3. UnusedIsIdle'
  BY DEF MeterInv, UnusedIsIdle, In
<1>4. \A c \in Conns : conn[c].st = "new" => tally'[c].payers = {} /\ rep'[c].pc = "rest"
  BY DEF MeterInv, UnusedIsIdle, In
<1>5. FindsOwnRule'
  BY <1>4 DEF MeterInv, FindsOwnRule, Payer
<1>6. OwnTraffic'
  BY <1>4 DEF MeterInv, OwnTraffic, TypeOK
<1> QED
  BY <1>1, <1>2, <1>3, <1>5, <1>6 DEF MeterInv

\* Crowds that are noted when they come together.
LEMMA Noted ==
  ASSUME TypeOK, NoteCrowds
  PROVE  relet \subseteq relet' /\ relet' \subseteq Ports /\ CrowdsAreNoted'
BY DEF NoteCrowds, CrowdsAreNoted, TypeOK

LEMMA OpenKeeps ==
  ASSUME TypeOK, MeterInv, NEW c \in Conns, OpenListener(c)
  PROVE  TypeOK' /\ MeterInv'
<1>1. PICK r \in Rules, p \in Ports :
        conn' = [conn EXCEPT ![c] = [st |-> "open", port |-> p, rule |-> r]]
  BY DEF OpenListener
<1>2. /\ conn[c].st = "new" /\ UNCHANGED <<db, cur, rep, tally, torn>> /\ NoteCrowds
  BY DEF OpenListener
<1>3. /\ conn' \in [Conns -> Conn] /\ conn'[c].st = "open"
      /\ conn'[c].port = p /\ conn'[c].rule = r
      /\ \A d \in Conns \ {c} : conn'[d] = conn[d]
  BY <1>1 DEF TypeOK, Conn
<1> QED
  BY <1>2, <1>3, Noted, ServiceKeeps DEF db, TypeOK

LEMMA CloseKeeps ==
  ASSUME TypeOK, MeterInv, NEW c \in Conns, CloseListener(c)
  PROVE  TypeOK' /\ MeterInv'
<1>1. conn[c].st = "open" /\ UNCHANGED <<db, cur, rep, tally, relet, torn>>
  BY DEF CloseListener
<1>2. /\ conn' \in [Conns -> Conn]
      /\ \A d \in Conns : /\ conn'[d].port = conn[d].port /\ conn'[d].rule = conn[d].rule
                          /\ conn'[d].st = (IF d = c THEN "draining" ELSE conn[d].st)
  BY <1>1, ConnMoves DEF CloseListener
<1>3. \A d \in Conns : conn'[d].st = "new" => conn'[d] = conn[d]
  BY <1>1, <1>2 DEF CloseListener, TypeOK, Conn
<1>4. \A d \in Conns : Holds(d)' => Holds(d)
  BY <1>1, <1>2 DEF Holds, Carries, In
<1>5. CrowdsAreNoted'
  BY <1>1, <1>2, <1>4, NobodyMeets DEF db
<1> QED
  BY <1>1, <1>2, <1>3, <1>5, ServiceKeeps DEF db, TypeOK

LEMMA RowKeeps ==
  ASSUME TypeOK, MeterInv, NEW r \in Rules, InsertRow(r) \/ MoveRow(r)
  PROVE  TypeOK' /\ MeterInv'
<1>1. /\ UNCHANGED <<traffic, daily, fresh, agent, tally, torn>> /\ NoteCrowds
      /\ row' = row \/ row' = [row EXCEPT ![r] = "live"]
  BY DEF InsertRow, MoveRow
<1>2. PICK c \in Conns : at' = [at EXCEPT ![r] = conn[c].port]
  BY DEF InsertRow, MoveRow, Opened
<1>3. at' \in [Rules -> Ports \cup {None}] /\ row' \in [Rules -> {"none", "live", "gone"}]
  BY <1>1, <1>2 DEF TypeOK, Conn
<1> QED
  BY <1>1, <1>3, Noted, ServiceKeeps DEF agent, TypeOK

LEMMA DropKeeps ==
  ASSUME TypeOK, MeterInv, NEW r \in Rules, DropRow(r)
  PROVE  TypeOK' /\ MeterInv'
<1>1. /\ row' = [row EXCEPT ![r] = "gone"]
      /\ UNCHANGED <<at, traffic, daily, fresh, agent, tally, relet, torn>>
  BY DEF DropRow
<1>2. CrowdsAreNoted'
  <2>1. \A q \in Rules : row'[q] = "live" => row[q] = "live" /\ at'[q] = at[q]
    BY <1>1 DEF TypeOK
  <2>2. \A d \in Conns : Holds(d)' => Holds(d)
    BY <1>1 DEF Holds, Carries, In, agent
  <2> QED
    BY <1>1, <2>1, <2>2, NobodyMeets DEF agent
<1> QED
  BY <1>1, <1>2, ServiceKeeps DEF agent, TypeOK

LEMMA MidnightKeeps ==
  ASSUME TypeOK, MeterInv, Midnight
  PROVE  TypeOK' /\ MeterInv'
<1>1. /\ fresh' = Users
      /\ UNCHANGED <<row, at, traffic, daily, agent, tally, relet, torn>>
  BY DEF Midnight
<1>2. CrowdsAreNoted'
  <2>1. \A d \in Conns : Holds(d)' => Holds(d)
    BY <1>1 DEF Holds, Carries, In, agent
  <2> QED
    BY <1>1, <2>1, NobodyMeets DEF agent
<1> QED
  BY <1>1, <1>2, ServiceKeeps DEF agent, TypeOK

LEMMA StopKeeps ==
  ASSUME TypeOK, MeterInv, AgentStops
  PROVE  TypeOK' /\ MeterInv'
<1>1. UNCHANGED <<db, rep, relet, torn>> /\ cur' = [c \in Conns |-> 0]
  BY DEF AgentStops
<1>2. conn' \in [Conns -> Conn] /\ \A c \in Conns : /\ conn'[c].port = conn[c].port
                                                    /\ conn'[c].rule = conn[c].rule
  BY DEF AgentStops, TypeOK, Conn
<1>3. \A c \in Conns : conn'[c].st = (IF conn[c].st = "new" THEN "new" ELSE "dead")
  BY DEF AgentStops, TypeOK, Conn
<1>4. ASSUME NEW c \in Conns
      PROVE  /\ tally'[c] \in Tally
             /\ tally'[c].carried = tally[c].carried /\ tally'[c].paid = tally[c].paid
             /\ tally'[c].again = tally[c].again /\ tally'[c].payers = tally[c].payers
             /\ tally'[c].missed = tally[c].missed + cur[c]
  <2>1. tally'[c] = [tally[c] EXCEPT !.missed = tally[c].missed + cur[c]]
    BY DEF AgentStops
  <2>2. tally[c] \in Tally /\ tally[c].missed + cur[c] \in Nat
    BY Counts DEF TypeOK
  <2> QED
    BY <2>1, <2>2 DEF Tally
<1>5. tally' \in [Conns -> Tally]
  BY <1>4 DEF AgentStops
<1>6. TypeOK'
  BY <1>1, <1>2, <1>3, <1>5 DEF TypeOK, db
<1>7. NotChargedYet' /\ MissedIsMore'
  <2>1. \A c \in Conns : Ledger(c)'
    <3> SUFFICES ASSUME NEW c \in Conns PROVE Ledger(c)'
      OBVIOUS
    <3>1. Ledger(c) /\ rep'[c] = rep[c] /\ cur'[c] = 0
      BY <1>1, Ledgers DEF MeterInv
    <3> QED
      BY <3>1, <1>4, Counts DEF Ledger, In, Sent
  <2> QED
    BY <2>1 DEF NotChargedYet, MissedIsMore, Ledger
<1>8. UnusedIsIdle'
  BY <1>1, <1>2, <1>3, <1>4 DEF MeterInv, UnusedIsIdle, In
<1>9. CrowdsAreNoted'
  <2>1. \A c \in Conns : Holds(c)' => Holds(c)
    BY <1>1, <1>3 DEF Holds, Carries, In
  <2> QED
    BY <2>1, <1>1, <1>2, NobodyMeets DEF db
<1>10. FindsOwnRule'
  BY <1>1, <1>2 DEF MeterInv, FindsOwnRule, Payer
<1>11. OwnTraffic'
  BY <1>1, <1>2, <1>4 DEF MeterInv, OwnTraffic
<1> QED
  BY <1>6, <1>7, <1>8, <1>9, <1>10, <1>11 DEF MeterInv

LEMMA NextKeeps ==
  ASSUME TypeOK, MeterInv, [Next]_vars
  PROVE  TypeOK' /\ MeterInv'
<1>1. CASE RuleService
  BY <1>1, OpenKeeps, CloseKeeps, RowKeeps, DropKeeps, MidnightKeeps DEF RuleService
<1>2. CASE AgentStops
  BY <1>2, StopKeeps
<1>3. ASSUME NEW c \in Conns, Connector(c) PROVE TypeOK' /\ MeterInv'
  <2>1. CASE Delivered(c)
    BY <2>1, LookupKeeps, ChargeKeeps, UpsertKeeps, AcceptedKeeps DEF Delivered
  <2>2. CASE Failed(c)
    BY <2>2, UnreachedKeeps, ReplyLostKeeps, UpsertFailsKeeps DEF Failed
  <2> QED
    BY <1>3, <2>1, <2>2, CarryKeeps, SessionsEndKeeps, ReportKeeps DEF Connector
<1>4. CASE UNCHANGED vars
  <2>1. TypeOK'
    BY <1>4 DEF vars, TypeOK
  <2>2. NotChargedYet' /\ MissedIsMore' /\ UnusedIsIdle' /\ FindsOwnRule' /\ OwnTraffic'
    BY <1>4 DEF vars, MeterInv, NotChargedYet, MissedIsMore, UnusedIsIdle, FindsOwnRule,
                OwnTraffic, Payer, In, Sent
  <2>3. CrowdsAreNoted'
    <3>1. \A d \in Conns : Holds(d)' => Holds(d)
      BY <1>4 DEF vars, Holds, Carries, In
    <3> QED
      BY <1>4, <3>1, NobodyMeets DEF vars
  <2> QED
    BY <2>1, <2>2, <2>3 DEF MeterInv
<1> QED
  BY <1>1, <1>2, <1>3, <1>4 DEF Next

-----------------------------------------------------------------------------
\* The ledgers balance, and whoever meets on a port is known, at every step of every
\* interleaving of sessions, reports and the rule service.
THEOREM MeterInvariant == Spec => [](TypeOK /\ MeterInv)
<1>1. Init => TypeOK /\ MeterInv
  BY InitType, InitMeter
<1>2. TypeOK /\ MeterInv /\ [Next]_vars => (TypeOK /\ MeterInv)'
  BY NextKeeps
<1> QED
  BY <1>1, <1>2, PTL DEF Spec

\* A report names a rule once it has found one, and counts never leave the naturals.
THEOREM TypeCorrect == Spec => []TypeOK
BY MeterInvariant, PTL

\* No byte is charged twice but for a reply that was lost.
THEOREM ChargedAtMostOnce == Spec => []ChargedOnce
<1>1. TypeOK /\ MeterInv => ChargedOnce
  <2> SUFFICES ASSUME TypeOK, MeterInv, NEW c \in Conns
               PROVE  tally[c].paid <= tally[c].carried + tally[c].again
    BY DEF ChargedOnce
  <2>1. Ledger(c)
    BY Ledgers DEF MeterInv
  <2> QED
    BY <2>1, Counts DEF Ledger
<1> QED
  BY <1>1, MeterInvariant, PTL

\* No byte is forgotten but those carried during a report or lost with the process.
THEOREM NoByteForgotten == Spec => []NothingForgotten
<1>1. MeterInv => NothingForgotten
  BY DEF MeterInv, MissedIsMore, NothingForgotten
<1> QED
  BY <1>1, MeterInvariant, PTL

\* A user pays for their own sessions wherever the traffic of two has not met.
THEOREM UsersPayForTheirOwn == Spec => []OwnTraffic
<1>1. MeterInv => OwnTraffic
  BY DEF MeterInv
<1> QED
  BY <1>1, MeterInvariant, PTL
-----------------------------------------------------------------------------
(***************************************************************************)
(* Sums.  MapThenSumSet takes the elements of a set one by one; what it    *)
(* comes to is proved over the subsets it passes on its way.               *)
(***************************************************************************)
\* A set of numbers that holds 0, and n + 1 with every n, holds all of them.
LEMMA AllNumbers ==
  ASSUME NEW P \in SUBSET Nat, 0 \in P, \A n \in P : n + 1 \in P
  PROVE  P = Nat
<1>. DEFINE T == Nat \ P
            R == OpToRel(<, Nat)
<1>1. SUFFICES ASSUME T # {} PROVE FALSE
  OBVIOUS
<1>2. \A x, y \in Nat : x < y => <<x, y>> \in R
  BY DEF OpToRel
<1>3. IsWellFoundedOn(R, Nat)
  BY NatLessThanWellFounded
<1>4. T \subseteq Nat
  OBVIOUS
<1>. HIDE DEF R, T
<1>5. PICK m \in T : \A u \in T : ~(<<u, m>> \in R)
  BY <1>1, <1>3, <1>4, WFMin
<1>6. m \in Nat /\ m \notin P
  BY <1>5 DEF T
<1>7. m - 1 \in Nat /\ m - 1 < m
  BY <1>6
<1>8. m - 1 \in P
  BY <1>2, <1>5, <1>6, <1>7 DEF T
<1>. QED
  BY <1>6, <1>8

\* The element that a sum adds first.
First(s) == CHOOSE x \in s : TRUE

\* A set of subsets of S that holds the empty one, and T with what is left of it without its
\* first element, holds all of them.
LEMMA AllSubsets ==
  ASSUME NEW S, IsFiniteSet(S), NEW P \in SUBSET SUBSET S, {} \in P,
         \A T \in SUBSET S : T # {} /\ T \ {First(T)} \in P => T \in P
  PROVE  P = SUBSET S
<1>. DEFINE N == {n \in Nat : \A T \in SUBSET S : Cardinality(T) = n => T \in P}
<1>1. \A T \in SUBSET S : IsFiniteSet(T) /\ Cardinality(T) \in Nat
  BY FS_Subset, FS_CardinalityType
<1>2. 0 \in N
  BY <1>1, FS_EmptySet
<1>3. ASSUME NEW n \in N PROVE n + 1 \in N
  <2>1. SUFFICES ASSUME NEW T \in SUBSET S, Cardinality(T) = n + 1 PROVE T \in P
    OBVIOUS
  <2>2. T # {}
    BY <2>1, FS_EmptySet
  <2>3. First(T) \in T
    BY <2>2 DEF First
  <2>. DEFINE x == First(T)
              U == T \ {x}
  <2>. HIDE DEF x, U
  <2>4. Cardinality(U) = Cardinality(T) - 1
    BY <1>1, <2>3, FS_RemoveElement DEF U, x
  <2>5. Cardinality(U) = n /\ U \in SUBSET S
    BY <2>1, <2>4, n \in Nat DEF U, N
  <2>6. U \in P
    BY <2>5 DEF N
  <2>. QED
    BY <2>2, <2>6 DEF U, x
<1>. HIDE DEF N
<1>4. N = Nat
  <2>1. N \in SUBSET Nat
    BY DEF N
  <2>. QED
    BY <1>2, <1>3, <2>1, AllNumbers
<1>. QED
  BY <1>1, <1>4 DEF N

Sum(w, S) == MapThenSumSet(LAMBDA x : w[x], S)

IsSum(g, w, S) ==
  g = [s \in SUBSET S |-> IF s = {} THEN 0 ELSE w[First(s)] + g[s \ {First(s)}]]

LEMMA SumUnfolds ==
  ASSUME NEW w, NEW S
  PROVE  Sum(w, S) = (CHOOSE g : IsSum(g, w, S))[S]
BY DEF Sum, MapThenSumSet, MapThenFoldSet, IsSum, First

\* The recursive function behind a sum exists, so that the sum is what the recursion says.
LEMMA SumExists ==
  ASSUME NEW w, NEW S, IsFiniteSet(S)
  PROVE  \E g : IsSum(g, w, S)
<1>. DEFINE Level(n) == {s \in SUBSET S : Cardinality(s) <= n}
            Adds(g, s) == g[s] = IF s = {} THEN 0 ELSE w[First(s)] + g[s \ {First(s)}]
            N == {n \in Nat : \E g : \A s \in Level(n) : Adds(g, s)}
<1>1. \A T \in SUBSET S : IsFiniteSet(T) /\ Cardinality(T) \in Nat
  BY FS_Subset, FS_CardinalityType
<1>2. ASSUME NEW T \in SUBSET S, T # {}
      PROVE  T \ {First(T)} \in SUBSET S /\ Cardinality(T \ {First(T)}) = Cardinality(T) - 1
  <2>. DEFINE x == First(T)
              U == T \ {x}
  <2>1. x \in T
    BY <1>2 DEF First
  <2>. HIDE DEF x, U
  <2>2. Cardinality(U) = Cardinality(T) - 1
    BY <1>1, <2>1, FS_RemoveElement DEF U
  <2>. QED
    BY <2>2 DEF U, x
<1>3. 0 \in N
  <2>1. \A s \in Level(0) : s = {}
    BY <1>1, FS_EmptySet
  <2>2. \A s \in Level(0) : Adds([t \in SUBSET S |-> 0], s)
    BY <2>1
  <2>. QED
    BY <2>2
<1>4. ASSUME NEW n \in N PROVE n + 1 \in N
  <2>1. PICK g : \A s \in Level(n) : Adds(g, s)
    OBVIOUS
  <2>. DEFINE h == [s \in SUBSET S |-> IF s \in Level(n) THEN g[s] ELSE w[First(s)] + g[s \ {First(s)}]]
  <2>2. ASSUME NEW s \in Level(n + 1)
        PROVE  Adds(h, s)
    <3>1. CASE s = {}
      BY <2>1, <3>1, FS_EmptySet
    <3>2. CASE s # {}
      <4>. DEFINE u == s \ {First(s)}
      <4>1. u \in Level(n)
        BY <1>1, <1>2, <3>2
      <4>2. h[u] = g[u]
        BY <4>1
      <4>3. h[s] = w[First(s)] + g[u]
        BY <2>1, <3>2
      <4>. QED
        BY <3>2, <4>2, <4>3
    <3>. QED
      BY <3>1, <3>2
  <2>3. \E f : \A s \in Level(n + 1) : Adds(f, s)
    <3>. HIDE DEF h, Level, Adds
    <3>. QED
      BY <2>2
  <2>4. n + 1 \in Nat
    OBVIOUS
  <2>. QED
    BY <2>3, <2>4
<1>5. Cardinality(S) \in N
  <2>. HIDE DEF N
  <2>1. N \in SUBSET Nat
    BY DEF N
  <2>. QED
    BY <1>1, <1>3, <1>4, <2>1, AllNumbers
<1>6. PICK g : \A s \in Level(Cardinality(S)) : Adds(g, s)
  BY <1>5
<1>7. \A s \in SUBSET S : Adds(g, s)
  BY <1>6, FS_Subset
<1>. DEFINE h == [s \in SUBSET S |-> g[s]]
<1>8. h = [s \in SUBSET S |-> IF s = {} THEN 0 ELSE w[First(s)] + h[s \ {First(s)}]]
  <2>1. \A s \in SUBSET S : h[s] = IF s = {} THEN 0 ELSE w[First(s)] + h[s \ {First(s)}]
    BY <1>7
  <2>. QED
    BY <2>1
<1>. QED
  BY <1>8 DEF IsSum

\* A sum is the last of the partial sums over the subsets, each of them one element more.
Sums(g, w, S) ==
  /\ Sum(w, S) = g[S]
  /\ g[{}] = 0
  /\ \A s \in SUBSET S : s # {} => g[s] = w[First(s)] + g[s \ {First(s)}]

LEMMA PartialSums ==
  ASSUME NEW w, NEW S, IsFiniteSet(S)
  PROVE  \E g : Sums(g, w, S)
<1>1. PICK g : g = CHOOSE h : IsSum(h, w, S)
  OBVIOUS
<1>2. IsSum(g, w, S)
  BY <1>1, SumExists
<1>3. Sum(w, S) = g[S]
  BY <1>1, SumUnfolds
<1>. QED
  BY <1>2, <1>3 DEF IsSum, Sums

\* A sum of numbers is a number, and follows the one of its terms that changes.
LEMMA SumChanges ==
  ASSUME NEW S, IsFiniteSet(S), NEW v, NEW w, NEW e,
         \A x \in S : v[x] \in Nat /\ w[x] \in Nat,
         \A x \in S \ {e} : w[x] = v[x]
  PROVE  /\ Sum(v, S) \in Nat /\ Sum(w, S) \in Nat
         /\ e \notin S => Sum(w, S) = Sum(v, S)
         /\ e \in S => Sum(w, S) + v[e] = Sum(v, S) + w[e]
<1>1. PICK g : Sums(g, v, S)
  BY PartialSums
<1>2. PICK h : Sums(h, w, S)
  BY PartialSums
<1>. DEFINE Follows(s) == /\ g[s] \in Nat /\ h[s] \in Nat
                          /\ e \notin s => h[s] = g[s]
                          /\ e \in s => h[s] + v[e] = g[s] + w[e]
            P == {s \in SUBSET S : Follows(s)}
<1>3. {} \in P
  BY <1>1, <1>2 DEF Sums
<1>4. ASSUME NEW T \in SUBSET S, T # {}, T \ {First(T)} \in P
      PROVE  T \in P
  <2>1. PICK x, U : x = First(T) /\ U = T \ {First(T)}
    OBVIOUS
  <2>2. x \in T /\ x \in S /\ v[x] \in Nat /\ w[x] \in Nat
    BY <1>4, <2>1 DEF First
  <2>3. g[T] = v[x] + g[U] /\ h[T] = w[x] + h[U]
    BY <1>1, <1>2, <1>4, <2>1 DEF Sums
  <2>4. Follows(U)
    BY <1>4, <2>1
  <2>5. CASE x = e
    BY <2>1, <2>2, <2>3, <2>4, <2>5
  <2>6. CASE x # e
    <3>1. w[x] = v[x] /\ (e \in U <=> e \in T)
      BY <2>1, <2>2, <2>6
    <3>2. e \in T => v[e] \in Nat /\ w[e] \in Nat
      OBVIOUS
    <3>. QED
      BY <2>2, <2>3, <2>4, <3>1, <3>2
  <2>. QED
    BY <2>5, <2>6
<1>5. P = SUBSET S
  <2>. HIDE DEF P
  <2>1. P \in SUBSET SUBSET S
    BY DEF P
  <2>. QED
    BY <1>3, <1>4, <2>1, AllSubsets
<1>6. S \in P
  BY <1>5
<1>. QED
  BY <1>1, <1>2, <1>6 DEF Sums

\* The sum of nothing but zeros.
LEMMA SumOfZeros ==
  ASSUME NEW S, IsFiniteSet(S), NEW v, \A x \in S : v[x] = 0
  PROVE  Sum(v, S) = 0
<1>1. PICK g : Sums(g, v, S)
  BY PartialSums
<1>. DEFINE P == {s \in SUBSET S : g[s] = 0}
<1>2. {} \in P
  BY <1>1 DEF Sums
<1>3. ASSUME NEW T \in SUBSET S, T # {}, T \ {First(T)} \in P
      PROVE  T \in P
  <2>1. First(T) \in T
    BY <1>3 DEF First
  <2>2. g[T] = 0 + 0
    BY <1>1, <1>3, <2>1 DEF Sums
  <2>. QED
    BY <2>2
<1>4. P = SUBSET S
  <2>. HIDE DEF P
  <2>1. P \in SUBSET SUBSET S
    BY DEF P
  <2>. QED
    BY <1>2, <1>3, <2>1, AllSubsets
<1>. QED
  BY <1>1, <1>4 DEF Sums

-----------------------------------------------------------------------------
(***************************************************************************)
(* Days and columns.  What the rules have been charged and their owner's   *)
(* day has not is with the reports between the two writes.                 *)
(***************************************************************************)
Awaited(u) == [c \in Conns |-> IF In(c, "upsert") /\ Payer(c) = u THEN rep[c].add ELSE 0]

OwnRules(u) == {r \in Rules : Owner[r] = u}

Balanced(u) == daily[u] + Sum(Awaited(u), Conns) = Columns(u)

DayInv == \A u \in Users \ torn : Balanced(u)

LEMMA ColumnsAreSum ==
  ASSUME NEW u
  PROVE  Columns(u) = Sum(traffic, OwnRules(u)) /\ Columns(u)' = Sum(traffic', OwnRules(u))
<1>1. Columns(u) = Sum(traffic, OwnRules(u))
  BY DEF Columns, Sum, OwnRules
<1>2. Columns(u)' = Sum(traffic', OwnRules(u))
  BY DEF Columns, Sum, OwnRules, MapThenSumSet, MapThenFoldSet
<1>. QED
  BY <1>1, <1>2

LEMMA ColumnsTypes ==
  ASSUME TypeOK, NEW u \in Users
  PROVE  Columns(u) \in Nat /\ IsFiniteSet(OwnRules(u)) /\ \A r \in OwnRules(u) : traffic[r] \in Nat
<1>1. IsFiniteSet(OwnRules(u)) /\ \A r \in OwnRules(u) : traffic[r] \in Nat
  BY FinitelyMany, FS_Subset DEF OwnRules, TypeOK
<1>2. Sum(traffic, OwnRules(u)) \in Nat
  BY <1>1, SumChanges
<1>. QED
  BY <1>1, <1>2, ColumnsAreSum

Accountable == \A u \in Users : Columns(u) \in Nat /\ \A c \in Conns : Awaited(u)[c] \in Nat

LEMMA BooksTypes == TypeOK => Accountable
BY Counts, ColumnsTypes DEF Accountable, Awaited

\* The books of a user still balance if what c does to them does.
LEMMA StillBalanced ==
  ASSUME TypeOK, TypeOK', NEW u \in Users, Balanced(u), NEW c \in Conns,
         \A d \in Conns \ {c} : rep'[d] = rep[d],
         daily'[u] + Awaited(u)'[c] + Columns(u) = daily[u] + Awaited(u)[c] + Columns(u)'
  PROVE  Balanced(u)'
<1>0. Accountable /\ Accountable'
  BY BooksTypes, PTL
<1>1. PICK v, w : v = Awaited(u) /\ w = Awaited(u)'
  OBVIOUS
<1>2. \A d \in Conns : v[d] \in Nat /\ w[d] \in Nat
  BY <1>0, <1>1 DEF Accountable
<1>3. \A d \in Conns \ {c} : w[d] = v[d]
  BY <1>1 DEF Awaited, In, Payer
<1>4. Sum(v, Conns) \in Nat /\ Sum(w, Conns) \in Nat /\ Sum(w, Conns) + v[c] = Sum(v, Conns) + w[c]
  BY <1>2, <1>3, FinitelyMany, SumChanges
<1>5. Columns(u) \in Nat /\ Columns(u)' \in Nat
  BY <1>0 DEF Accountable
<1>6. daily[u] \in Nat /\ daily'[u] \in Nat
  BY DEF TypeOK
<1>7. daily[u] + Sum(v, Conns) = Columns(u)
  BY <1>1 DEF Balanced
<1>8. daily'[u] + Sum(w, Conns) = Columns(u)'
  <2>1. v[c] \in Nat /\ w[c] \in Nat
    BY <1>2
  <2>2. daily'[u] + w[c] + Columns(u) = daily[u] + v[c] + Columns(u)'
    BY <1>1
  <2>3. PICK a, b, s, t, x, y \in Nat :
          /\ a = daily[u] /\ b = daily'[u] /\ s = Sum(v, Conns) /\ t = Sum(w, Conns)
          /\ x = Columns(u) /\ y = Columns(u)'
    BY <1>4, <1>5, <1>6
  <2>4. a + s = x /\ t + v[c] = s + w[c] /\ b + w[c] + x = a + v[c] + y
    BY <1>4, <1>7, <2>2, <2>3
  <2>5. b + t = y
    BY <2>1, <2>4
  <2>. QED
    BY <2>3, <2>5
<1>. QED
  BY <1>1, <1>8 DEF Balanced

\* Nothing is written, and no report comes to its second write or leaves it.
LEMMA BooksUntouched ==
  ASSUME TypeOK, TypeOK', DayInv, UNCHANGED <<traffic, daily, torn>>, NEW c \in Conns,
         \A d \in Conns \ {c} : rep'[d] = rep[d],
         rep'[c] = rep[c] \/ (~In(c, "upsert") /\ ~In(c, "upsert")')
  PROVE  DayInv'
<1>. SUFFICES ASSUME NEW u \in Users, u \notin torn PROVE Balanced(u)'
  BY DEF DayInv
<1>1. Awaited(u)'[c] = Awaited(u)[c]
  BY DEF Awaited, In, Payer
<1>2. Columns(u)' = Columns(u)
  BY ColumnsAreSum
<1>. QED
  BY <1>1, <1>2, StillBalanced DEF DayInv

LEMMA ServiceBooks ==
  ASSUME TypeOK, TypeOK', DayInv, RuleService \/ AgentStops \/ UNCHANGED vars
  PROVE  DayInv'
<1>1. UNCHANGED <<traffic, daily, rep, torn>>
  BY DEF RuleService, OpenListener, CloseListener, InsertRow, MoveRow, DropRow, Midnight, AgentStops, db, agent, vars
<1>2. \A u : (Balanced(u)' <=> Balanced(u))
  BY <1>1, ColumnsAreSum DEF Balanced, Awaited, In, Payer
<1>. QED
  BY <1>1, <1>2 DEF DayInv

LEMMA ReporterBooks ==
  ASSUME TypeOK, TypeOK', DayInv, NEW c \in Conns,
         Carry(c) \/ SessionsEnd(c) \/ Report(c) \/ Lookup(c) \/ Accepted(c) \/ Unreached(c) \/ ReplyLost(c)
  PROVE  DayInv'
<1>1. UNCHANGED <<traffic, daily, torn>>
  BY DEF Carry, SessionsEnd, Report, Lookup, Accepted, Unreached, ReplyLost, db
<1>2. CASE Carry(c) \/ SessionsEnd(c)
  BY <1>1, <1>2, BooksUntouched DEF Carry, SessionsEnd
<1>3. CASE Report(c)
  BY <1>1, <1>3, ReportStarts, BooksUntouched DEF Report, In
<1>4. CASE Lookup(c)
  <2>1. ASSUME NEW r \in Rules, NEW rate \in Rates,
               rep' = [rep EXCEPT ![c].pc = "charge", ![c].rule = r, ![c].rate = rate]
        PROVE  (\A d \in Conns \ {c} : rep'[d] = rep[d]) /\ rep'[c].pc # "upsert"
    BY <2>1, ReportFinds
  <2>2. CASE rep' = [rep EXCEPT ![c] = NoReport]
    BY <1>1, <1>4, <2>2, ReportEnds, BooksUntouched DEF Lookup, In, NoReport
  <2>3. CASE rep' # [rep EXCEPT ![c] = NoReport]
    <3>1. (\A d \in Conns \ {c} : rep'[d] = rep[d]) /\ rep'[c].pc # "upsert"
      BY <1>4, <2>1, <2>3 DEF Lookup, RowsOn
    <3>. QED
      BY <1>1, <1>4, <3>1, BooksUntouched DEF Lookup, In
  <2>. QED
    BY <2>2, <2>3
<1>5. CASE Accepted(c) \/ Unreached(c) \/ ReplyLost(c)
  <2>1. (\A d \in Conns \ {c} : rep'[d] = rep[d]) /\ ~In(c, "upsert") /\ ~In(c, "upsert")'
    BY <1>5, ReportEnds DEF Accepted, Unreached, ReplyLost, In, NoReport
  <2>. QED
    BY <1>1, <2>1, BooksUntouched
<1>. QED
  BY <1>2, <1>3, <1>4, <1>5

\* The rules on the port are charged, and who of them is not the one looked up is noted.
LEMMA ChargeBooks ==
  ASSUME TypeOK, TypeOK', DayInv, NEW c \in Conns, Charge(c)
  PROVE  DayInv'
<1>. DEFINE found == RowsOn(conn[c].port)
            r == rep[c].rule
<1>1. PICK n \in Nat :
        /\ In(c, "charge") /\ UNCHANGED <<daily, fresh>>
        /\ rep' = [rep EXCEPT ![c].pc = "upsert", ![c].add = n]
        /\ \A q \in Rules : traffic'[q] = IF q \in found THEN traffic[q] + n ELSE traffic[q]
        /\ torn' = IF found = {r} THEN torn ELSE torn \cup {Owner[q] : q \in found \cup {r}}
  BY SumsAreNat DEF Charge
<1>2. /\ \A d \in Conns \ {c} : rep'[d] = rep[d]
      /\ In(c, "upsert")' /\ rep'[c].add = n /\ rep'[c].rule = r
  BY <1>1, ReportAdds DEF In
<1>3. r \in Rules
  BY <1>1 DEF TypeOK, In
<1>. SUFFICES ASSUME NEW u \in Users, u \notin torn' PROVE Balanced(u)'
  BY DEF DayInv
<1>. HIDE DEF found, r
<1>4. u \notin torn /\ (found = {r} \/ \A q \in found \cup {r} : Owner[q] # u)
  BY <1>1
<1>5. Awaited(u)[c] = 0 /\ Awaited(u)'[c] = IF Owner[r] = u THEN n ELSE 0
  BY <1>1, <1>2 DEF Awaited, In, Payer, r
<1>6. Columns(u)' = Columns(u) + IF Owner[r] = u THEN n ELSE 0
  <2>1. PICK S, v, w : S = OwnRules(u) /\ v = traffic /\ w = traffic'
    OBVIOUS
  <2>2. Columns(u) = Sum(v, S) /\ Columns(u)' = Sum(w, S)
    BY <2>1, ColumnsAreSum
  <2>3. IsFiniteSet(S) /\ \A q \in S : v[q] \in Nat /\ w[q] \in Nat
    BY <2>1, ColumnsTypes DEF OwnRules, TypeOK
  <2>4. \A q \in S \ {r} : w[q] = v[q]
    BY <1>1, <1>4, <2>1 DEF OwnRules
  <2>5. r \in S <=> Owner[r] = u
    BY <1>3, <2>1 DEF OwnRules
  <2>6. Owner[r] = u => w[r] = v[r] + n
    BY <1>1, <1>3, <1>4, <2>1
  <2>. QED
    BY <1>3, <2>2, <2>3, <2>4, <2>5, <2>6, SumChanges
<1>7. daily[u] \in Nat /\ Columns(u) \in Nat /\ daily'[u] = daily[u]
  BY <1>1, ColumnsTypes DEF TypeOK
<1>8. daily'[u] + Awaited(u)'[c] + Columns(u) = daily[u] + Awaited(u)[c] + Columns(u)'
  BY <1>3, <1>5, <1>6, <1>7
<1>. QED
  BY <1>2, <1>4, <1>8, StillBalanced DEF DayInv

\* The day is charged what was awaited.
LEMMA UpsertBooks ==
  ASSUME TypeOK, TypeOK', DayInv, NEW c \in Conns, Upsert(c)
  PROVE  DayInv'
<1>. DEFINE p == Payer(c)
            n == rep[c].add
<1>1. /\ In(c, "upsert") /\ UNCHANGED traffic
      /\ rep' = [rep EXCEPT ![c].pc = "reply", ![c].add = 0]
      /\ daily' = [daily EXCEPT ![p] = @ + IF p \in fresh THEN rep[c].amount ELSE n]
      /\ torn' = IF p \in fresh /\ n # rep[c].amount THEN torn \cup {p} ELSE torn
  BY DEF Upsert
<1>2. (\A d \in Conns \ {c} : rep'[d] = rep[d]) /\ ~In(c, "upsert")'
  BY <1>1, ReportAdds DEF In
<1>3. n \in Nat /\ rep[c].amount \in Nat
  BY Counts
<1>. SUFFICES ASSUME NEW u \in Users, u \notin torn' PROVE Balanced(u)'
  BY DEF DayInv
<1>4. Awaited(u)[c] = (IF p = u THEN n ELSE 0) /\ Awaited(u)'[c] = 0
  BY <1>1, <1>2 DEF Awaited
<1>5. Columns(u)' = Columns(u)
  BY <1>1, ColumnsAreSum
<1>6. daily'[u] = daily[u] + IF p = u THEN n ELSE 0
  <2>. HIDE DEF n, p
  <2>1. daily \in [Users -> Nat]
    BY DEF TypeOK
  <2>. QED
    BY <1>1, <1>3, <2>1
<1>7. daily[u] \in Nat /\ Columns(u) \in Nat
  BY ColumnsTypes DEF TypeOK
<1>. HIDE DEF n, p
<1>8. daily'[u] + Awaited(u)'[c] + Columns(u) = daily[u] + Awaited(u)[c] + Columns(u)'
  BY <1>3, <1>4, <1>5, <1>6, <1>7
<1>9. u \notin torn
  BY <1>1
<1>. QED
  BY <1>2, <1>8, <1>9, StillBalanced DEF DayInv

\* The day is not charged, and its user is noted.
LEMMA UpsertFailsBooks ==
  ASSUME TypeOK, TypeOK', DayInv, NEW c \in Conns, UpsertFails(c)
  PROVE  DayInv'
<1>1. /\ UNCHANGED <<traffic, daily>> /\ rep' = [rep EXCEPT ![c] = NoReport]
      /\ torn' = torn \cup {Payer(c)}
  BY DEF UpsertFails, db
<1>2. (\A d \in Conns \ {c} : rep'[d] = rep[d]) /\ ~In(c, "upsert")'
  BY <1>1, ReportEnds DEF In, NoReport
<1>. SUFFICES ASSUME NEW u \in Users, u \notin torn' PROVE Balanced(u)'
  BY DEF DayInv
<1>3. u \notin torn /\ Awaited(u)'[c] = Awaited(u)[c]
  BY <1>1, <1>2 DEF Awaited
<1>4. Columns(u)' = Columns(u)
  BY <1>1, ColumnsAreSum
<1>. QED
  BY <1>1, <1>2, <1>3, <1>4, StillBalanced DEF DayInv

LEMMA InitBooks == Init => DayInv
<1>. SUFFICES ASSUME Init, NEW u \in Users PROVE Balanced(u)
  BY DEF DayInv
<1>1. \A c \in Conns : Awaited(u)[c] = 0
  BY DEF Init, NoReport, Awaited, In
<1>2. IsFiniteSet(OwnRules(u)) /\ \A r \in OwnRules(u) : traffic[r] = 0
  BY FinitelyMany, FS_Subset DEF Init, OwnRules
<1>3. Columns(u) = 0
  BY <1>2, SumOfZeros, ColumnsAreSum
<1>4. Sum(Awaited(u), Conns) = 0
  <2>1. PICK v : v = Awaited(u)
    OBVIOUS
  <2>. QED
    BY <1>1, <2>1, FinitelyMany, SumOfZeros
<1>. QED
  BY <1>3, <1>4 DEF Balanced, Init

LEMMA BooksKept ==
  ASSUME TypeOK, TypeOK', DayInv, [Next]_vars
  PROVE  DayInv'
<1>1. ASSUME NEW c \in Conns, Connector(c) PROVE DayInv'
  BY <1>1, ReporterBooks, ChargeBooks, UpsertBooks, UpsertFailsBooks DEF Connector, Delivered, Failed
<1>. QED
  BY <1>1, ServiceBooks DEF Next

\* A user's day and columns part only as far as a report has written one and not yet the
\* other, and for those whose writes fell apart (the two statements of ReportNetworkTraffic):
\* by a failure, by another rule on the port, or by a product that is not the bytes, which
\* the first report of a day does not write.
THEOREM DaysAddUp == Spec => []DayIsColumns
<1>1. TypeOK /\ DayInv => DayIsColumns
  <2>. SUFFICES ASSUME TypeOK, DayInv, NEW u \in Users \ torn,
                       \A c \in Conns : In(c, "upsert") => Payer(c) # u
                PROVE  daily[u] = Columns(u)
    BY DEF DayIsColumns
  <2>1. \A c \in Conns : Awaited(u)[c] = 0
    BY DEF Awaited
  <2>2. Sum(Awaited(u), Conns) = 0
    <3>1. PICK v : v = Awaited(u)
      OBVIOUS
    <3>. QED
      BY <2>1, <3>1, FinitelyMany, SumOfZeros
  <2>3. daily[u] + 0 = Columns(u)
    BY <2>2 DEF DayInv, Balanced
  <2>. QED
    BY <2>3 DEF TypeOK
<1>2. Init => DayInv
  BY InitBooks
<1>3. TypeOK /\ TypeOK' /\ DayInv /\ [Next]_vars => DayInv'
  BY BooksKept
<1>. QED
  BY <1>1, <1>2, <1>3, MeterInvariant, PTL DEF Spec
=============================================================================
