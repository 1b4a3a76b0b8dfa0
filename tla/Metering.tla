------------------------------ MODULE Metering ------------------------------
(***************************************************************************)
(* Traffic, from the sessions that carry it to the totals a plan is held   *)
(* against.  A connector counts the bytes of its sessions, a goroutine of  *)
(* its own reports the count, and the controller adds it to the rule's     *)
(* column and to the day of the rule's owner.                              *)
(*                                                                         *)
(* A report names a node and a port, not a rule, and neither closing the   *)
(* listener nor deleting the rule ends the sessions or the reports: what   *)
(* is charged to whom depends on which row holds the port by then.  The    *)
(* rule service (RuleSync) is the environment here: it opens and closes    *)
(* listeners and writes rows, in any order its handlers can come to.       *)
(***************************************************************************)
EXTENDS Naturals, FiniteSets, FiniteSetsExt

CONSTANTS
  Conns,      \* connectors, one for each time the agent opens a listener
  Rules,      \* rules, by their id in the table
  Users,
  Owner,      \* the user of each rule
  Ports,
  Rates,      \* rates of the node, that of a chain's node added
  Exact,      \* float32 is exact up to it, and off by one part in it above (2^23)
  Bytes,      \* bound: bytes carried, over all connectors
  Faults,     \* bound: reports repeated after the controller has acted on them
  None

ASSUME MeteringAssumption ==
  /\ Rules \subseteq Nat /\ Rates \subseteq Nat
  /\ Owner \in [Rules -> Users]
  /\ Exact \in Nat \ {0} /\ Bytes \in Nat /\ Faults \in Nat
  /\ None \notin Ports \cup Rules

\* However many they are.
ASSUME FinitelyMany == IsFiniteSet(Conns) /\ IsFiniteSet(Rules)

VARIABLES
  row,       \* "none", "live" or "gone": the row of each rule
  at,        \* its listen_port
  traffic,   \* its traffic column
  daily,     \* user_daily_traffic, the days of each user added up
  fresh,     \* users without a row for today
  conn,      \* connectors: state, port, and the rule they were opened for
  cur,       \* curTraffic
  rep,       \* the report of each connector that is under way
  tally,     \* history: what became of the bytes of each connector
  relet,     \* history: ports where the traffic of two users has met
  torn       \* history: users whose day and columns were written apart

db    == <<row, at, traffic, daily, fresh>>
agent == <<conn, cur, rep>>
vars  == <<row, at, traffic, daily, fresh, conn, cur, rep, tally, relet, torn>>

NoReport == [pc |-> "rest", amount |-> 0, rule |-> None, rate |-> 0, add |-> 0]

Init ==
  /\ row = [r \in Rules |-> "none"] /\ at = [r \in Rules |-> None]
  /\ traffic = [r \in Rules |-> 0]
  /\ daily = [u \in Users |-> 0] /\ fresh = Users
  /\ conn = [c \in Conns |-> [st |-> "new", port |-> None, rule |-> None]]
  /\ cur = [c \in Conns |-> 0]
  /\ rep = [c \in Conns |-> NoReport]
  /\ tally = [c \in Conns |-> [carried |-> 0, paid |-> 0, again |-> 0, faults |-> 0, missed |-> 0, payers |-> {}]]
  /\ relet = {} /\ torn = {}

-----------------------------------------------------------------------------
In(c, pc) == rep[c].pc = pc

RowsOn(p) == {r \in Rules : row[r] = "live" /\ at[r] = p}

\* Sessions outlive the listener; the count and its reports outlive both.
Carries(c) == conn[c].st \in {"open", "draining"}
Holds(c)   == Carries(c) \/ cur[c] > 0 \/ In(c, "lookup")

\* The users with a row on p or with bytes that will be reported for p.
Parties(p) ==
  {Owner[r] : r \in RowsOn(p)}
    \cup {Owner[conn[c].rule] : c \in {d \in Conns : Holds(d) /\ conn[d].port = p}}

Crowded(p) == \E u, v \in Parties(p) : u # v

NoteCrowds == relet' = relet \cup {p \in Ports : Crowded(p)'}

-----------------------------------------------------------------------------
(* The rule service.                                                       *)

Opened(r) == {c \in Conns : conn[c].rule = r}

\* AddRule opens the listener first; ModifyRule, and an agent that has started
\* again, open one for a row whose listener is closed.
OpenListener(c) ==
  /\ conn[c].st = "new"
  /\ \E r \in Rules, p \in Ports :
       /\ row[r] = "live" \/ (row[r] = "none" /\ Opened(r) = {})
       /\ \A d \in Conns : conn[d].st = "open" => conn[d].port # p /\ conn[d].rule # r
       /\ conn' = [conn EXCEPT ![c] = [st |-> "open", port |-> p, rule |-> r]]
  /\ UNCHANGED <<db, cur, rep, tally, torn>>
  /\ NoteCrowds

\* DelRule and ModifyRule close the listener of a row, and leave its sessions alone.
CloseListener(c) ==
  /\ conn[c].st = "open" /\ row[conn[c].rule] = "live"
  /\ conn' = [conn EXCEPT ![c].st = "draining"]
  /\ UNCHANGED <<db, cur, rep, tally, relet, torn>>

\* AddRule's Create: ids are given in order.
InsertRow(r) ==
  /\ row[r] = "none"
  /\ \A q \in Rules : q < r => row[q] # "none"
  /\ \E c \in Opened(r) : at' = [at EXCEPT ![r] = conn[c].port]
  /\ row' = [row EXCEPT ![r] = "live"]
  /\ UNCHANGED <<traffic, daily, fresh, agent, tally, torn>>
  /\ NoteCrowds

\* ModifyRule's Updates.
MoveRow(r) ==
  /\ row[r] = "live"
  /\ \E c \in Opened(r) : at[r] # conn[c].port /\ at' = [at EXCEPT ![r] = conn[c].port]
  /\ UNCHANGED <<row, traffic, daily, fresh, agent, tally, torn>>
  /\ NoteCrowds

DropRow(r) ==
  /\ row[r] = "live"
  /\ \A c \in Opened(r) : conn[c].st # "open"
  /\ row' = [row EXCEPT ![r] = "gone"]
  /\ UNCHANGED <<at, traffic, daily, fresh, agent, tally, relet, torn>>

Midnight ==
  /\ fresh' = Users
  /\ UNCHANGED <<row, at, traffic, daily, agent, tally, relet, torn>>

-----------------------------------------------------------------------------
(* The agent.                                                              *)

\* Bytes that come while a report is under way are not in it.
Late(c) == IF In(c, "rest") THEN 0 ELSE 1

\* copyConn has read a buffer.
Carry(c) ==
  /\ Carries(c)
  /\ MapThenSumSet(LAMBDA d : tally[d].carried, Conns) < Bytes
  /\ cur' = [cur EXCEPT ![c] = @ + 1]
  /\ tally' = [tally EXCEPT ![c].carried = @ + 1, ![c].missed = @ + Late(c)]
  /\ UNCHANGED <<db, conn, rep, relet, torn>>

SessionsEnd(c) ==
  /\ conn[c].st = "draining"
  /\ conn' = [conn EXCEPT ![c].st = "closed"]
  /\ UNCHANGED <<db, cur, rep, tally, relet, torn>>

\* The counts are in memory: the process takes them with it.
AgentStops ==
  /\ \E c \in Conns : conn[c].st \notin {"new", "dead"}
  /\ conn' = [c \in Conns |-> [conn[c] EXCEPT !.st = IF @ = "new" THEN @ ELSE "dead"]]
  /\ cur' = [c \in Conns |-> 0]
  /\ tally' = [c \in Conns |-> [tally[c] EXCEPT !.missed = @ + cur[c]]]
  /\ UNCHANGED <<db, rep, relet, torn>>

\* Mutant: the count is taken when it is sent and not when it is answered.
Report_Takes(c) ==
  /\ In(c, "rest") /\ cur[c] > 0
  /\ rep' = [rep EXCEPT ![c] = [NoReport EXCEPT !.pc = "lookup", !.amount = cur[c]]]
  /\ cur' = [cur EXCEPT ![c] = 0]
  /\ UNCHANGED <<db, conn, tally, relet, torn>>

\* The reporter finds bytes, and reads the count again for the request.
Report(c) ==
  /\ In(c, "rest") /\ cur[c] > 0
  /\ rep' = [rep EXCEPT ![c] = [NoReport EXCEPT !.pc = "lookup", !.amount = cur[c]]]
  /\ UNCHANGED <<db, conn, cur, tally, relet, torn>>

\* Mutant: the count goes on from what was reported.
Accepted_NoReset(c) ==
  /\ In(c, "reply")
  /\ rep' = [rep EXCEPT ![c] = NoReport]
  /\ UNCHANGED <<db, conn, cur, tally, relet, torn>>

\* Store(0), whatever has been added since the report was made.
Accepted(c) ==
  /\ In(c, "reply")
  /\ cur' = [cur EXCEPT ![c] = 0]
  /\ rep' = [rep EXCEPT ![c] = NoReport]
  /\ UNCHANGED <<db, conn, tally, relet, torn>>

\* The request does not get to the controller, or to its database.
Unreached(c) ==
  /\ In(c, "lookup")
  /\ rep' = [rep EXCEPT ![c] = NoReport]
  /\ UNCHANGED <<db, conn, cur, tally, relet, torn>>

FaultsSoFar == MapThenSumSet(LAMBDA c : tally[c].faults, Conns)

\* The controller has done it all and the agent is told nothing.
ReplyLost(c) ==
  /\ In(c, "reply")
  /\ FaultsSoFar < Faults
  /\ rep' = [rep EXCEPT ![c] = NoReport]
  /\ tally' = [tally EXCEPT ![c].again = @ + rep[c].amount, ![c].faults = @ + 1]
  /\ UNCHANGED <<db, conn, cur, relet, torn>>

-----------------------------------------------------------------------------
(* ReportNetworkTraffic.                                                   *)

\* Mutant: any rule of the node will do.
Lookup_AnyPort(c) ==
  /\ In(c, "lookup")
  /\ \E r \in {q \in Rules : row[q] = "live"}, rate \in Rates :
       rep' = [rep EXCEPT ![c].pc = "charge", ![c].rule = r, ![c].rate = rate]
  /\ UNCHANGED <<db, conn, cur, tally, relet, torn>>

\* The first rule on the port, by id; without one the report is refused.  The
\* rate may have been edited at any time, and is only read here.
Lookup(c) ==
  LET found == RowsOn(conn[c].port) IN
  /\ In(c, "lookup")
  /\ \/ \E r \in found, rate \in Rates :
          /\ \A q \in found : r <= q
          /\ rep' = [rep EXCEPT ![c].pc = "charge", ![c].rule = r, ![c].rate = rate]
     \/ /\ found = {}
        /\ rep' = [rep EXCEPT ![c] = NoReport]
  /\ UNCHANGED <<db, conn, cur, tally, relet, torn>>

\* What the bytes come to by the rate, multiplied as float32: for large counts
\* and rates some number near the product.
AddTraffic(b, rate) ==
  LET product == b * rate
      error   == IF b <= Exact /\ product <= Exact THEN 0 ELSE product \div Exact
  IN  {add \in 0 .. 2 * product : product - error <= add /\ add <= product + error}

\* The UPDATE is by node and port: it adds to the rows that are there by now.
Charge(c) ==
  LET found == RowsOn(conn[c].port) IN
  /\ In(c, "charge")
  /\ \E add \in AddTraffic(rep[c].amount, rep[c].rate) :
       /\ traffic' = [r \in Rules |-> IF r \in found THEN traffic[r] + add ELSE traffic[r]]
       /\ rep' = [rep EXCEPT ![c].pc = "upsert", ![c].add = add]
  /\ torn' = IF found = {rep[c].rule} THEN torn
             ELSE torn \cup {Owner[r] : r \in found \cup {rep[c].rule}}
  /\ UNCHANGED <<row, at, daily, fresh, conn, cur, tally, relet>>

Payer(c) == Owner[rep[c].rule]

\* Mutant: the rows of the day are overwritten.
Upsert_Sets(c) ==
  LET u == Payer(c) IN
  /\ In(c, "upsert")
  /\ daily' = [daily EXCEPT ![u] = rep[c].add]
  /\ fresh' = fresh \ {u}
  /\ rep' = [rep EXCEPT ![c].pc = "reply", ![c].add = 0]
  /\ tally' = [tally EXCEPT ![c].paid = @ + rep[c].amount, ![c].payers = @ \cup {u}]
  /\ torn' = IF u \in fresh /\ rep[c].add # rep[c].amount THEN torn \cup {u} ELSE torn
  /\ UNCHANGED <<row, at, traffic, conn, cur, relet>>

(***************************************************************************)
(* The first report of a day inserts its bytes as they are, the others add *)
(* what theirs come to.                                                    *)
(***************************************************************************)
Upsert(c) ==
  LET u == Payer(c) IN
  /\ In(c, "upsert")
  /\ daily' = [daily EXCEPT ![u] =
                 @ + IF u \in fresh THEN rep[c].amount ELSE rep[c].add]
  /\ fresh' = fresh \ {u}
  /\ rep' = [rep EXCEPT ![c].pc = "reply", ![c].add = 0]
  /\ tally' = [tally EXCEPT ![c].paid = @ + rep[c].amount, ![c].payers = @ \cup {u}]
  /\ torn' = IF u \in fresh /\ rep[c].add # rep[c].amount THEN torn \cup {u} ELSE torn
  /\ UNCHANGED <<row, at, traffic, conn, cur, relet>>

\* The rule is charged, its owner is not, and the agent will report again.
UpsertFails(c) ==
  /\ In(c, "upsert")
  /\ FaultsSoFar < Faults
  /\ rep' = [rep EXCEPT ![c] = NoReport]
  /\ tally' = [tally EXCEPT ![c].faults = @ + 1]
  /\ torn' = torn \cup {Payer(c)}
  /\ UNCHANGED <<db, conn, cur, relet>>

-----------------------------------------------------------------------------
RuleService ==
  \/ \E c \in Conns : OpenListener(c) \/ CloseListener(c)
  \/ \E r \in Rules : InsertRow(r) \/ MoveRow(r) \/ DropRow(r)
  \/ Midnight

Delivered(c) == Lookup(c) \/ Charge(c) \/ Upsert(c) \/ Accepted(c)

Failed(c) == Unreached(c) \/ ReplyLost(c) \/ UpsertFails(c)

Connector(c) == Carry(c) \/ SessionsEnd(c) \/ Report(c) \/ Delivered(c) \/ Failed(c)

Next == RuleService \/ AgentStops \/ \E c \in Conns : Connector(c)

Spec == Init /\ [][Next]_vars

-----------------------------------------------------------------------------
Conn == [st : {"new", "open", "draining", "closed", "dead"},
         port : Ports \cup {None}, rule : Rules \cup {None}]

Rep == [pc : {"rest", "lookup", "charge", "upsert", "reply"}, amount : Nat,
        rule : Rules \cup {None}, rate : Rates \cup {0}, add : Nat]

Tally == [carried : Nat, paid : Nat, again : Nat, faults : Nat, missed : Nat,
          payers : SUBSET Users]

(***************************************************************************)
(* Type correctness: a report that has found a rule names it, and a        *)
(* listener has the port and the rule it was opened for.                   *)
(***************************************************************************)
TypeOK ==
  /\ row \in [Rules -> {"none", "live", "gone"}] /\ at \in [Rules -> Ports \cup {None}]
  /\ traffic \in [Rules -> Nat] /\ daily \in [Users -> Nat] /\ fresh \subseteq Users
  /\ conn \in [Conns -> Conn] /\ cur \in [Conns -> Nat]
  /\ rep \in [Conns -> Rep] /\ tally \in [Conns -> Tally]
  /\ relet \subseteq Ports /\ torn \subseteq Users
  /\ \A c \in Conns : conn[c].st # "new" => conn[c].port \in Ports /\ conn[c].rule \in Rules
  /\ \A c \in Conns : rep[c].pc \in {"charge", "upsert", "reply"} => rep[c].rule \in Rules

(***************************************************************************)
(* No byte is charged twice, except those of a report whose reply was      *)
(* lost: whatever is being carried, charged, moved or deleted meanwhile.   *)
(***************************************************************************)
ChargedOnce ==
  \A c \in Conns : tally[c].paid <= tally[c].carried + tally[c].again

(***************************************************************************)
(* No byte is forgotten, except those carried while a report was under way *)
(* and those an agent had counted when it stopped: a refused report is     *)
(* made again.                                                             *)
(***************************************************************************)
NothingForgotten ==
  \A c \in Conns : tally[c].carried <= tally[c].paid + cur[c] + tally[c].missed

(***************************************************************************)
(* A user pays for their own sessions: on a port where the traffic of two  *)
(* users has not met.                                                      *)
(***************************************************************************)
OwnTraffic ==
  \A c \in Conns :
    conn[c].port \in Ports \ relet => tally[c].payers \subseteq {Owner[conn[c].rule]}

Columns(u) == MapThenSumSet(LAMBDA r : traffic[r], {r \in Rules : Owner[r] = u})

(***************************************************************************)
(* What a plan is held against is the sum of the user's rule columns,      *)
(* deleted rules included: between reports, for a user none of whose       *)
(* reports was written in half, to another set of rules, or as the first   *)
(* of a day when its bytes did not come to themselves: at a rate other     *)
(* than one, or so large that float32 rounded them.                        *)
(***************************************************************************)
DayIsColumns ==
  \A u \in Users \ torn :
    (\A c \in Conns : In(c, "upsert") => Payer(c) # u) => daily[u] = Columns(u)

-----------------------------------------------------------------------------
(* What makes ChargedOnce, NothingForgotten and OwnTraffic inductive.      *)

Sent(c) == rep[c].pc \in {"lookup", "charge", "upsert"}

\* What is counted, or on its way, is not charged yet; a report that waits for its
\* reply is charged and still counted.
NotChargedYet ==
  \A c \in Conns :
    LET room == tally[c].carried + tally[c].again IN
    /\ tally[c].paid + cur[c] <= room + IF In(c, "reply") THEN rep[c].amount ELSE 0
    /\ tally[c].paid + (IF Sent(c) THEN rep[c].amount ELSE 0) <= room

\* Setting the count to zero when the reply comes forgets what was missed.
MissedIsMore ==
  \A c \in Conns :
    /\ tally[c].carried <= tally[c].paid + cur[c] + tally[c].missed
    /\ In(c, "reply") => tally[c].carried <= tally[c].paid + tally[c].missed
    /\ Sent(c) => tally[c].carried <= tally[c].paid + rep[c].amount + tally[c].missed

\* A connector that was never opened has nothing to report.
UnusedIsIdle ==
  \A c \in Conns : conn[c].st = "new" =>
    cur[c] = 0 /\ In(c, "rest") /\ tally[c].payers = {} /\ conn[c].port = None

CrowdsAreNoted == \A p \in Ports : Crowded(p) => p \in relet

\* The rule a report has found is its own user's.
FindsOwnRule ==
  \A c \in Conns :
    rep[c].pc \in {"charge", "upsert"} /\ conn[c].port \notin relet => Payer(c) = Owner[conn[c].rule]

\* The inductive invariant.
MeterInv ==
  /\ NotChargedYet /\ MissedIsMore
  /\ UnusedIsIdle /\ CrowdsAreNoted /\ FindsOwnRule /\ OwnTraffic
=============================================================================
