-------------------------------- MODULE Gost --------------------------------
(***************************************************************************)
(* An agent with EnableGost: the forwards are services of a gost process   *)
(* on the same host, two for each port, made and deleted one HTTP call at  *)
(* a time, and gost tells the agent what they have carried.  Unlike the    *)
(* agent's own listeners they outlive the agent, which takes "already      *)
(* exists" for done when it starts.                                        *)
(***************************************************************************)
EXTENDS Absent, Naturals, FiniteSets, FiniteSetsExt

CONSTANTS
  GostPorts,
  Confs,       \* destination and chain of a forward
  Askers,      \* concurrent requests of the controller
  MaxCarried   \* bounds the traffic of each port, and what is charged of it once more

\* What a request of the controller may be in the middle of.
GostJob ==
  [op : {"add", "del", "modify"}, port : GostPorts, conf : Confs \cup {None},
   call : {"delTcp", "delUdp", "addTcp", "addUdp", "commit"}]

ASSUME GostAssumption == GostPorts \subseteq Nat /\ None \notin Confs /\ None \notin GostJob

VARIABLES
  services,    \* gost's services: the configuration of each half of each port
  rows,        \* rules table: the configuration of the rule on each port
  serving,     \* the agent
  snapshot,    \* the rules a starting agent was told
  jobs,        \* requests the agent works on
  torn,        \* history: ports whose services something has torn from their rule
  carried, counter, charged,  \* units of a port: gone through it, not yet reported, charged
  unanswered,  \* events gost has sent and has had no good answer to: units of each port, or None
  batch,       \* those of them the agent has still to report
  billed,      \* history: ports whose event among them has been charged
  again        \* history: units charged of events that had been charged before

gostTraffic == <<carried, counter, charged, unanswered, batch, billed, again>>
gostVars == <<services, rows, serving, snapshot, jobs, torn, gostTraffic>>

Nothing == [tcp |-> None, udp |-> None]
NoEvents == [p \in GostPorts |-> None]

GostInit ==
  /\ services = [p \in GostPorts |-> Nothing]
  /\ rows = [p \in GostPorts |-> None]
  /\ serving = "down" /\ snapshot = rows
  /\ jobs = [h \in Askers |-> None]
  /\ torn = {}
  /\ carried = [p \in GostPorts |-> 0] /\ counter = carried /\ charged = carried
  /\ unanswered = NoEvents /\ batch = NoEvents
  /\ billed = {} /\ again = [p \in GostPorts |-> 0]

-----------------------------------------------------------------------------
Working(h) == jobs[h] # None

DoesNext(h, call) == Working(h) /\ jobs[h].call = call

WorkedOn(p) == \E h \in Askers : Working(h) /\ jobs[h].port = p

Proceed(h, call) == jobs' = [jobs EXCEPT ![h].call = call]

Done(h) == jobs' = [jobs EXCEPT ![h] = None]

Tear(P) == torn' = torn \cup P

Set(p, half, conf) == services' = [services EXCEPT ![p][half] = conf]

\* A request of the controller reaches the agent; two on one port cross.
Asked(h, op, p, conf, call) ==
  /\ ~Working(h) /\ serving = "up"
  /\ jobs' = [jobs EXCEPT ![h] = [op |-> op, port |-> p, conf |-> conf, call |-> call]]
  /\ IF WorkedOn(p) THEN Tear({p}) ELSE UNCHANGED torn
  /\ UNCHANGED <<services, rows, serving, snapshot, gostTraffic>>

AskAdd(h)    == \E p \in GostPorts, c \in Confs : Asked(h, "add", p, c, "addTcp")
AskDel(h)    == \E p \in GostPorts : rows[p] # None /\ Asked(h, "del", p, None, "delTcp")
AskModify(h) == \E p \in GostPorts, c \in Confs : rows[p] # None /\ Asked(h, "modify", p, c, "delTcp")

\* DelRule of an agent that refuses connections deletes the row: gost goes on.
DelUnheard(h) ==
  /\ ~Working(h) /\ serving # "up"
  /\ \E p \in GostPorts :
       /\ rows[p] # None
       /\ rows' = [rows EXCEPT ![p] = None]
       /\ Tear({p})
  /\ UNCHANGED <<services, serving, snapshot, jobs, gostTraffic>>

-----------------------------------------------------------------------------
(* DelPort: TCP, then UDP; the first error ends it.  A deletion reports    *)
(* it, ModifyRule logs it and goes on to AddRule.                          *)

AfterDel(h) == IF jobs[h].op = "modify" THEN Proceed(h, "addTcp") ELSE Proceed(h, "commit")

DelFailed(h) == IF jobs[h].op = "modify" THEN Proceed(h, "addTcp") ELSE Done(h)

DelTcp(h) ==
  LET p == jobs[h].port IN
  /\ DoesNext(h, "delTcp")
  /\ IF services[p].tcp # None THEN Set(p, "tcp", None) /\ Proceed(h, "delUdp")
                               ELSE DelFailed(h) /\ UNCHANGED services
  /\ UNCHANGED <<rows, serving, snapshot, torn, gostTraffic>>

\* Mutant: DelPort forgets the second service.
DelUdp_Forgets(h) ==
  /\ DoesNext(h, "delUdp")
  /\ AfterDel(h)
  /\ UNCHANGED <<services, rows, serving, snapshot, torn, gostTraffic>>

DelUdp(h) ==
  LET p == jobs[h].port IN
  /\ DoesNext(h, "delUdp")
  /\ IF services[p].udp # None THEN Set(p, "udp", None) /\ AfterDel(h) /\ UNCHANGED torn
                               ELSE DelFailed(h) /\ Tear({p}) /\ UNCHANGED services
  /\ UNCHANGED <<rows, serving, snapshot, gostTraffic>>

\* AddRule: a name that is there already is refused.
AddTcp(h) ==
  LET p == jobs[h].port IN
  /\ DoesNext(h, "addTcp")
  /\ IF services[p].tcp = None THEN Set(p, "tcp", jobs[h].conf) /\ Proceed(h, "addUdp")
                               ELSE Done(h) /\ UNCHANGED services
  /\ UNCHANGED <<rows, serving, snapshot, torn, gostTraffic>>

AddUdp(h) ==
  LET p == jobs[h].port IN
  /\ DoesNext(h, "addUdp")
  /\ IF services[p].udp = None THEN Set(p, "udp", jobs[h].conf) /\ Proceed(h, "commit") /\ UNCHANGED torn
                               ELSE Done(h) /\ Tear({p}) /\ UNCHANGED services
  /\ UNCHANGED <<rows, serving, snapshot, gostTraffic>>

\* gost refuses a call, or is gone: what has been done stays.
CallFails(h) ==
  LET q == jobs[h] IN
  /\ Working(h) /\ q.call # "commit"
  /\ IF q.call \in {"delTcp", "delUdp"} THEN DelFailed(h) ELSE Done(h)
  /\ IF q.call = "delTcp" \/ (q.call = "addTcp" /\ q.op = "add") THEN UNCHANGED torn ELSE Tear({q.port})
  /\ UNCHANGED <<services, rows, serving, snapshot, gostTraffic>>

\* The answer reaches the controller, which writes the row; or it does not.
Commits(h) ==
  LET q == jobs[h] IN
  /\ DoesNext(h, "commit") /\ Done(h)
  /\ \/ rows' = [rows EXCEPT ![q.port] = q.conf] /\ UNCHANGED torn
     \/ Tear({q.port}) /\ UNCHANGED rows
  /\ UNCHANGED <<services, serving, snapshot, gostTraffic>>

-----------------------------------------------------------------------------
(* The agent and gost start and stop apart.                                *)

AgentStarts ==
  /\ serving = "down" /\ serving' = "starting"
  /\ snapshot' = rows
  /\ UNCHANGED <<services, rows, jobs, torn, gostTraffic>>

\* "already exists" for the first half ends it for the second.
Reopened(s, c) ==
  IF c = None \/ s.tcp # None THEN s ELSE [tcp |-> c, udp |-> IF s.udp = None THEN c ELSE s.udp]

InitAgentGost ==
  /\ serving = "starting" /\ serving' = "up"
  /\ services' = [p \in GostPorts |-> Reopened(services[p], snapshot[p])]
  /\ torn' = {p \in torn : services[p] # Nothing} \cup {p \in GostPorts : snapshot[p] # rows[p]}
  /\ UNCHANGED <<rows, snapshot, jobs, gostTraffic>>

\* gost refuses a service of p: the rules told before it are open, and the
\* agent is gone.
InitAgentPanics ==
  /\ serving = "starting" /\ serving' = "down"
  /\ \E p \in GostPorts, before \in SUBSET GostPorts, half \in {"none", "tcp"} :
       /\ p \notin before /\ snapshot[p] # None /\ services[p].tcp = None
       /\ services' = [o \in GostPorts |->
                         CASE o \in before -> Reopened(services[o], snapshot[o])
                           [] o = p /\ half = "tcp" -> [services[p] EXCEPT !.tcp = snapshot[p]]
                           [] OTHER -> services[o]]
       /\ Tear({p} \cup {o \in before : snapshot[o] # rows[o]})
  /\ UNCHANGED <<rows, snapshot, jobs, gostTraffic>>

\* It may be stopped at any time.
AgentDies ==
  /\ serving # "down" /\ serving' = "down"
  /\ jobs' = [h \in Askers |-> None]
  /\ Tear({p \in GostPorts : WorkedOn(p)})
  /\ batch' = NoEvents
  /\ UNCHANGED <<services, rows, snapshot, carried, counter, charged, unanswered, billed, again>>

\* Services made through the API are gone, and the events it kept.
GostRestarts ==
  /\ services' = [p \in GostPorts |-> Nothing]
  /\ Tear({p \in GostPorts : rows[p] # None \/ WorkedOn(p)})
  /\ counter' = [p \in GostPorts |-> 0] /\ unanswered' = NoEvents
  /\ UNCHANGED <<rows, serving, snapshot, jobs, carried, charged, batch, billed, again>>

-----------------------------------------------------------------------------
(* Traffic.  UDP halves count too, and the agent passes their events over. *)

Carries(p) ==
  /\ services[p].tcp # None /\ carried[p] < MaxCarried
  /\ carried' = [carried EXCEPT ![p] = @ + 1] /\ counter' = [counter EXCEPT ![p] = @ + 1]
  /\ UNCHANGED <<services, rows, serving, snapshot, jobs, torn, charged, unanswered, batch, billed, again>>

\* Mutant: the observer counts from the beginning each time.
AfterEvent_Total(k) == k

\* observer.resetTraffic: an event takes what it reports off the counter.
AfterEvent(k) == 0

Observes ==
  /\ serving = "up" /\ batch = NoEvents /\ unanswered = NoEvents
  /\ \E p \in GostPorts : services[p].tcp # None
  /\ batch' = [p \in GostPorts |-> IF services[p].tcp # None THEN counter[p] ELSE None]
  /\ unanswered' = batch' /\ billed' = {}
  /\ counter' = [p \in GostPorts |-> IF services[p].tcp # None THEN AfterEvent(counter[p]) ELSE counter[p]]
  /\ UNCHANGED <<services, rows, serving, snapshot, jobs, torn, carried, charged, again>>

\* Nothing here tells gost not to send events again that were answered with
\* an error, or not at all; or to do so.
SendsAgain ==
  /\ serving = "up" /\ batch = NoEvents /\ unanswered # NoEvents
  /\ \A p \in billed : again[p] + unanswered[p] <= MaxCarried
  /\ batch' = unanswered
  /\ UNCHANGED <<services, rows, serving, snapshot, jobs, torn, carried, counter, charged, unanswered, billed, again>>

GivesUp ==
  /\ batch = NoEvents /\ unanswered # NoEvents
  /\ unanswered' = NoEvents
  /\ UNCHANGED <<services, rows, serving, snapshot, jobs, torn, carried, counter, charged, batch, billed, again>>

Charge(p) ==
  /\ charged' = [charged EXCEPT ![p] = @ + batch[p]]
  /\ again' = IF p \in billed THEN [again EXCEPT ![p] = @ + batch[p]] ELSE again
  /\ billed' = billed \cup {p}

\* One by one; the first error is the answer to all of them, also to those
\* that have been charged, and an event may have been charged and its report
\* answered with an error.
ObserverNetworkTraffic ==
  \E p \in GostPorts :
    /\ batch[p] # None /\ \A o \in GostPorts : o < p => batch[o] = None
    /\ \/ /\ Charge(p) /\ batch' = [batch EXCEPT ![p] = None]
          /\ unanswered' = IF batch' = NoEvents THEN NoEvents ELSE unanswered
       \/ Charge(p) /\ batch' = NoEvents /\ UNCHANGED unanswered
       \/ batch' = NoEvents /\ UNCHANGED <<charged, again, billed, unanswered>>
    /\ UNCHANGED <<services, rows, serving, snapshot, jobs, torn, carried, counter>>

GostNext ==
  \/ \E h \in Askers :
       \/ AskAdd(h) \/ AskDel(h) \/ AskModify(h) \/ DelUnheard(h)
       \/ DelTcp(h) \/ DelUdp(h) \/ AddTcp(h) \/ AddUdp(h) \/ CallFails(h) \/ Commits(h)
  \/ AgentStarts \/ InitAgentGost \/ InitAgentPanics \/ AgentDies \/ GostRestarts
  \/ (\E p \in GostPorts : Carries(p)) \/ Observes \/ SendsAgain \/ GivesUp \/ ObserverNetworkTraffic

GostSpec == GostInit /\ [][GostNext]_gostVars

-----------------------------------------------------------------------------
(***************************************************************************)
(* When no request is at work on it, both services of a port are there, as *)
(* its row says, or neither; whether the agent is up or not.  Except where *)
(* a request failed half way or crossed another, gost was restarted, the   *)
(* answer was lost, or the row was deleted while the agent was away: such  *)
(* a port is put right by the next start of the agent only if gost has     *)
(* lost its services.                                                      *)
(***************************************************************************)
GostServes ==
  \A p \in GostPorts \ torn :
    WorkedOn(p) \/ services[p] = [tcp |-> rows[p], udp |-> rows[p]]

(***************************************************************************)
(* What is charged for a port is never more than it has carried, but for   *)
(* the events that gost sends once more after they have been charged: the  *)
(* agent answers a batch with the first error, and what it had reported by *)
(* then is charged again.  An event whose own report did not get through   *)
(* is charged once, however often it is sent.                              *)
(***************************************************************************)
Units(k) == IF k = None THEN 0 ELSE k

ToBeCharged(p) ==
  IF p \in billed THEN 0 ELSE Units(IF batch[p] = None THEN unanswered[p] ELSE batch[p])

GostChargedOnce ==
  \A p \in GostPorts : charged[p] + counter[p] + ToBeCharged(p) <= carried[p] + again[p]
=============================================================================
