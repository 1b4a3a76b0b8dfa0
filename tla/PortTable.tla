----------------------------- MODULE PortTable -----------------------------
(***************************************************************************)
(* What an agent promises about its listen ports: a request takes effect   *)
(* as one step, between the moment it arrives and the moment it is         *)
(* answered.  RuleSync takes the agent to be this.                         *)
(***************************************************************************)
EXTENDS Naturals

CONSTANTS Ports, Reqs, None

VARIABLES
  table,    \* the request that opened the listener of each port
  answer    \* the answer of each request

Init ==
  /\ table = [p \in Ports |-> None]
  /\ answer = [r \in Reqs |-> None]

\* Deleting the forward of a port succeeds whether or not there is one.
Delete(r, p) ==
  /\ answer[r] = None
  /\ table' = [table EXCEPT ![p] = None]
  /\ answer' = [answer EXCEPT ![r] = "ok"]

\* Opening p, the port `old`, if any, being closed first.
Open(r, old, p) ==
  LET freed == [q \in Ports |-> IF q = old THEN None ELSE table[q]] IN
  /\ answer[r] = None
  /\ \/ /\ freed[p] = None
        /\ table' = [freed EXCEPT ![p] = r]
        /\ answer' = [answer EXCEPT ![r] = "ok"]
     \/ /\ freed[p] # None
        /\ table' = freed
        /\ answer' = [answer EXCEPT ![r] = "error"]

\* The agent's process ends: its sockets close, and some requests hear nothing.
Dies ==
  /\ table' = [p \in Ports |-> None]
  /\ \E lost \in SUBSET Reqs :
       answer' = [r \in Reqs |-> IF r \in lost THEN "cut" ELSE answer[r]]

Next ==
  \/ Dies
  \/ \E r \in Reqs, p \in Ports :
       Delete(r, p) \/ \E old \in Ports \cup {None} : Open(r, old, p)

Spec == Init /\ [][Next]_<<table, answer>>
=============================================================================
