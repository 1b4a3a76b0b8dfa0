------------------------------ MODULE Lifecycle ------------------------------
(***************************************************************************)
(* One stander process from its start to its exit: a server (with or       *)
(* without the background worker in it), a worker, or an agent.            *)
(*                                                                         *)
(* One cancellation reaches the HTTP server and the worker.  Requests in   *)
(* flight are drained first and the worker is waited for afterwards, in    *)
(* one window of shutdownGrace; the database handle is closed last.  Time  *)
(* is the window alone: it may end whenever nothing that takes no time is  *)
(* left to be done.                                                        *)
(***************************************************************************)
EXTENDS Naturals

CONSTANTS
  Modes,       \* subcommands: "server", "serverOnly" (--worker=false), "worker", "agent"
  MaxInflight  \* bounds the requests in flight

ASSUME LifecycleAssumption ==
  /\ Modes \subseteq {"server", "serverOnly", "worker", "agent"}
  /\ MaxInflight \in Nat \ {0}

VARIABLES
  mode,       \* the subcommand
  phase,      \* loading, serving, draining, waiting, closing, exited
  pool,       \* the database handle
  cancelled,  \* the context of withSignals
  listener,   \* h.Run: "off", "on", "failed" or "closed"
  refused,    \* h.Shutdown came before h.Run and drained nothing
  inflight,   \* requests being served
  job,        \* the worker: "none", "relay", "idle", "pass" or "stopped"
  window      \* drainCtx: "unset", "open" or "over"

lifecycleVars == <<mode, phase, pool, cancelled, listener, refused, inflight, job, window>>

HasPool(md)   == md # "agent"
\* db.Init: the handle is made, whether MySQL answers or not.
DbInit(md)    == IF HasPool(md) THEN "open" ELSE "closed"
DbClose       == "closed"
HasWorker(md) == md \in {"server", "worker"}

LifecycleInit ==
  /\ mode \in Modes
  /\ phase = "loading" /\ pool = "closed" /\ cancelled = FALSE
  /\ listener = "off" /\ refused = FALSE /\ inflight = 0
  /\ job = "none" /\ window = "unset"

-----------------------------------------------------------------------------
(* Start.  Until withSignals a signal kills the process.                   *)

\* A timezone, a database or a controller that does not answer, InitAgent's
\* panic, or a signal.
StartFails ==
  /\ phase = "loading" /\ phase' = "exited"
  /\ UNCHANGED <<mode, pool, cancelled, listener, refused, inflight, job, window>>

Starts ==
  /\ phase = "loading" /\ phase' = "serving"
  /\ pool' = DbInit(mode)
  \* EnableRelay: the worker's first task is manager.Init.
  /\ job' \in IF HasWorker(mode) THEN {"relay", "idle"} ELSE {"none"}
  /\ UNCHANGED <<mode, cancelled, listener, refused, inflight, window>>

HandleKept == UNCHANGED <<mode, phase, pool, cancelled, refused, window>>

\* The goroutine of h.Run may be late: serve does not wait for it.
Listens ==
  /\ listener = "off" /\ phase \notin {"loading", "closing", "exited"}
  /\ listener' \in {"on", "failed"}
  /\ HandleKept /\ UNCHANGED <<inflight, job>>

RequestArrives ==
  /\ listener = "on" /\ phase # "exited" /\ inflight < MaxInflight
  /\ inflight' = inflight + 1
  /\ HandleKept /\ UNCHANGED <<listener, job>>

RequestEnds ==
  /\ inflight > 0 /\ phase # "exited"
  /\ inflight' = inflight - 1
  /\ HandleKept /\ UNCHANGED <<listener, job>>

-----------------------------------------------------------------------------
(* worker.Run.                                                             *)

JobMoves(from, to) ==
  /\ job = from /\ job' = to /\ phase # "exited"
  /\ HandleKept /\ UNCHANGED <<listener, inflight>>

\* manager.Init has a context of its own: it ends when every agent has
\* accepted every chain and rule, cancelled or not; or with an error.
RelayDone  == JobMoves("relay", "idle")
RelayFails == JobMoves("relay", "stopped")

\* select: a tick that is due may win over a cancellation that is there.
Ticks     == JobMoves("idle", "pass")
PassEnds  == JobMoves("pass", "idle")
JobStops  == cancelled /\ JobMoves("idle", "stopped")

-----------------------------------------------------------------------------
(* serve.                                                                  *)

Signal ==
  /\ phase \notin {"loading", "exited"} /\ ~cancelled /\ cancelled' = TRUE
  /\ UNCHANGED <<mode, phase, pool, listener, refused, inflight, job, window>>

\* h.Run has returned: serve returns its error and waits for nobody.
RunFailed ==
  /\ phase = "serving" /\ listener = "failed"
  /\ phase' = "closing" /\ cancelled' = TRUE
  /\ UNCHANGED <<mode, pool, listener, refused, inflight, job, window>>

Drain ==
  /\ phase = "serving" /\ cancelled
  /\ phase' = "draining" /\ window' = "open"
  /\ listener' = IF listener = "on" THEN "closed" ELSE listener
  /\ refused' = (listener # "on")
  /\ UNCHANGED <<mode, pool, cancelled, inflight, job>>

NoTimeLeft == window = "over"

\* h.Shutdown returns: drained, out of time, or without having drained.
Drained ==
  /\ phase = "draining" /\ (inflight = 0 \/ refused \/ NoTimeLeft)
  /\ phase' = "waiting"
  /\ UNCHANGED <<mode, pool, cancelled, listener, refused, inflight, job, window>>

\* Mutant: the process does not wait for the worker.
waitTimeout_Not == TRUE

waitTimeout == job \in {"none", "stopped"} \/ NoTimeLeft

Waited ==
  /\ phase = "waiting" /\ waitTimeout
  /\ phase' = "closing"
  /\ UNCHANGED <<mode, pool, cancelled, listener, refused, inflight, job, window>>

\* What takes no time at all: an idle worker sees the cancellation.
Prompt ==
  \/ job = "idle"
  \/ phase = "draining" /\ (inflight = 0 \/ refused)
  \/ phase = "waiting" /\ waitTimeout

WindowEnds ==
  /\ window = "open" /\ phase \in {"draining", "waiting"} /\ ~Prompt
  /\ window' = "over"
  /\ UNCHANGED <<mode, phase, pool, cancelled, listener, refused, inflight, job>>

\* The deferred calls, and the process with every goroutine it has left.
Exits ==
  /\ phase = "closing" /\ phase' = "exited"
  /\ pool' = DbClose
  /\ UNCHANGED <<mode, cancelled, listener, refused, inflight, job, window>>

\* The supervisor starts it again.
Restarts ==
  /\ phase = "exited"
  /\ mode' = mode /\ phase' = "loading" /\ pool' = "closed" /\ cancelled' = FALSE
  /\ listener' = "off" /\ refused' = FALSE /\ inflight' = 0
  /\ job' = "none" /\ window' = "unset"

LifecycleNext ==
  \/ StartFails \/ Starts \/ Listens \/ RequestArrives \/ RequestEnds
  \/ RelayDone \/ RelayFails \/ Ticks \/ PassEnds \/ JobStops
  \/ Signal \/ RunFailed \/ Drain \/ Drained \/ Waited \/ WindowEnds \/ Exits \/ Restarts

LifecycleSpec == LifecycleInit /\ [][LifecycleNext]_lifecycleVars

-----------------------------------------------------------------------------
(***************************************************************************)
(* A process that has served cuts neither a request nor a pass of the      *)
(* worker off when it closes the database and exits, unless they outlast   *)
(* the window of serve.  Two exceptions: the listener failed, and serve    *)
(* returned without looking at the worker; or the signal came before h.Run *)
(* was there to be shut down, and requests it then took were not drained.  *)
(***************************************************************************)
CutOnlyLate ==
  phase \in {"closing", "exited"} /\ window # "unset" =>
    \/ NoTimeLeft
    \/ job \in {"none", "stopped"} /\ (refused \/ inflight = 0)
=============================================================================
