------------------------------ MODULE MCConsole ------------------------------
(***************************************************************************)
(* Instances, for TLC, of the modules whose properties are invariants of   *)
(* small components that share no state.  One run holds them all: a        *)
(* behaviour has one of them in focus, and the others keep still.          *)
(***************************************************************************)
EXTENDS Accounts, SignIn, Resources, Chains, Gost, Lifecycle, Dispatch

CONSTANTS v4, v6, tcp, tls

VARIABLE focus

MCOffers == {<<v4, tcp>>, <<v6, tls>>}

MCInit ==
  /\ focus \in {"accounts", "signin", "resources", "chains", "gost", "lifecycle", "dispatch"}
  /\ AccountsInit /\ SignInInit /\ ResourcesInit /\ Init /\ GostInit /\ DispatchInit
  /\ IF focus = "lifecycle" THEN LifecycleInit ELSE LifecycleInit /\ mode = "server"

MCNext ==
  /\ UNCHANGED focus
  /\ CASE focus = "accounts"   -> AccountsNext  /\ UNCHANGED <<signInVars, resourceVars, vars, gostVars, lifecycleVars, dispatchVars>>
       [] focus = "signin"     -> SignInNext    /\ UNCHANGED <<accountsVars, resourceVars, vars, gostVars, lifecycleVars, dispatchVars>>
       [] focus = "resources"  -> ResourcesNext /\ UNCHANGED <<accountsVars, signInVars, vars, gostVars, lifecycleVars, dispatchVars>>
       [] focus = "chains"     -> Next          /\ UNCHANGED <<accountsVars, signInVars, resourceVars, gostVars, lifecycleVars, dispatchVars>>
       [] focus = "gost"       -> GostNext      /\ UNCHANGED <<accountsVars, signInVars, resourceVars, vars, lifecycleVars, dispatchVars>>
       [] focus = "lifecycle"  -> LifecycleNext /\ UNCHANGED <<accountsVars, signInVars, resourceVars, vars, gostVars, dispatchVars>>
       [] focus = "dispatch"   -> DispatchNext  /\ UNCHANGED <<accountsVars, signInVars, resourceVars, vars, gostVars, lifecycleVars>>

MCSpec == MCInit /\ [][MCNext]_<<focus, accountsVars, signInVars, resourceVars, vars, gostVars, lifecycleVars, dispatchVars>>

(***************************************************************************)
(* What is exempt for one reason tells nothing new for a second.  One rule *)
(* that is astray is all the rules there are, a disturbed port waits for a *)
(* registration and no more for the relay, and requests of gost's agent    *)
(* cross each other before it has charged for events or while it has none. *)
(* Nothing in these components depends on a node's rate.                   *)
(***************************************************************************)
OneReason ==
  /\ disturbed = {} \/ (node /\ unowned = {} /\ \A c \in ChainIds : ~Relaying(c))
  /\ unowned = {} \/ node
  /\ Cardinality(raced) <= 1 /\ astray = {}
  /\ \/ unanswered = NoEvents /\ \A p \in GostPorts : charged[p] = 0
     \/ torn = {} /\ \E h \in Askers : ~Working(h)
  /\ \A n \in Nodes : rate[n] = 1
=============================================================================
