----------------------------- MODULE Supervisor -----------------------------
(***************************************************************************)
(* cmd/govlensd: prepare the database, run every enabled process, restart  *)
(* what ends, stop on a signal.  The container around it starts it again.  *)
(***************************************************************************)
EXTENDS Naturals

CONSTANTS
  Configs,     \* configuration files: [init, modules]
  OpenTries,   \* attempts to reach Postgres; 30 in the code
  MaxStarts,   \* starts of the container: bounds the model
  MaxOutages   \* outages of Postgres: bounds the model

(***************************************************************************)
(* Every configuration runs "web"; it is listed with the modules so that   *)
(* an instance can look at another process alone.                          *)
(***************************************************************************)
Programs == {"web", "grantworker", "remediator", "collector"}

ASSUME SupervisorAssumption ==
  /\ Configs \subseteq [init : {"", "reuse", "fresh"}, modules : SUBSET Programs]
  /\ OpenTries \in Nat \ {0}
  /\ MaxStarts \in Nat /\ MaxOutages \in Nat

VARIABLES
  config,    \* the configuration file
  launcher,  \* "down", "reset", "open", "up" or "stopping"
  tries,     \* failed attempts to reach Postgres
  child,     \* child[p]: "none", "up", "waiting" for its restart, or "ended"
  dbUp,      \* Postgres can be reached
  starts, outages

supVars == <<config, launcher, tries, child, dbUp, starts, outages>>

SupTypeOK ==
  /\ config \in Configs
  /\ launcher \in {"down", "reset", "open", "up", "stopping"}
  /\ tries \in 0..OpenTries
  /\ child \in [Programs -> {"none", "up", "waiting", "ended"}]
  /\ dbUp \in BOOLEAN
  /\ starts \in 0..MaxStarts /\ outages \in 0..MaxOutages

NoChild == [p \in Programs |-> "none"]

SupInit ==
  /\ config \in Configs
  /\ launcher = "down" /\ tries = 0 /\ child = NoChild
  /\ dbUp = TRUE
  /\ starts = 0 /\ outages = 0

Goto(stage) == launcher' = stage /\ UNCHANGED <<child, config, dbUp, starts, outages>>

\* log.Fatal, a signal before there are children, or the container killed.
Down ==
  /\ launcher' = "down" /\ tries' = 0 /\ child' = NoChild
  /\ UNCHANGED <<config, dbUp, starts, outages>>

\* A mutant: everything but an explicit "reuse" wipes.
StartUnlessReuse ==
  /\ launcher = "down" /\ starts < MaxStarts
  /\ launcher' = IF config.init = "reuse" THEN "open" ELSE "reset"
  /\ starts' = starts + 1
  /\ UNCHANGED <<config, tries, child, dbUp, outages>>

\* An empty init means reuse.
Start ==
  /\ launcher = "down" /\ starts < MaxStarts
  /\ launcher' = IF config.init = "fresh" THEN "reset" ELSE "open"
  /\ starts' = starts + 1
  /\ UNCHANGED <<config, tries, child, dbUp, outages>>

Reset     == launcher = "reset" /\ dbUp /\ Goto("open") /\ UNCHANGED tries
ResetFail == launcher = "reset" /\ ~dbUp /\ Down

\* store.Open, which also applies the schema; then every process is started.
Open ==
  /\ launcher = "open" /\ dbUp
  /\ launcher' = "up" /\ tries' = 0
  /\ child' = [p \in Programs |-> IF p \in config.modules THEN "up" ELSE "none"]
  /\ UNCHANGED <<config, dbUp, starts, outages>>

\* A mutant: it waits for Postgres for ever.
OpenForever == launcher = "open" /\ ~dbUp /\ Goto("open") /\ tries' = 0

OpenFail ==
  /\ launcher = "open" /\ ~dbUp
  /\ IF tries + 1 < OpenTries THEN Goto("open") /\ tries' = tries + 1 ELSE Down

-----------------------------------------------------------------------------
SetChild(p, state) ==
  /\ child' = [child EXCEPT ![p] = state]
  /\ UNCHANGED <<config, launcher, tries, dbUp, starts, outages>>

\* A process ends on its own: it fails, or its one run is over.
ChildEnds(p) == launcher = "up" /\ child[p] = "up" /\ SetChild(p, "waiting")

\* A mutant: only a process that was up when Postgres answers is restarted.
ChildStartsIfDbUp(p) ==
  launcher = "up" /\ child[p] = "waiting" /\ dbUp /\ SetChild(p, "up")

\* supervise after three seconds, runCollector at the next tick.
ChildStarts(p) == launcher = "up" /\ child[p] = "waiting" /\ SetChild(p, "up")

\* SIGTERM or SIGINT: a notification once there are children.
Signal ==
  \/ launcher = "up" /\ Goto("stopping") /\ UNCHANGED tries
  \/ launcher \in {"reset", "open"} /\ Down

\* A mutant: who waits to restart a process does not look at the context.
ChildStopsIfUp(p) ==
  launcher = "stopping" /\ child[p] = "up" /\ SetChild(p, "ended")

\* The context is done: the process is killed, its supervisor returns.
ChildStops(p) ==
  launcher = "stopping" /\ child[p] \in {"up", "waiting"} /\ SetChild(p, "ended")

\* wg.Wait returns.
Stopped ==
  /\ launcher = "stopping" /\ \A p \in config.modules : child[p] = "ended"
  /\ Down

Lost == launcher # "down" /\ Down

Outage ==
  /\ \/ dbUp /\ outages < MaxOutages /\ dbUp' = FALSE /\ outages' = outages + 1
     \/ ~dbUp /\ dbUp' = TRUE /\ UNCHANGED outages
  /\ UNCHANGED <<config, launcher, tries, child, starts>>

LauncherStep == Reset \/ ResetFail \/ Open \/ OpenFail \/ Stopped

SupNext ==
  \/ Start \/ LauncherStep
  \/ \E p \in Programs : ChildEnds(p) \/ ChildStarts(p) \/ ChildStops(p)
  \/ Signal \/ Lost \/ Outage

SupFairness ==
  /\ WF_supVars(LauncherStep)
  /\ \A p \in Programs : WF_supVars(ChildStarts(p)) /\ WF_supVars(ChildStops(p))
=============================================================================
