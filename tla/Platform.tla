------------------------------ MODULE Platform ------------------------------
(***************************************************************************)
(* A deployment: govlensd, and inside the processes it runs the calls of   *)
(* the workers to Azure and the reading of the collector.                  *)
(***************************************************************************)
EXTENDS Supervisor, Rest, Collection

vars == <<supVars, restVars, colVars>>

PlatformTypeOK == SupTypeOK /\ RestTypeOK /\ CollectionTypeOK

Init == SupInit /\ RestInit /\ CollectionInit

Runs(p) == child[p] = "up"

\* A process that was up and no longer is takes what it was doing with it.
GoneIn(p) == Runs(p) /\ child'[p] # "up"

Supervision ==
  /\ SupNext
  /\ Killed({p \in Callers : GoneIn(p)})
  /\ IF Runs("collector") /\ child'["collector"] # "up" THEN CollectorGone
     ELSE IF Reset THEN RunsWiped
     ELSE UNCHANGED colVars

Calling ==
  /\ \/ \E c \in Calls : Runs(c.by) /\ Begin(c)
     \/ \E p \in Callers : CallerStep(p)
     \/ \E c \in Calls : Serve(c)
  /\ UNCHANGED <<supVars, colVars>>

Collecting ==
  /\ \/ Runs("collector") /\ CollectorStep /\ (stage = "store" => dbUp)
     \/ "collector" \in config.modules /\ \E t \in Items : TenantChanges(t) \/ Alter(t)
  /\ UNCHANGED <<supVars, restVars>>

Next == Supervision \/ Calling \/ Collecting

Fairness == SupFairness /\ \A p \in Callers : WF_restVars(CallerStep(p))

Spec == Init /\ [][Next]_vars /\ Fairness

-----------------------------------------------------------------------------
(***************************************************************************)
(* What was stored stays: runs only vanish in a launcher that was told to  *)
(* start afresh, and before any of its processes runs.                     *)
(***************************************************************************)
StoredIsKept ==
  [][newer # NoRun /\ newer' = NoRun /\ older' = NoRun =>
       config.init = "fresh" /\ \A p \in Programs : ~Runs(p)]_vars

(***************************************************************************)
(* Starting comes to an end, although Postgres may be away: the processes  *)
(* run, or the launcher has given up (and the container is started again). *)
(***************************************************************************)
StartingEnds == launcher \in {"reset", "open"} ~> launcher \in {"up", "down"}

(***************************************************************************)
(* Every enabled process that ends is started again, whether or not what   *)
(* it ended from is repaired, unless the launcher stops first.             *)
(***************************************************************************)
ProcessesComeBack ==
  \A p \in Programs :
    launcher = "up" /\ p \in config.modules ~> launcher # "up" \/ child[p] = "up"

(***************************************************************************)
(* A signal stops the deployment, whatever its processes are doing.        *)
(***************************************************************************)
ShutdownCompletes == launcher = "stopping" ~> launcher = "down"

(***************************************************************************)
(* No call keeps its process for ever, however Azure behaves.              *)
(***************************************************************************)
CallsEnd == \A p \in Callers : phase[p] # "idle" ~> phase[p] = "idle"
=============================================================================
