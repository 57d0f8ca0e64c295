------------------------------ MODULE Collector -----------------------------
(***************************************************************************)
(* cmd/collect: read the tenant, store the run (ReplaceRun, one            *)
(* transaction), then turn every assignment that appeared since the run    *)
(* before and that GovLens did not create into a pending drift request     *)
(* (ReconcileDrift, one statement).                                        *)
(***************************************************************************)
EXTENDS Policy

VARIABLES
  colPc,    \* the next step of the collector
  found,    \* the run it is about to store
  newer,    \* the latest stored run
  older     \* the one before

colVars == <<colPc, found, newer, older>>

\* A run: what was listed, what of it without its names, and for which kinds the
\* listing is recorded.
Run == [seen : SUBSET Targets, raw : SUBSET Targets, sources : SUBSET Kinds]

NoRun == [seen |-> {}, raw |-> {}, sources |-> {}]

\* The text that a run has for t.
LabelIn(run, t) == IF t \in run.raw THEN RawLabel[t] ELSE Label[t]

ColTypeOK ==
  /\ colPc \in {"idle", "store", "reconcile"}
  /\ found \in Run /\ newer \in Run /\ older \in Run

\* The first run is stored: before it, nothing is on display.
ColInit ==
  /\ colPc = "idle" /\ found = NoRun
  /\ newer = [seen |-> Existing, raw |-> {}, sources |-> Kinds]
  /\ older = NoRun

OfKinds(kinds) == {t \in live : Kind(t) \in kinds}

(***************************************************************************)
(* Collect.  A kind that cannot be listed leaves no source behind; but one *)
(* subscription that cannot be listed only loses its own assignments.      *)
(* Names are resolved in batches of their own, and a batch that fails      *)
(* leaves the ids.                                                         *)
(***************************************************************************)
ColRead ==
  /\ "collect" \in Inputs
  /\ colPc = "idle" /\ colPc' = "store"
  /\ \/ found' = [seen |-> live, raw |-> {}, sources |-> Kinds] /\ NoFault
     \/ /\ \E k \in Kinds :
             found' = [seen |-> OfKinds(Kinds \ {k}), raw |-> {}, sources |-> Kinds \ {k}]
        /\ Fault("source")
     \/ /\ \E missed \in SUBSET OfKinds({"rbac"}) :
             found' = [seen |-> live \ missed, raw |-> {}, sources |-> Kinds]
        /\ Fault("sub")
     \/ /\ \E raw \in SUBSET {t \in live : RawLabel[t] # Label[t]} :
             found' = [seen |-> live, raw |-> raw, sources |-> Kinds]
        /\ Fault("names")
  /\ UNCHANGED <<req, newer, older>>

ReplaceRun ==
  /\ colPc = "store" /\ colPc' = "reconcile"
  /\ older' = newer /\ newer' = found /\ found' = NoRun
  /\ UNCHANGED req /\ NoFault

-----------------------------------------------------------------------------
\* A mutant: grants that are being provisioned do not count.
AttributedUnclaimed(t) ==
  \E i \in Ids :
    /\ Exists(i)
    /\ \/ req[i].target = t
       \/ /\ req[i].action = "grant"
          /\ req[i].status \in {"approved", "granted"}
          /\ req[i].label = LabelIn(newer, t)

(***************************************************************************)
(* An assignment is attributed to GovLens when a request already names it, *)
(* or when its text is that of a grant in flight, whoever added it.        *)
(***************************************************************************)
Attributed(t) ==
  \E i \in Ids :
    /\ Exists(i)
    /\ \/ req[i].target = t
       \/ /\ req[i].action = "grant"
          /\ req[i].status \in {"approved", "processing", "granted"}
          /\ req[i].label = LabelIn(newer, t)

\* Mutants: sources are not compared, or the runs are compared backwards.
OutOfBandUnguarded == {t \in newer.seen \ older.seen : ~Attributed(t)}

OutOfBandBackwards ==
  {t \in older.seen \ newer.seen :
     /\ Kind(t) \in newer.sources \cap older.sources
     /\ ~Attributed(t)}

OutOfBand ==
  {t \in newer.seen \ older.seen :
     /\ Kind(t) \in newer.sources \cap older.sources
     /\ ~Attributed(t)}

\* Several rows at once take the next ids.
AreNextIds(new) ==
  \A i \in new : ~Exists(i) /\ \A j \in Ids : j < i => Exists(j) \/ j \in new

\* One INSERT ... SELECT: a pending drift row for each of them.  Its ON CONFLICT
\* has nothing to do: an assignment with an open row is attributed to it.
InsertDrift(ts) ==
  \E new \in SUBSET Ids : \E pick \in [new -> ts] :
    /\ AreNextIds(new)
    /\ \A t \in ts : \E i \in new : pick[i] = t
    /\ \A i, j \in new : pick[i] = pick[j] => i = j
    /\ req' = [i \in Ids |-> IF i \in new
                             THEN NewRow("drift", pick[i], LabelIn(newer, pick[i]),
                                         "pending", "nobody")
                             ELSE req[i]]

\* Its error is logged and the collector ends.
ReconcileDrift ==
  /\ colPc = "reconcile" /\ colPc' = "idle"
  /\ \/ InsertDrift(OutOfBand) /\ NoFault
     \/ UNCHANGED req /\ Fault("db")
  /\ UNCHANGED <<found, newer, older>>

ColCrash ==
  /\ colPc # "idle" /\ colPc' = "idle" /\ found' = NoRun
  /\ UNCHANGED <<req, newer, older>> /\ Fault("crash")

ColStep == ColRead \/ ReplaceRun \/ ReconcileDrift

ColNext == ColStep \/ ColCrash
=============================================================================
