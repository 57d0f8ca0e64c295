------------------------------- MODULE GovLens ------------------------------
(***************************************************************************)
(* The access lifecycle of GovLens: the review queue of the web            *)
(* application, the grant worker, the remediator and the collector over    *)
(* the access_requests table and the tenant's role assignments, while time *)
(* passes and people change assignments in the portal.                     *)
(***************************************************************************)
EXTENDS ReviewQueue, GrantWorker, Remediator, Collector

vars == <<req, faultVars, azureVars, policyVars, gwVars, rmVars, colVars>>

TypeOK ==
  /\ TableTypeOK /\ FaultsTypeOK /\ AzureTypeOK /\ PolicyTypeOK
  /\ GwTypeOK /\ RmTypeOK /\ ColTypeOK

Init ==
  /\ TableInit /\ FaultsInit /\ AzureInit /\ PolicyInit
  /\ GwInit /\ RmInit /\ ColInit

\* What the page of a stored run calls t, or the form of an earlier one.
OnDisplay(t, label) ==
  \/ \E run \in {newer, older} : t \in run.seen /\ label = LabelIn(run, t)
  \/ <<t, label>> \in Forms

\* A user marks an assignment; nothing compares the form with the run it came from.
Mark == \E t \in Targets, label \in Labels : OnDisplay(t, label) /\ RevokeMark(t, label)

Review ==
  /\ ReviewNext \/ Mark
  /\ UNCHANGED <<azureVars, policyVars, gwVars, rmVars, colVars>>

Administer ==
  /\ PolicyNext
  /\ UNCHANGED <<req, faultVars, azureVars, gwVars, rmVars, colVars>>

ProvisionStep == GwStep /\ UNCHANGED <<policyVars, rmVars, colVars>>

Provision == GwNext /\ UNCHANGED <<policyVars, rmVars, colVars>>

RemediateStep == RmStep /\ UNCHANGED <<policyVars, gwVars, colVars>>

Remediate == RmNext /\ UNCHANGED <<policyVars, gwVars, colVars>>

CollectStep == ColStep /\ UNCHANGED <<azureVars, policyVars, gwVars, rmVars>>

Collect == ColNext /\ UNCHANGED <<azureVars, policyVars, gwVars, rmVars>>

Portal ==
  /\ \E t \in Outside : PortalAdd(t) \/ PortalRemove(t)
  /\ UNCHANGED <<req, faultVars, policyVars, gwVars, rmVars, colVars>>

Expire(i) ==
  /\ ReachExpiry(i)
  /\ UNCHANGED <<faultVars, azureVars, policyVars, gwVars, rmVars, colVars>>

Next ==
  \/ Review \/ Administer \/ Provision \/ Remediate \/ Collect \/ Portal
  \/ \E i \in Ids : Expire(i)

Spec == Init /\ [][Next]_vars

-----------------------------------------------------------------------------
(***************************************************************************)
(* The supervisor keeps each process running and each process loops on its *)
(* own interval, so its next step is always taken; the service principal   *)
(* passes its probe again and again; time passes.  Nothing makes people    *)
(* submit, decide or change assignments, and nothing makes a call succeed. *)
(***************************************************************************)
ProbeOk == GwProbeOk /\ UNCHANGED <<azureVars, policyVars, rmVars, colVars>>

Fairness ==
  /\ WF_vars(ProvisionStep)
  /\ SF_vars(ProbeOk)
  /\ WF_vars(RemediateStep)
  /\ WF_vars(CollectStep)
  /\ \A i \in Ids : WF_vars(Expire(i))

FairSpec == Spec /\ Fairness
=============================================================================
