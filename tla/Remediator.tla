----------------------------- MODULE Remediator -----------------------------
(***************************************************************************)
(* cmd/remediator: one cycle lists the approved removals, reads the        *)
(* guards and (when a Global Administrator is among them) counts the       *)
(* Global Administrators once, then passes each request through the safety *)
(* gate and deletes its assignment.  It runs with -execute and without     *)
(* -only.                                                                  *)
(***************************************************************************)
EXTENDS Policy, Integers, FiniteSets

CONSTANTS
  MinGlobalAdmins,   \* -min-global-admins
  BreakGlass,        \* labels of the -breakglass principals
  AdminText          \* labels whose role is Global Administrator

\* Directory role names come from one list, which is read as a whole or not at all.
ASSUME RemediatorAssumption ==
  /\ MinGlobalAdmins \in Nat
  /\ BreakGlass \subseteq Labels
  /\ AdminText \subseteq Labels
  /\ \A t \in GlobalAdmins : {Label[t], RawLabel[t]} \subseteq AdminText
  /\ IsFiniteSet(Targets)

VARIABLES
  rmPc,      \* the next step of the cycle
  rmBatch,   \* requests of the list, not yet finished
  rmGuard,   \* the guards as read at the start of the cycle
  rmAdmins   \* gaCount, -1 when unknown

rmVars == <<rmPc, rmBatch, rmGuard, rmAdmins>>

RmTypeOK ==
  /\ rmPc \in {"idle", "policies", "count", "gate", "delete", "done", "fail"}
  /\ rmBatch \in SUBSET Ids
  /\ rmGuard \in [Labels -> Guards]
  /\ rmAdmins \in Int

NoGuards == [l \in Labels |-> "open"]

RmInit ==
  /\ rmPc = "idle"
  /\ rmBatch = {}
  /\ rmGuard = NoGuards
  /\ rmAdmins = -1

RmGoto(pc, batch) ==
  rmPc' = pc /\ rmBatch' = batch /\ UNCHANGED <<rmGuard, rmAdmins>>

LiveGlobalAdmins == Cardinality(live \cap GlobalAdmins)

\* The row's kind and the text of its role say so.
IsAdminRow(i) == req[i].target \in GlobalAdmins /\ req[i].label \in AdminText

BatchHasGlobalAdmin == \E i \in rmBatch : IsAdminRow(i)

\* A mutant: every removal is listed, whatever its status.
RmListAll ==
  /\ rmPc = "idle"
  /\ RmGoto("policies", {i \in Ids : req[i].action = "revoke" /\ Exists(i)})
  /\ UNCHANGED req /\ NoFault

RmList ==
  /\ rmPc = "idle"
  /\ ListByStatus("revoke", "approved") # {}
  /\ RmGoto("policies", ListByStatus("revoke", "approved"))
  /\ UNCHANGED req /\ NoFault

(***************************************************************************)
(* The errors of the three policy reads are dropped: a list that cannot be *)
(* read is an empty list.                                                  *)
(***************************************************************************)
RmPolicies ==
  /\ rmPc = "policies"
  /\ \/ rmGuard' = guard /\ NoFault
     \/ /\ \E unread \in SUBSET {"protected", "blocked"} :
             rmGuard' = [l \in Labels |-> IF guard[l] \in unread THEN "open" ELSE guard[l]]
        /\ Fault("db")
  /\ rmPc' = "count"
  /\ UNCHANGED <<req, rmBatch, rmAdmins>>

\* A count that cannot be read stays unknown.
RmCount ==
  /\ rmPc = "count"
  /\ rmAdmins' \in IF BatchHasGlobalAdmin THEN {LiveGlobalAdmins, -1} ELSE {-1}
  /\ rmPc' = "gate"
  /\ UNCHANGED <<req, rmBatch, rmGuard>> /\ NoFault

-----------------------------------------------------------------------------
\* A mutant: the type policies are not part of the gate.
GuardedUntyped(i) == rmGuard[req[i].label] = "protected" \/ req[i].label \in BreakGlass

(***************************************************************************)
(* The safety gate, in the order of the code.  It goes by the text of the  *)
(* row, whoever wrote it there.                                            *)
(***************************************************************************)
Guarded(i) == rmGuard[req[i].label] # "open" \/ req[i].label \in BreakGlass

\* Exists and Delete know rbac and entra_role only.
Supported(i) == Kind(req[i].target) # "ca_policy"

AtFloor(i) == IsAdminRow(i) /\ rmAdmins <= MinGlobalAdmins

RmSkip(i) ==
  /\ rmPc = "gate" /\ Current(rmBatch, i)
  /\ \/ Guarded(i)
     \/ Supported(i) /\ (req[i].target \notin live \/ AtFloor(i))
  /\ SetRequestStatus(i, "skipped")
  /\ RmGoto("gate", rmBatch \ {i})

\* A mutant: such a request is left to the next cycle.
RmRequeue(i) ==
  /\ rmPc = "gate" /\ Current(rmBatch, i)
  /\ ~Guarded(i)
  /\ RmGoto("gate", rmBatch \ {i})
  /\ UNCHANGED req /\ NoFault

\* The assignment cannot be looked up, or its kind is not supported.
RmUnverified(i) ==
  /\ rmPc = "gate" /\ Current(rmBatch, i)
  /\ ~Guarded(i)
  /\ SetRequestStatus(i, "failed")
  /\ RmGoto("gate", rmBatch \ {i})

RmClaim(i) ==
  /\ rmPc = "gate" /\ Current(rmBatch, i)
  /\ ~Guarded(i)
  /\ Supported(i) /\ req[i].target \in live
  /\ ~AtFloor(i)
  /\ SetRequestStatus(i, "processing")
  /\ RmGoto("delete", rmBatch)

RmDelete(i) ==
  /\ rmPc = "delete" /\ Current(rmBatch, i)
  /\ Delete(req[i].target)
  /\ RmGoto("done", rmBatch)
  /\ UNCHANGED req /\ NoFault

RmDeleteRefused(i) ==
  /\ rmPc = "delete" /\ Current(rmBatch, i)
  /\ RmGoto("fail", rmBatch)
  /\ UNCHANGED <<req, azureVars>> /\ NoFault

RmDeleteLost(i) ==
  /\ rmPc = "delete" /\ Current(rmBatch, i)
  /\ Delete(req[i].target)
  /\ RmGoto("fail", rmBatch)
  /\ UNCHANGED req /\ Fault("lost")

\* A mutant: the count is not kept up to date within the batch.
RmDoneUncounted(i) ==
  /\ rmPc = "done" /\ Current(rmBatch, i)
  /\ SetRequestStatus(i, "done")
  /\ RmGoto("gate", rmBatch \ {i})

RmDone(i) ==
  /\ rmPc = "done" /\ Current(rmBatch, i)
  /\ SetRequestStatus(i, "done")
  /\ rmPc' = "gate" /\ rmBatch' = rmBatch \ {i}
  /\ rmAdmins' = IF req[i].label \in AdminText THEN rmAdmins - 1 ELSE rmAdmins
  /\ UNCHANGED rmGuard

RmFail(i) ==
  /\ rmPc = "fail" /\ Current(rmBatch, i)
  /\ SetRequestStatus(i, "failed")
  /\ RmGoto("gate", rmBatch \ {i})

RmFinish ==
  /\ rmPc = "gate" /\ rmBatch = {}
  /\ rmPc' = "idle" /\ rmGuard' = NoGuards /\ rmAdmins' = -1
  /\ UNCHANGED <<req, rmBatch>> /\ NoFault

RmCrash ==
  /\ rmPc # "idle"
  /\ rmPc' = "idle" /\ rmBatch' = {} /\ rmGuard' = NoGuards /\ rmAdmins' = -1
  /\ UNCHANGED req /\ Fault("crash")

RmDeleteStep == \E i \in rmBatch : RmDelete(i) \/ RmDeleteRefused(i) \/ RmDeleteLost(i)

RmQueueStep ==
  \/ RmList \/ RmPolicies \/ RmCount \/ RmFinish
  \/ \E i \in rmBatch : RmSkip(i) \/ RmUnverified(i) \/ RmClaim(i) \/ RmDone(i) \/ RmFail(i)

RmStep == RmDeleteStep \/ (RmQueueStep /\ UNCHANGED azureVars)

RmNext == RmStep \/ (RmCrash /\ UNCHANGED azureVars)
=============================================================================
