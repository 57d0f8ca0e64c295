----------------------------- MODULE GrantWorker ----------------------------
(***************************************************************************)
(* cmd/grantworker: one cycle probes the service principal, provisions     *)
(* the approved grants and queues the removal of the expired ones.  Each   *)
(* statement and each Azure call is a step; everything else in the system  *)
(* may happen between two of them.  The worker runs with -execute.         *)
(***************************************************************************)
EXTENDS Policy

VARIABLES
  gwPc,      \* the next step of the cycle
  gwBatch,   \* requests of the list being worked through, not yet finished
  gwIdent    \* ident the last PUT returned

gwVars == <<gwPc, gwBatch, gwIdent>>

GwTypeOK ==
  /\ gwPc \in {"idle", "list", "gate", "put", "record", "fail",
               "expired", "enqueue", "mark"}
  /\ gwBatch \in SUBSET Ids
  /\ gwIdent \in Targets \cup {NoTarget}

GwInit == gwPc = "idle" /\ gwBatch = {} /\ gwIdent = NoTarget

GwGoto(pc, batch) == gwPc' = pc /\ gwBatch' = batch /\ UNCHANGED gwIdent

GwProbeOk   == gwPc = "idle" /\ GwGoto("list", {})    /\ UNCHANGED req /\ NoFault
GwProbeFail == gwPc = "idle" /\ GwGoto("expired", {}) /\ UNCHANGED req /\ NoFault

\* A mutant: every grant request is listed, whatever its status.
GwListAll ==
  /\ gwPc = "list"
  /\ GwGoto("gate", {i \in Ids : req[i].action = "grant"})
  /\ UNCHANGED req /\ NoFault

\* ListGrantByStatus; on an error nothing is provisioned this cycle.
GwList ==
  /\ gwPc = "list"
  /\ UNCHANGED req
  /\ \/ GwGoto("gate", ListByStatus("grant", "approved")) /\ NoFault
     \/ GwGoto("expired", {}) /\ Fault("db")

\* The safety gate skips a request whose role is no longer requestable.
GwSkip(i) ==
  /\ gwPc = "gate" /\ Current(gwBatch, i)
  /\ ~requestable
  /\ SetRequestStatus(i, "skipped")
  /\ GwGoto("gate", gwBatch \ {i})

\* A mutant: the PUT is not preceded by the claim.
GwUnclaimed(i) ==
  /\ gwPc = "gate" /\ Current(gwBatch, i)
  /\ requestable
  /\ GwGoto("put", gwBatch)
  /\ UNCHANGED req /\ NoFault

\* IsGrantable answers no when it cannot read the policy.
GwSkipUnread(i) ==
  /\ gwPc = "gate" /\ Current(gwBatch, i)
  /\ requestable
  /\ req' = [req EXCEPT ![i].status = "skipped"] /\ Fault("db")
  /\ GwGoto("gate", gwBatch \ {i})

GwClaim(i) ==
  /\ gwPc = "gate" /\ Current(gwBatch, i)
  /\ requestable
  /\ SetRequestStatus(i, "processing")
  /\ GwGoto("put", gwBatch)

GwProvisioned ==
  /\ gwPc = "gate" /\ gwBatch = {}
  /\ GwGoto("expired", {})
  /\ UNCHANGED req /\ NoFault

(***************************************************************************)
(* ProvisionGrant: the PUT succeeds, is refused, or takes effect although  *)
(* the worker sees an error.                                               *)
(***************************************************************************)
GwPut(i) ==
  /\ gwPc = "put" /\ Current(gwBatch, i)
  /\ \E t \in Guids :
       /\ Create(t, i)
       /\ gwPc' = "record" /\ gwIdent' = t
  /\ UNCHANGED <<gwBatch, req>> /\ NoFault

GwPutRefused(i) ==
  /\ gwPc = "put" /\ Current(gwBatch, i)
  /\ GwGoto("fail", gwBatch)
  /\ UNCHANGED <<req, azureVars>> /\ NoFault

GwPutLost(i) ==
  /\ gwPc = "put" /\ Current(gwBatch, i)
  /\ \E t \in Guids : Create(t, i)
  /\ GwGoto("fail", gwBatch)
  /\ UNCHANGED req /\ Fault("lost")

GwRecord(i) ==
  /\ gwPc = "record" /\ Current(gwBatch, i)
  /\ SetGrantProvisioned(i, gwIdent)
  /\ gwPc' = "gate" /\ gwBatch' = gwBatch \ {i} /\ gwIdent' = NoTarget

GwFail(i) ==
  /\ gwPc = "fail" /\ Current(gwBatch, i)
  /\ SetRequestStatus(i, "failed")
  /\ GwGoto("gate", gwBatch \ {i})

-----------------------------------------------------------------------------
\* The expiry sweep, which also runs when the probe failed.
GwExpired ==
  /\ gwPc = "expired"
  /\ UNCHANGED req
  /\ \/ GwGoto("enqueue", ExpiredGrants) /\ NoFault
     \/ GwGoto("idle", {}) /\ Fault("db")

\* A mutant: the error of the INSERT is ignored, like those of the UPDATEs.
GwEnqueueUnchecked(i) ==
  /\ gwPc = "enqueue" /\ Current(gwBatch, i)
  /\ \/ EnqueueExpiryRevoke(i) /\ NoFault
     \/ UNCHANGED req /\ Fault("db")
  /\ GwGoto("mark", gwBatch)

\* A grant whose removal could not be queued is left for the next cycle.
GwEnqueue(i) ==
  /\ gwPc = "enqueue" /\ Current(gwBatch, i)
  /\ \/ EnqueueExpiryRevoke(i) /\ GwGoto("mark", gwBatch) /\ NoFault
     \/ UNCHANGED req /\ GwGoto("enqueue", gwBatch \ {i}) /\ Fault("db")

GwMark(i) ==
  /\ gwPc = "mark" /\ Current(gwBatch, i)
  /\ MarkGrantExpired(i)
  /\ GwGoto("enqueue", gwBatch \ {i})

GwSwept ==
  /\ gwPc = "enqueue" /\ gwBatch = {}
  /\ GwGoto("idle", {})
  /\ UNCHANGED req /\ NoFault

\* The process dies and is started again: its list is gone.
GwCrash ==
  /\ gwPc # "idle"
  /\ gwPc' = "idle" /\ gwBatch' = {} /\ gwIdent' = NoTarget
  /\ UNCHANGED req /\ Fault("crash")

GwPutStep == \E i \in gwBatch : GwPut(i) \/ GwPutRefused(i) \/ GwPutLost(i)

GwQueueStep ==
  \/ GwProbeOk \/ GwProbeFail \/ GwList \/ GwProvisioned \/ GwExpired \/ GwSwept
  \/ \E i \in gwBatch : \/ GwSkip(i) \/ GwSkipUnread(i) \/ GwClaim(i) \/ GwRecord(i)
                        \/ GwFail(i) \/ GwEnqueue(i) \/ GwMark(i)

GwStep == GwPutStep \/ (GwQueueStep /\ UNCHANGED azureVars)

GwNext == GwStep \/ (GwCrash /\ UNCHANGED azureVars)
=============================================================================
