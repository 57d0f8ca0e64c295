--------------------------- MODULE AccessRequests ---------------------------
(***************************************************************************)
(* The access_requests table (internal/store/schema.sql) and the SQL       *)
(* statements of internal/store that write it.  The web application, the   *)
(* grant worker, the remediator and the collector share nothing else.      *)
(*                                                                         *)
(* A row keeps the columns that decide control flow.  expires_at is kept   *)
(* as where it lies with respect to now(): "none" (NULL), "ahead", "past". *)
(* A label is the text of principal, principal_type, role and scope that   *)
(* the row was inserted with: what guards and comparisons go by, and not   *)
(* always what the tenant calls the assignment.  kind is an attribute of   *)
(* the assignment, so it is not repeated in the row.                       *)
(***************************************************************************)
EXTENDS Naturals, Faults

CONSTANTS
  MaxRequests,  \* ids the table can hold: bounds the model
  MaxIntake,    \* the last id a user's submission may take: bounds the model
  Inputs,       \* which inputs an instance has: grant requests, marks, runs
  Targets,      \* role assignments, by their Azure ident
  NoTarget,     \* the empty ident of a grant that is not provisioned yet
  Labels,       \* texts of principal, type, role and scope
  NoLabel       \* the empty text

ASSUME TableAssumption ==
  /\ MaxRequests \in Nat
  /\ MaxIntake \in Nat
  /\ Inputs \subseteq {"grant", "mark", "collect"}
  /\ NoTarget \notin Targets
  /\ NoLabel \in Labels

VARIABLE req   \* req[i] is the row with id i

Ids == 1..MaxRequests

Actions  == {"grant", "revoke", "drift"}
Statuses == {"absent", "pending", "approved", "rejected", "processing",
             "granted", "blessed", "expired", "done", "failed", "skipped"}
Expiries == {"none", "ahead", "past"}

\* decided_by: an approver's e-mail, the sweep's literal, or NULL.
Deciders == {"nobody", "approver", "grant-expiry"}

Row == [action : Actions, target : Targets \cup {NoTarget}, label : Labels,
        status : Statuses, expires : Expiries, decidedBy : Deciders]

NewRow(action, target, label, status, decider) ==
  [action |-> action, target |-> target, label |-> label, status |-> status,
   expires |-> "none", decidedBy |-> decider]

NoRow == NewRow("revoke", NoTarget, NoLabel, "absent", "nobody")

TableTypeOK == req \in [Ids -> Row]

TableInit == req = [i \in Ids |-> NoRow]

Exists(i) == req[i].status # "absent"

(***************************************************************************)
(* The partial unique index uq_revoke_open_target: at most one open row    *)
(* per assignment, whatever its action.                                    *)
(***************************************************************************)
OpenStatuses == {"pending", "approved", "processing"}

IsOpen(i) == req[i].status \in OpenStatuses

HasOpenRow(t) == \E i \in Ids : req[i].target = t /\ IsOpen(i)

\* BIGSERIAL: rows take the ids in order.
IsNextId(i) == ~Exists(i) /\ \A j \in Ids : j < i => Exists(j)

Insert(i, row) == IsNextId(i) /\ req' = [req EXCEPT ![i] = row]

\* INSERT ... ON CONFLICT DO NOTHING of a row about an assignment.
InsertUnlessOpen(row) ==
  \/ HasOpenRow(row.target) /\ UNCHANGED req
  \/ ~HasOpenRow(row.target) /\ \E i \in Ids : Insert(i, row)

-----------------------------------------------------------------------------
(***************************************************************************)
(* Writes of the workers.  Both ignore the error of these statements, so   *)
(* a failed statement leaves the row as it was and the worker goes on.     *)
(***************************************************************************)
Write(i, row) ==
  \/ req' = [req EXCEPT ![i] = row] /\ NoFault
  \/ UNCHANGED req /\ Fault("db")

SetRequestStatus(i, status) == Write(i, [req[i] EXCEPT !.status = status])

SetGrantProvisioned(i, ident) ==
  Write(i, [req[i] EXCEPT !.status = "granted", !.target = ident])

\* A mutant: a status that no reader of the table knows.
MarkGrantRevoked(i) == SetRequestStatus(i, "revoked")

MarkGrantExpired(i) == SetRequestStatus(i, "expired")

(***************************************************************************)
(* Reads of the workers.                                                   *)
(***************************************************************************)
ListByStatus(action, status) ==
  {i \in Ids : req[i].action = action /\ req[i].status = status}

\* Mutants: the sweep forgets about the expiry, or compares it the wrong way.
GrantedGrants ==
  {i \in Ids : req[i].action \in {"grant", "drift"} /\ req[i].status = "granted"}

UnexpiredGrants ==
  {i \in GrantedGrants : req[i].expires = "ahead"}

ExpiredGrants ==
  {i \in Ids : /\ req[i].action \in {"grant", "drift"}
               /\ req[i].status = "granted"
               /\ req[i].expires = "past"}

(***************************************************************************)
(* The removal an expired grant leads to: born approved, so that the       *)
(* remediator picks it up.  It copies the grant's ident and text.          *)
(***************************************************************************)
EnqueueExpiryRevoke(i) ==
  InsertUnlessOpen(NewRow("revoke", req[i].target, req[i].label, "approved", "grant-expiry"))

-----------------------------------------------------------------------------
(***************************************************************************)
(* Time reaches the expiry of row i.                                       *)
(***************************************************************************)
ReachExpiry(i) ==
  /\ req[i].expires = "ahead"
  /\ req' = [req EXCEPT ![i].expires = "past"]

\* A batch is worked through in the order of its ids (ORDER BY id).
Current(batch, i) == i \in batch /\ \A j \in batch : i <= j
=============================================================================
