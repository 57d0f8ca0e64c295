----------------------------- MODULE ReviewQueue ----------------------------
(***************************************************************************)
(* The web application's handlers on the request queue: users submit grant *)
(* requests and mark assignments for removal, approvers decide.  A         *)
(* handler reads first and writes one conditional statement at the end;    *)
(* only that statement changes the queue, so a handler is one step.        *)
(***************************************************************************)
EXTENDS Policy

CONSTANTS
  Asked,   \* texts of users' grant requests
  Forms    \* <<t, l>>: a form of an earlier run's page calls t by the text l

\* No one has a form for an ident that is yet to be drawn.
ASSUME ReviewAssumption ==
  /\ Asked \subseteq Labels
  /\ Forms \subseteq (Targets \ Guids) \X Labels

\* A user's submission may only take an id up to MaxIntake.
Submit(row) == \E i \in Ids : i <= MaxIntake /\ Insert(i, row)

(***************************************************************************)
(* POST /request/submit: a role that is requestable at this moment.        *)
(***************************************************************************)
RequestSubmit ==
  /\ "grant" \in Inputs
  /\ requestable
  /\ \E l \in Asked : Submit(NewRow("grant", NoTarget, l, "pending", "nobody"))
  /\ NoFault

\* A mutant: nothing stops a second open request for an assignment.
RevokeMarkTwice(t, label) ==
  /\ "mark" \in Inputs
  /\ Passes(label, {"open"})
  /\ Submit(NewRow("revoke", t, label, "pending", "nobody"))

(***************************************************************************)
(* POST /revoke/mark: ident and text come from the form, and the guards    *)
(* are checked on that text.  A target with an open request gets no second *)
(* row: the same revoke is returned, or the unique index refuses it.       *)
(***************************************************************************)
RevokeMark(t, label) ==
  /\ "mark" \in Inputs
  /\ Passes(label, {"open"})
  /\ ~HasOpenRow(t)
  /\ Submit(NewRow("revoke", t, label, "pending", "nobody"))

-----------------------------------------------------------------------------
(***************************************************************************)
(* The requests page offers every row of a queue for decision; it may be   *)
(* stale, so the row need not be pending any more.                         *)
(***************************************************************************)
OnPage(action) == {i \in Ids : Exists(i) /\ req[i].action = action}

\* Every decision is conditional on the row still being pending.
IsPending(i) == req[i].status = "pending"

Decided(i, status) == [req[i] EXCEPT !.status = status, !.decidedBy = "approver"]

UpdateRow(i, row) == req' = [req EXCEPT ![i] = row]

\* A mutant: the statement forgets "AND status='pending'".
DecideGrantAgain(i) ==
  /\ \E s \in {"approved", "rejected"} : UpdateRow(i, Decided(i, s))
  /\ NoFault

(***************************************************************************)
(* POST /requests/grant/decide: approve for some days or for good, or      *)
(* reject.                                                                 *)
(***************************************************************************)
DecideGrantRequest(i) ==
  /\ IsPending(i)
  /\ \/ \E e \in {"none", "ahead"} :
          UpdateRow(i, [Decided(i, "approved") EXCEPT !.expires = e])
     \/ UpdateRow(i, Decided(i, "rejected"))
  /\ NoFault

(***************************************************************************)
(* POST /revoke/decide: refused while the principal type is blocked.  The  *)
(* handler and its statement go by the id alone, so it decides a grant or  *)
(* a drift row too, and does nothing else that their own handlers do.      *)
(***************************************************************************)
DecideRevokeRequest(i) ==
  /\ IsPending(i)
  /\ Passes(req[i].label, {"open", "protected"})
  /\ \E s \in {"approved", "rejected"} : UpdateRow(i, Decided(i, s))

(***************************************************************************)
(* POST /drift/decide.  Keeping an out-of-band assignment blesses it, with *)
(* an expiry it becomes a governed grant.  Rejecting it is a transaction   *)
(* of two statements: the drift row is closed and an approved removal is   *)
(* inserted, which no one is recorded as having decided.  Closing the      *)
(* drift row has just freed the assignment in the unique index.            *)
(***************************************************************************)
KeepDrift(i) ==
  /\ IsPending(i)
  /\ \/ UpdateRow(i, Decided(i, "blessed"))
     \/ UpdateRow(i, [Decided(i, "granted") EXCEPT !.expires = "ahead"])
  /\ NoFault

RejectDrift(i) ==
  /\ IsPending(i)
  /\ \E k \in Ids :
       /\ IsNextId(k)
       /\ req' = [req EXCEPT
            ![i] = Decided(i, "rejected"),
            ![k] = NewRow("revoke", req[i].target, req[i].label, "approved", "nobody")]
  /\ NoFault

ReviewNext ==
  \/ RequestSubmit
  \/ \E i \in OnPage("grant") : DecideGrantRequest(i)
  \/ \E i \in Ids : DecideRevokeRequest(i)
  \/ \E i \in OnPage("drift") : KeepDrift(i) \/ RejectDrift(i)
=============================================================================
