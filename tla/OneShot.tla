------------------------------ MODULE OneShot -------------------------------
(***************************************************************************)
(* What a caller may rely on when it changes a resource of the tenant:     *)
(* the abstract view of its calls, whatever happens on the network.        *)
(*                                                                         *)
(* A call has its effect at any time after it began: perhaps never,        *)
(* perhaps more than once, perhaps after it ended and after what another   *)
(* call did to the same resource since.  One that ends well has had it     *)
(* while it was being made.  GrantWorker and Remediator take their Azure   *)
(* calls this way (done, refused, lost).                                   *)
(***************************************************************************)
CONSTANTS
  Names,     \* resources
  Creators,  \* processes whose calls create
  Removers,  \* processes whose calls remove
  NoCall

VARIABLES
  current,   \* current[p]: the call p makes, or NoCall
  happened,  \* happened[p]: it had its effect since it began
  begun,     \* every call ever made
  present,   \* resources that exist
  outcome    \* how the last call of p ended, "none" while it has not

vars == <<current, happened, begun, present, outcome>>

Callers == Creators \cup Removers
Calls == [by : Callers, name : Names]

\* The resources once a call has had its effect.
After(call) ==
  IF call.by \in Creators THEN present \cup {call.name} ELSE present \ {call.name}

Init ==
  /\ current = [p \in Callers |-> NoCall]
  /\ happened = [p \in Callers |-> FALSE]
  /\ outcome = [p \in Callers |-> "none"]
  /\ begun = {} /\ present \subseteq Names

Begin(call) ==
  /\ current[call.by] = NoCall
  /\ current' = [current EXCEPT ![call.by] = call]
  /\ outcome' = [outcome EXCEPT ![call.by] = "none"]
  /\ begun' = begun \cup {call}
  /\ UNCHANGED <<happened, present>>

Happen(call) ==
  /\ call \in begun
  /\ present' = After(call)
  /\ happened' = [p \in Callers |-> happened[p] \/ current[p] = call]
  /\ UNCHANGED <<current, begun, outcome>>

\* Two callers end independently; neither looks at what is there now.
End(p, result) ==
  /\ current[p] # NoCall
  /\ result = "ok" => happened[p]
  /\ current' = [current EXCEPT ![p] = NoCall]
  /\ happened' = [happened EXCEPT ![p] = FALSE]
  /\ outcome' = [outcome EXCEPT ![p] = result]
  /\ UNCHANGED <<begun, present>>

\* The processes of some callers are gone.
Abandon(gone) ==
  /\ current' = [p \in Callers |-> IF p \in gone THEN NoCall ELSE current[p]]
  /\ happened' = [p \in Callers |-> IF p \in gone THEN FALSE ELSE happened[p]]
  /\ UNCHANGED <<begun, present, outcome>>

Next ==
  \/ \E call \in Calls : Begin(call) \/ Happen(call)
  \/ \E p \in Callers, result \in {"ok", "error"} : End(p, result)
  \/ \E gone \in SUBSET Callers : Abandon(gone)

Spec == Init /\ [][Next]_vars
=============================================================================
