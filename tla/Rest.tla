-------------------------------- MODULE Rest --------------------------------
(***************************************************************************)
(* The HTTP client of internal/collect (rest.go) in the two processes that *)
(* change the tenant: PUT of a new role assignment by the grant worker,    *)
(* retried when throttled or failed, DELETE by the remediator, which is    *)
(* not and may be of just what the grant worker created.                   *)
(*                                                                         *)
(* A request that was sent may be served late, after its caller gave up    *)
(* waiting for it, made another attempt or ended, and its answer may be    *)
(* lost.  Copies of one request are equal, so it makes no difference which *)
(* of them is late.                                                        *)
(***************************************************************************)
EXTENDS Naturals

CONSTANTS
  Fresh,        \* names newGUID can draw
  Old,          \* assignments there at the start
  MaxAttempts,  \* attempts of a retried call; maxAttempts is 6 in the code
  MaxLate,      \* a call is not made again while more of its requests are
                \* on their way: bounds the model
  NoCall        \* no call is being made

ASSUME RestAssumption ==
  /\ Fresh \cap Old = {}
  /\ MaxAttempts \in Nat \ {0}
  /\ MaxLate \in Nat

Creators == {"grantworker"}
Removers == {"remediator"}
Callers == Creators \cup Removers
Names == Fresh \cup Old
Calls == [by : Callers, name : Names]

ASSUME NoCallAssumption == NoCall \notin Calls

VARIABLES
  phase,    \* what each caller does: "idle", "send", "wait" or "backoff"
  current,  \* the call it makes, or NoCall
  attempt,  \* the number of its attempt
  reply,    \* the answer on its way to it
  outcome,  \* how its last call ended
  pipe,     \* pipe[c]: requests of call c that were sent and not yet served
  begun,    \* every call ever made
  present,  \* assignments that exist
  happened  \* history: the call it makes had its effect since it began

callerVars == <<phase, current, attempt, reply, outcome>>
restVars == <<callerVars, pipe, begun, present, happened>>

RestTypeOK ==
  /\ phase \in [Callers -> {"idle", "send", "wait", "backoff"}]
  /\ current \in [Callers -> Calls \cup {NoCall}]
  /\ attempt \in [Callers -> 0..MaxAttempts]
  /\ reply \in [Callers -> {"none", "ok", "busy", "refused"}]
  /\ outcome \in [Callers -> {"none", "ok", "error"}]
  /\ pipe \in [Calls -> 0..MaxLate + MaxAttempts]
  /\ begun \subseteq Calls
  /\ present \subseteq Names
  /\ happened \in [Callers -> BOOLEAN]

RestInit ==
  /\ phase = [p \in Callers |-> "idle"]
  /\ current = [p \in Callers |-> NoCall]
  /\ attempt = [p \in Callers |-> 0]
  /\ reply = [p \in Callers |-> "none"]
  /\ outcome = [p \in Callers |-> "none"]
  /\ pipe = [c \in Calls |-> 0]
  /\ begun = {} /\ present = Old
  /\ happened = [p \in Callers |-> FALSE]

Effect(call) ==
  /\ present' = IF call.by \in Creators THEN present \cup {call.name}
                                        ELSE present \ {call.name}
  /\ happened' = [p \in Callers |-> happened[p] \/ current[p] = call]

-----------------------------------------------------------------------------
\* What a remediator can be told to delete: listed in a run, or provisioned.
Removable == Old \cup {b.name : b \in {c \in begun : c.by \in Creators}}

\* ProvisionGrant draws a new name.
Begin(call) ==
  /\ phase[call.by] = "idle"
  /\ pipe[call] <= MaxLate
  /\ call.by \in Creators => call.name \in Fresh /\ \A b \in begun : b.name # call.name
  /\ call.by \in Removers => call.name \in Removable
  /\ phase' = [phase EXCEPT ![call.by] = "send"]
  /\ current' = [current EXCEPT ![call.by] = call]
  /\ attempt' = [attempt EXCEPT ![call.by] = 1]
  /\ outcome' = [outcome EXCEPT ![call.by] = "none"]
  /\ begun' = begun \cup {call}
  /\ UNCHANGED <<reply, pipe, present, happened>>

Send(p) ==
  /\ phase[p] = "send"
  /\ phase' = [phase EXCEPT ![p] = "wait"]
  /\ pipe' = [pipe EXCEPT ![current[p]] = @ + 1]
  /\ UNCHANGED <<current, attempt, reply, outcome, begun, present, happened>>

\* The service answers a caller that still waits; the answer may be lost.
Answer(call, replies) ==
  \/ UNCHANGED reply
  \/ /\ phase[call.by] = "wait" /\ current[call.by] = call /\ reply[call.by] = "none"
     /\ \E r \in replies : reply' = [reply EXCEPT ![call.by] = r]

(***************************************************************************)
(* Azure serves a request: done; done, but the answer is a 5xx; refused;   *)
(* busy (429, 5xx).  To remove what is not there is 404, which counts as   *)
(* done; to create what is there is done again, or a conflict.             *)
(***************************************************************************)
Serve(call) ==
  /\ pipe[call] > 0
  /\ pipe' = [pipe EXCEPT ![call] = @ - 1]
  /\ \/ Effect(call) /\ Answer(call, {"ok", "busy"})
     \/ UNCHANGED <<present, happened>> /\ Answer(call, {"busy", "refused"})
  /\ UNCHANGED <<phase, current, attempt, outcome, begun>>

Finish(p, result) ==
  /\ phase' = [phase EXCEPT ![p] = "idle"]
  /\ current' = [current EXCEPT ![p] = NoCall]
  /\ attempt' = [attempt EXCEPT ![p] = 0]
  /\ outcome' = [outcome EXCEPT ![p] = result]
  /\ happened' = [happened EXCEPT ![p] = FALSE]

Retries(p) == p \in Creators

Backoff(p) ==
  /\ phase' = [phase EXCEPT ![p] = "backoff"]
  /\ UNCHANGED <<current, attempt, outcome, happened>>

\* A mutant: one attempt too many.
RetryOnceMore(p) ==
  IF Retries(p) /\ attempt[p] <= MaxAttempts THEN Backoff(p) ELSE Finish(p, "error")

\* sleepBackoff; the call has failed when no attempts are left.
Retry(p) ==
  IF Retries(p) /\ attempt[p] < MaxAttempts THEN Backoff(p) ELSE Finish(p, "error")

NoReply(p) == reply' = [reply EXCEPT ![p] = "none"]

\* A network error, or 90 seconds without an answer.
TimeOut(p) ==
  /\ phase[p] = "wait"
  /\ Retry(p)
  /\ NoReply(p)
  /\ UNCHANGED <<pipe, begun, present>>

\* A mutant: what exists already, or is refused, counts as done.
ReceiveRefusedAsDone(p) ==
  /\ phase[p] = "wait"
  /\ \/ reply[p] \in {"ok", "refused"} /\ Finish(p, "ok")
     \/ reply[p] = "busy" /\ Retry(p)
  /\ NoReply(p)
  /\ UNCHANGED <<pipe, begun, present>>

\* Any 2xx is done, but a body that cannot be decoded is an error.
Receive(p) ==
  /\ phase[p] = "wait"
  /\ \/ reply[p] = "ok" /\ \E result \in {"ok", "error"} : Finish(p, result)
     \/ reply[p] = "refused" /\ Finish(p, "error")
     \/ reply[p] = "busy" /\ Retry(p)
  /\ NoReply(p)
  /\ UNCHANGED <<pipe, begun, present>>

\* A mutant: the attempts are not counted.
WakeUncounted(p) ==
  /\ phase[p] = "backoff"
  /\ phase' = [phase EXCEPT ![p] = "send"]
  /\ UNCHANGED <<current, attempt, reply, outcome, pipe, begun, present, happened>>

\* The same request again: the body and the name are those of the call.
Wake(p) ==
  /\ phase[p] = "backoff"
  /\ phase' = [phase EXCEPT ![p] = "send"]
  /\ attempt' = [attempt EXCEPT ![p] = @ + 1]
  /\ UNCHANGED <<current, reply, outcome, pipe, begun, present, happened>>

\* Processes are gone; what they sent is still on its way.
Killed(gone) ==
  /\ phase' = [p \in Callers |-> IF p \in gone THEN "idle" ELSE phase[p]]
  /\ current' = [p \in Callers |-> IF p \in gone THEN NoCall ELSE current[p]]
  /\ attempt' = [p \in Callers |-> IF p \in gone THEN 0 ELSE attempt[p]]
  /\ reply' = [p \in Callers |-> IF p \in gone THEN "none" ELSE reply[p]]
  /\ happened' = [p \in Callers |-> IF p \in gone THEN FALSE ELSE happened[p]]
  /\ UNCHANGED <<outcome, pipe, begun, present>>

CallerStep(p) == Send(p) \/ Wake(p) \/ Receive(p) \/ TimeOut(p)

-----------------------------------------------------------------------------
AsOneShot == INSTANCE OneShot

CallIsOneShot == AsOneShot!Spec
=============================================================================
