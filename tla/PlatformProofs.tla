--------------------------- MODULE PlatformProofs ---------------------------
(***************************************************************************)
(* A call is one shot, for every number of attempts and of late requests:  *)
(* module Rest, run by Platform, implements OneShot.                       *)
(*                                                                         *)
(* CallIsOneShot is not inductive.  Ending well must mean that the effect  *)
(* was there while the call was made, so RestInv says so of an answer "ok" *)
(* on its way.  Nothing is said of what is there when the call ends: the   *)
(* other process, or a late copy of what it sent, may have undone it.      *)
(***************************************************************************)
EXTENDS Platform, TLAPS

\* What one step of the platform does to the client.
RestNext ==
  \/ \E c \in Calls : Begin(c) \/ Serve(c)
  \/ \E p \in Callers : CallerStep(p)
  \/ \E gone \in SUBSET Callers : Killed(gone)

CallersTyped ==
  /\ phase \in [Callers -> {"idle", "send", "wait", "backoff"}]
  /\ current \in [Callers -> Calls \cup {NoCall}]
  /\ attempt \in [Callers -> Nat]
  /\ reply \in [Callers -> {"none", "ok", "busy", "refused"}]
  /\ outcome \in [Callers -> {"none", "ok", "error"}]
  /\ happened \in [Callers -> BOOLEAN]
  /\ begun \subseteq Calls
  /\ present \subseteq Names

\* The call a process makes is one it began, while it is not idle.
CallerMakesCall ==
  \A p \in Callers : /\ phase[p] = "idle" <=> current[p] = NoCall
                     /\ current[p] # NoCall => current[p] \in begun /\ current[p].by = p
                     /\ phase[p] # "wait" => reply[p] = "none"

\* What is on its way belongs to a call that was made.
PipeHasBegun == pipe \in [Calls -> Nat] /\ \A c \in Calls : pipe[c] > 0 => c \in begun

\* An answer "ok" on its way tells of an effect since the call began.
OkIsDone == \A p \in Callers : reply[p] = "ok" => happened[p]

RestInv == CallersTyped /\ CallerMakesCall /\ PipeHasBegun /\ OkIsDone

-----------------------------------------------------------------------------
LEMMA StepsOfClient ==
  ASSUME [Next]_vars
  PROVE  RestNext \/ UNCHANGED restVars
<1>1. CASE Supervision
  BY <1>1 DEF Supervision, RestNext
<1>2. CASE Calling
  BY <1>2 DEF Calling, RestNext
<1>3. CASE Collecting
  BY <1>3 DEF Collecting
<1>4. CASE UNCHANGED vars
  BY <1>4 DEF vars, restVars, callerVars
<1> QED
  BY <1>1, <1>2, <1>3, <1>4 DEF Next

LEMMA InvInit == ASSUME Init PROVE RestInv
  BY NoCallAssumption
     DEF Init, RestInit, RestInv, CallersTyped, CallerMakesCall, PipeHasBegun, OkIsDone, Names

LEMMA CallersOfCalls == \A c \in Calls : c.by \in Callers /\ c.name \in Names
  BY DEF Calls

LEMMA BeginKeepsInv ==
  ASSUME RestInv, NEW c \in Calls, Begin(c)
  PROVE  RestInv'
<1> USE NoCallAssumption, CallersOfCalls DEF RestInv
<1>1. CallersTyped'
  BY DEF CallersTyped, Begin
<1>2. CallerMakesCall'
  BY DEF CallersTyped, CallerMakesCall, Begin
<1>3. PipeHasBegun'
  BY DEF PipeHasBegun, Begin
<1>4. OkIsDone'
  BY DEF OkIsDone, Begin
<1> QED
  BY <1>1, <1>2, <1>3, <1>4

\* An answer goes to the caller that waits for it.
LEMMA AnswersCaller ==
  ASSUME CallersTyped, NEW c \in Calls,
         NEW replies \in SUBSET {"ok", "busy", "refused"}, Answer(c, replies)
  PROVE  /\ reply' \in [Callers -> {"none", "ok", "busy", "refused"}]
         /\ \A p \in Callers : reply'[p] # reply[p] =>
              phase[p] = "wait" /\ current[p] = c /\ reply'[p] \in replies
  BY CallersOfCalls DEF CallersTyped, Answer

LEMMA ServeKeepsInv ==
  ASSUME RestInv, NEW c \in Calls, Serve(c)
  PROVE  RestInv'
<1> USE DEF RestInv
<1>1. PICK replies \in SUBSET {"ok", "busy", "refused"} :
        /\ Answer(c, replies)
        /\ \/ Effect(c)
           \/ UNCHANGED <<present, happened>> /\ "ok" \notin replies
  BY DEF Serve
<1>2. /\ reply' \in [Callers -> {"none", "ok", "busy", "refused"}]
      /\ \A p \in Callers : reply'[p] # reply[p] =>
           phase[p] = "wait" /\ current[p] = c /\ reply'[p] \in replies
  BY <1>1, AnswersCaller
<1>3. present' \subseteq Names /\ happened' \in [Callers -> BOOLEAN]
  BY <1>1, CallersOfCalls DEF Effect, CallersTyped
<1>4. CallersTyped'
  BY <1>2, <1>3 DEF CallersTyped, Serve
<1>5. CallerMakesCall'
  BY <1>2 DEF CallerMakesCall, Serve
<1>6. PipeHasBegun'
  BY DEF PipeHasBegun, Serve
<1>7. OkIsDone'
  <2>1. ASSUME NEW p \in Callers, reply'[p] = "ok"
        PROVE  happened'[p]
    <3>1. CASE Effect(c)
      BY <1>2, <2>1, <3>1 DEF Effect, OkIsDone
    <3>2. CASE UNCHANGED <<present, happened>> /\ "ok" \notin replies
      BY <1>2, <2>1, <3>2 DEF OkIsDone
    <3> QED
      BY <1>1, <3>1, <3>2
  <2> QED
    BY <2>1 DEF OkIsDone
<1> QED
  BY <1>4, <1>5, <1>6, <1>7

LEMMA CallerKeepsInv ==
  ASSUME RestInv, NEW p \in Callers, CallerStep(p)
  PROVE  RestInv'
<1> USE NoCallAssumption DEF RestInv
<1>1. CASE Send(p)
  <2>1. current[p] \in begun /\ current[p] \in Calls
    BY <1>1 DEF Send, CallersTyped, CallerMakesCall
  <2>2. PipeHasBegun'
    BY <1>1, <2>1 DEF Send, PipeHasBegun
  <2>3. CallersTyped' /\ CallerMakesCall' /\ OkIsDone'
    BY <1>1, <2>1 DEF Send, CallersTyped, CallerMakesCall, OkIsDone
  <2> QED
    BY <2>2, <2>3
<1>2. CASE Wake(p)
  BY <1>2 DEF Wake, CallersTyped, CallerMakesCall, PipeHasBegun, OkIsDone
<1>3. CASE Receive(p) \/ TimeOut(p)
  <2>1. /\ NoReply(p) /\ UNCHANGED <<pipe, begun, present>> /\ phase[p] = "wait"
        /\ Backoff(p) \/ \E result \in {"ok", "error"} : Finish(p, result)
    BY <1>3 DEF Receive, TimeOut, Retry
  <2>2. CASE Backoff(p)
    BY <2>1, <2>2 DEF Backoff, NoReply, CallersTyped, CallerMakesCall, PipeHasBegun, OkIsDone
  <2>3. ASSUME NEW result \in {"ok", "error"}, Finish(p, result)
        PROVE  RestInv'
    BY <2>1, <2>3 DEF Finish, NoReply, CallersTyped, CallerMakesCall, PipeHasBegun, OkIsDone
  <2> QED
    BY <2>1, <2>2, <2>3
<1> QED
  BY <1>1, <1>2, <1>3 DEF CallerStep

LEMMA KilledKeepsInv ==
  ASSUME RestInv, NEW gone \in SUBSET Callers, Killed(gone)
  PROVE  RestInv'
<1> USE NoCallAssumption DEF RestInv
<1>1. CallersTyped'
  BY DEF Killed, CallersTyped
<1>2. CallerMakesCall' /\ OkIsDone'
  BY DEF Killed, CallersTyped, CallerMakesCall, OkIsDone
<1>3. PipeHasBegun'
  BY DEF Killed, PipeHasBegun
<1> QED
  BY <1>1, <1>2, <1>3

LEMMA InvNext ==
  ASSUME RestInv, [Next]_vars
  PROVE  RestInv'
<1>1. CASE UNCHANGED restVars
  BY <1>1 DEF restVars, callerVars, RestInv, CallersTyped, CallerMakesCall, PipeHasBegun, OkIsDone
<1> QED
  BY <1>1, StepsOfClient, BeginKeepsInv, ServeKeepsInv, CallerKeepsInv, KilledKeepsInv
     DEF RestNext

-----------------------------------------------------------------------------
LEMMA InitIsAbstract == ASSUME Init PROVE AsOneShot!Init
  BY DEF Init, RestInit, AsOneShot!Init, AsOneShot!Callers, Callers, Names

\* Sending, waking up and backing off are not seen, ending is.
LEMMA CallerRefines ==
  ASSUME RestInv, NEW p \in Callers, CallerStep(p)
  PROVE  AsOneShot!Next \/ UNCHANGED AsOneShot!vars
<1>1. CASE Send(p) \/ Wake(p)
  BY <1>1 DEF Send, Wake, AsOneShot!vars
<1>2. CASE Receive(p) \/ TimeOut(p)
  <2>1. UNCHANGED <<begun, present>> /\ current[p] # NoCall
    BY <1>2 DEF Receive, TimeOut, RestInv, CallerMakesCall
  <2>2. \/ UNCHANGED <<current, outcome, happened>>
        \/ \E result \in {"ok", "error"} :
             Finish(p, result) /\ (result = "ok" => happened[p])
    BY <1>2 DEF Receive, TimeOut, Retry, Backoff, RestInv, OkIsDone
  <2>3. CASE UNCHANGED <<current, outcome, happened>>
    BY <2>1, <2>3 DEF AsOneShot!vars
  <2>4. ASSUME NEW result \in {"ok", "error"}, Finish(p, result), result = "ok" => happened[p]
        PROVE  AsOneShot!Next
    <3>1. AsOneShot!End(p, result)
      BY <2>1, <2>4 DEF Finish, AsOneShot!End
    <3> QED
      BY <3>1 DEF AsOneShot!Next, AsOneShot!Callers, Callers
  <2> QED
    BY <2>2, <2>3, <2>4
<1> QED
  BY <1>1, <1>2 DEF CallerStep

LEMMA StepIsAbstract ==
  ASSUME RestInv, [Next]_vars
  PROVE  AsOneShot!Next \/ UNCHANGED AsOneShot!vars
<1> USE DEF AsOneShot!Callers, AsOneShot!Calls, Calls, Callers
<1>1. ASSUME NEW c \in Calls, Begin(c)
      PROVE  AsOneShot!Next
  <2>1. AsOneShot!Begin(c)
    BY <1>1 DEF Begin, RestInv, CallerMakesCall, AsOneShot!Begin
  <2> QED
    BY <2>1 DEF AsOneShot!Next
<1>2. ASSUME NEW c \in Calls, Serve(c)
      PROVE  AsOneShot!Next \/ UNCHANGED AsOneShot!vars
  <2>1. c \in begun
    BY <1>2 DEF Serve, RestInv, PipeHasBegun
  <2>2. CASE Effect(c)
    <3>1. AsOneShot!Happen(c)
      BY <1>2, <2>1, <2>2 DEF Serve, Effect, AsOneShot!Happen, AsOneShot!After
    <3> QED
      BY <3>1 DEF AsOneShot!Next
  <2>3. CASE UNCHANGED <<present, happened>>
    BY <1>2, <2>3 DEF Serve, AsOneShot!vars
  <2> QED
    BY <1>2, <2>2, <2>3 DEF Serve
<1>3. ASSUME NEW gone \in SUBSET Callers, Killed(gone)
      PROVE  AsOneShot!Next
  <2>1. AsOneShot!Abandon(gone)
    BY <1>3 DEF Killed, AsOneShot!Abandon
  <2> QED
    BY <2>1 DEF AsOneShot!Next
<1>4. CASE UNCHANGED restVars
  BY <1>4 DEF restVars, callerVars, AsOneShot!vars
<1> QED
  BY <1>1, <1>2, <1>3, <1>4, StepsOfClient, CallerRefines DEF RestNext

-----------------------------------------------------------------------------
(***************************************************************************)
(* The retrying client, whatever is lost, late, repeated or killed, makes  *)
(* calls the way the workers rely on: each concerns the one name it was    *)
(* begun with, one that ends well has had its effect since it began, and   *)
(* nothing else changes the assignments, except earlier calls that are     *)
(* served late (rest.go request and del; the remediator may delete what    *)
(* the grant worker just created).                                         *)
(***************************************************************************)
THEOREM CallsAreOneShot == Spec => CallIsOneShot
<1>1. Init => RestInv /\ AsOneShot!Init
  BY InvInit, InitIsAbstract
<1>2. RestInv /\ [Next]_vars => RestInv'
  BY InvNext
<1>3. RestInv /\ [Next]_vars => [AsOneShot!Next]_AsOneShot!vars
  BY StepIsAbstract
<1> QED
  BY <1>1, <1>2, <1>3, PTL DEF Spec, CallIsOneShot, AsOneShot!Spec
=============================================================================
