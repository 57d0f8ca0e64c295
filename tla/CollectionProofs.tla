-------------------------- MODULE CollectionProofs --------------------------
(***************************************************************************)
(* Runs tell the truth, the drift page reports real changes, and what was  *)
(* stored stays: for any tenant, any number of changes to it, of outages   *)
(* and of starts of the container.                                         *)
(***************************************************************************)
EXTENDS PlatformProofs

RunTyped ==
  /\ run \in GatheredRun /\ newer \in StoredRun /\ older \in StoredRun
  /\ left \subseteq AllPlaces /\ tenant \subseteq Items /\ altered \subseteq Items

\* The role of what a run holds is as the run has it, if nobody altered it.
TextsHold(r) ==
  \A t \in r.seen : t \in Items /\ (t \in r.touched \/ (t \in r.altered <=> t \in altered))

\* What is untouched since one run is untouched since the next.
TouchedSince(r, next) == r.seen \cap next.touched \subseteq r.touched

TextsAreKnown ==
  /\ run.altered \subseteq run.seen
  /\ TextsHold(run) /\ TextsHold(newer) /\ TextsHold(older)
  /\ TouchedSince(newer, run) /\ TouchedSince(older, newer)

\* While the tenant is read, what existed all along exists, and what exists
\* has existed.
ReadingIsRecorded ==
  stage \in {"subs", "list"} => run.always \subseteq tenant /\ tenant \subseteq run.sometime

\* What RunIsTruthful says of the run that is stored holds as it is gathered.
GatheredIsTruthful ==
  /\ run.seen \subseteq run.sometime
  /\ \A t \in run.always : Places[t] \cap run.covered # {} => t \in run.seen
  /\ run.sources = {KindOf(p) : p \in run.covered}

\* A stored run has what it had to hold, unless it lacks the source.
HoldsItsOwn(r) ==
  r.sure \subseteq Items /\ \A t \in r.sure : KindOfItem(t) \in r.sources => t \in r.seen

RunsInv ==
  /\ RunTyped
  /\ TextsAreKnown
  /\ ReadingIsRecorded
  /\ GatheredIsTruthful
  /\ HoldsItsOwn(newer)
  /\ HoldsItsOwn(older)

-----------------------------------------------------------------------------
\* The steps of the platform, as far as runs go.
LEMMA StepsOfCollection ==
  ASSUME [Next]_vars
  PROVE  \/ Authenticate \/ ListSubscriptions \/ StoreRun \/ CollectorGone
         \/ RunsWiped /\ Reset
         \/ \E place \in left : List(place)
         \/ \E t \in Items : TenantChanges(t) \/ Alter(t)
         \/ UNCHANGED colVars
<1>1. CASE Supervision
  BY <1>1 DEF Supervision
<1>2. CASE Calling
  BY <1>2 DEF Calling
<1>3. CASE Collecting
  BY <1>3 DEF Collecting, CollectorStep
<1>4. CASE UNCHANGED vars
  BY <1>4 DEF vars
<1> QED
  BY <1>1, <1>2, <1>3, <1>4 DEF Next

LEMMA EmptyRunIsFine ==
  ASSUME NEW there, there \subseteq Items
  PROVE  /\ EmptyRun(there) \in GatheredRun
         /\ EmptyRun(there).seen = {} /\ EmptyRun(there).covered = {}
         /\ EmptyRun(there).altered = {} /\ EmptyRun(there).sources = {}
         /\ EmptyRun(there).touched = {}
         /\ EmptyRun(there).always = there /\ EmptyRun(there).sometime = there
  BY DEF EmptyRun, GatheredRun

LEMMA NoRunIsFine ==
  HoldsItsOwn(NoRun) /\ NoRun \in StoredRun /\ NoRun.seen = {} /\ NoRun.touched = {}
  BY DEF HoldsItsOwn, NoRun, StoredRun

LEMMA Touched ==
  ASSUME NEW t \in Items, NEW r \in GatheredRun \cup StoredRun
  PROVE  /\ r \in GatheredRun => Touch(r, t) \in GatheredRun
         /\ r \in StoredRun => Touch(r, t) \in StoredRun
         /\ Touch(r, t).seen = r.seen /\ Touch(r, t).altered = r.altered
         /\ Touch(r, t).unnamed = r.unnamed /\ Touch(r, t).sources = r.sources
         /\ r \in StoredRun => Touch(r, t).sure = r.sure
         /\ r \in GatheredRun => /\ Touch(r, t).always = r.always
                                /\ Touch(r, t).sometime = r.sometime
                                /\ Touch(r, t).covered = r.covered
         /\ Touch(r, t).touched = r.touched \cup ({t} \cap r.seen)
  BY DEF Touch, GatheredRun, StoredRun

\* A kind is that of each place that shows the item.
LEMMA KindOfPlace ==
  ASSUME NEW t \in Items, NEW p \in Places[t]
  PROVE  KindOfItem(t) = KindOf(p) /\ p \in AllPlaces
<1>1. Places[t] \subseteq AllPlaces
  BY CollectionAssumption
<1>2. KindOfItem(t) \in {KindOf(q) : q \in Places[t]}
  BY DEF KindOfItem
<1> QED
  BY <1>1, <1>2, CollectionAssumption

LEMMA AllPlacesAreShown == \A t \in Items : Places[t] # {}
  BY CollectionAssumption

(***************************************************************************)
(* A run that has the source of an item, and in which its subscriptions    *)
(* are not the only ones that failed, listed a place that shows it.        *)
(***************************************************************************)
LEMMA SourceMeansListed ==
  ASSUME NEW t \in Items, RunTyped, GatheredIsTruthful, ~Hidden(t, run),
         KindOfItem(t) \in run.sources
  PROVE  Places[t] \cap run.covered # {}
<1>1. PICK p \in run.covered : KindOf(p) = KindOfItem(t)
  BY DEF GatheredIsTruthful
<1>2. PICK q \in Places[t] : TRUE
  BY AllPlacesAreShown
<1>3. KindOf(q) = KindOf(p) /\ q \in AllPlaces /\ p \in AllPlaces
  BY <1>1, <1>2, KindOfPlace DEF RunTyped, GatheredRun
<1>4. CASE p \in {"policies", "directory"}
  BY <1>1, <1>2, <1>3, <1>4 DEF KindOf
<1>5. CASE p \notin {"policies", "directory"}
  <2>1. p \in CSubs
    BY <1>3, <1>5, CollectionAssumption DEF AllPlaces
  <2> QED
    BY <1>1, <2>1 DEF Hidden
<1> QED
  BY <1>4, <1>5

\* A listing adds what it shows, with the names that were found.
LEMMA GatheredIs ==
  ASSUME RunTyped, NEW place \in left, NEW lost \in SUBSET LookedUp(place)
  PROVE  LET r == Gathered(place, lost)
         IN  /\ r \in GatheredRun
             /\ r.seen = run.seen \cup Listed(place)
             /\ r.altered = run.altered \cup (NewIn(place) \cap altered)
             /\ r.touched = run.touched
             /\ r.sources = run.sources \cup {KindOf(place)}
             /\ r.covered = run.covered \cup {place}
             /\ r.always = run.always /\ r.sometime = run.sometime
<1>1. Listed(place) \subseteq Items /\ NewIn(place) \subseteq Items /\ lost \subseteq Items
  BY DEF RunTyped, Listed, NewIn, LookedUp
<1>2. KindOf(place) \in Sources /\ place \in AllPlaces
  BY DEF KindOf, Sources, RunTyped
<1> QED
  BY <1>1, <1>2 DEF Gathered, GatheredRun, RunTyped

LEMMA StoredIs ==
  ASSUME RunTyped, StoreRun
  PROVE  /\ newer' \in StoredRun /\ older' = newer
         /\ newer'.seen = run.seen /\ newer'.altered = run.altered
         /\ newer'.touched = run.touched /\ newer'.sources = run.sources
         /\ newer'.sure = {t \in run.always : ~Hidden(t, run)}
  BY DEF StoreRun, RunTyped, StoredRun, GatheredRun

LEMMA TenantIsSeen ==
  ASSUME RunTyped, NEW t \in Items, TenantChanges(t)
  PROVE  /\ run' \in GatheredRun
         /\ run'.seen = run.seen /\ run'.altered = run.altered /\ run'.touched = run.touched
         /\ run'.sources = run.sources /\ run'.covered = run.covered
         /\ IF stage \in {"subs", "list"}
            THEN run'.always = run.always \ {t} /\ run'.sometime = run.sometime \cup {t}
            ELSE UNCHANGED run
         /\ tenant' \in {tenant \ {t}, tenant \cup {t}}
         /\ UNCHANGED <<stage, left, newer, older, altered>>
  BY DEF TenantChanges, RunTyped, GatheredRun

LEMMA RunsInvInit == ASSUME Init PROVE RunsInv
<1>1. run = EmptyRun({}) /\ left = {} /\ stage = "idle" /\ newer = NoRun /\ older = NoRun
      /\ altered = {}
  BY DEF Init, CollectionInit
<1>2. tenant \subseteq Items
  BY CollectionAssumption DEF Init, CollectionInit
<1> QED
  BY <1>1, <1>2, EmptyRunIsFine, NoRunIsFine
     DEF RunsInv, RunTyped, ReadingIsRecorded, GatheredIsTruthful, TextsAreKnown, TextsHold,
         TouchedSince

LEMMA RunTypedNext ==
  ASSUME RunTyped, [Next]_vars
  PROVE  RunTyped'
<1> USE DEF RunTyped
<1>1. CASE Authenticate \/ ListSubscriptions \/ CollectorGone \/ RunsWiped \/ UNCHANGED colVars
  BY <1>1, EmptyRunIsFine, NoRunIsFine
     DEF Authenticate, ListSubscriptions, CollectorGone, RunsWiped, Stays, colVars, AllPlaces
<1>2. CASE StoreRun
  BY <1>2, StoredIs, EmptyRunIsFine DEF StoreRun
<1>3. ASSUME NEW place \in left, List(place)
      PROVE  RunTyped'
  BY <1>3, GatheredIs DEF List, Stays
<1>4. ASSUME NEW t \in Items, TenantChanges(t)
      PROVE  RunTyped'
  BY <1>4, TenantIsSeen
<1>5. ASSUME NEW t \in Items, Alter(t)
      PROVE  RunTyped'
  BY <1>5, Touched DEF Alter
<1> QED
  BY <1>1, <1>2, <1>3, <1>4, <1>5, StepsOfCollection

(***************************************************************************)
(* A run takes the texts as they are, and what is altered later counts as  *)
(* touched in every run that holds it.                                     *)
(***************************************************************************)
LEMMA TextsNext ==
  ASSUME RunTyped, TextsAreKnown, [Next]_vars
  PROVE  TextsAreKnown'
<1> USE DEF TextsAreKnown, TextsHold, TouchedSince
<1>1. CASE Authenticate \/ CollectorGone \/ RunsWiped
  BY <1>1, EmptyRunIsFine, NoRunIsFine DEF Authenticate, CollectorGone, RunsWiped, Stays, RunTyped
<1>2. CASE ListSubscriptions \/ UNCHANGED colVars
  BY <1>2 DEF ListSubscriptions, Stays, colVars
<1>3. CASE StoreRun
  BY <1>3, StoredIs, EmptyRunIsFine DEF StoreRun
<1>4. ASSUME NEW place \in left, List(place)
      PROVE  TextsAreKnown'
  <2>1. UNCHANGED <<newer, older, altered>>
    BY <1>4 DEF List, Stays
  <2>2. CASE UNCHANGED run
    BY <2>1, <2>2
  <2>3. ASSUME NEW lost \in SUBSET LookedUp(place), run' = Gathered(place, lost)
        PROVE  TextsAreKnown'
    <3>1. /\ run'.seen = run.seen \cup Listed(place)
          /\ run'.altered = run.altered \cup (NewIn(place) \cap altered)
          /\ run'.touched = run.touched
      BY <2>3, GatheredIs
    <3>2. TextsHold(run)'
      <4>1. ASSUME NEW t \in run'.seen
            PROVE  t \in Items /\ (t \in run'.touched \/ (t \in run'.altered <=> t \in altered'))
        BY <2>1, <3>1, <4>1 DEF Listed, NewIn, RunTyped
      <4> QED
        BY <4>1
    <3> QED
      BY <2>1, <3>1, <3>2 DEF NewIn
  <2> QED
    BY <1>4, <2>2, <2>3 DEF List
<1>5. ASSUME NEW t \in Items, TenantChanges(t)
      PROVE  TextsAreKnown'
  BY <1>5, TenantIsSeen
<1>6. ASSUME NEW t \in Items, Alter(t)
      PROVE  TextsAreKnown'
  <2>1. /\ run'.seen = run.seen /\ newer'.seen = newer.seen /\ older'.seen = older.seen
        /\ run'.altered = run.altered /\ newer'.altered = newer.altered
        /\ older'.altered = older.altered
        /\ run'.touched = run.touched \cup ({t} \cap run.seen)
        /\ newer'.touched = newer.touched \cup ({t} \cap newer.seen)
        /\ older'.touched = older.touched \cup ({t} \cap older.seen)
    BY <1>6, Touched DEF Alter, RunTyped
  <2>2. \A u \in Items : u # t => (u \in altered' <=> u \in altered)
    BY <1>6 DEF Alter
  <2>3. TouchedSince(newer, run)' /\ TouchedSince(older, newer)'
    BY <2>1
  <2> QED
    BY <2>1, <2>2, <2>3
<1> QED
  BY <1>1, <1>2, <1>3, <1>4, <1>5, <1>6, StepsOfCollection

LEMMA RunsInvNext ==
  ASSUME RunsInv, [Next]_vars
  PROVE  RunsInv'
<1> DEFINE Held == /\ ReadingIsRecorded /\ GatheredIsTruthful
                   /\ HoldsItsOwn(newer) /\ HoldsItsOwn(older)
<1> SUFFICES Held'
  BY RunTypedNext, TextsNext DEF RunsInv
<1> USE DEF RunsInv, ReadingIsRecorded, GatheredIsTruthful
<1>1. CASE Authenticate
  BY <1>1, EmptyRunIsFine DEF Authenticate, Stays, HoldsItsOwn, RunTyped
<1>2. CASE ListSubscriptions \/ UNCHANGED colVars
  BY <1>2 DEF ListSubscriptions, Stays, HoldsItsOwn, colVars
<1>3. CASE StoreRun
  <2>1. newer'.seen = run.seen /\ newer'.sources = run.sources
        /\ newer'.sure = {t \in run.always : ~Hidden(t, run)} /\ older' = newer
    BY <1>3, StoredIs
  <2>2. run.always \subseteq Items
    BY DEF RunTyped, GatheredRun
  <2>3. \A t \in newer'.sure : KindOfItem(t) \in newer'.sources => t \in newer'.seen
    BY <2>1, <2>2, SourceMeansListed
  <2>4. HoldsItsOwn(newer)'
    BY <2>1, <2>2, <2>3 DEF HoldsItsOwn
  <2> QED
    BY <1>3, <2>1, <2>4, EmptyRunIsFine DEF StoreRun, HoldsItsOwn
<1>4. CASE CollectorGone
  BY <1>4, EmptyRunIsFine DEF CollectorGone, HoldsItsOwn
<1>5. CASE RunsWiped
  BY <1>5, NoRunIsFine DEF RunsWiped, HoldsItsOwn
<1>6. ASSUME NEW place \in left, List(place)
      PROVE  Held'
  <2>1. stage = "list" /\ UNCHANGED <<newer, older, tenant>>
    BY <1>6 DEF List, Stays
  <2>2. CASE UNCHANGED run
    BY <2>1, <2>2 DEF HoldsItsOwn
  <2>3. ASSUME NEW lost \in SUBSET LookedUp(place), run' = Gathered(place, lost)
        PROVE  Held'
    <3>1. /\ run'.seen = run.seen \cup Listed(place)
          /\ run'.sources = run.sources \cup {KindOf(place)}
          /\ run'.covered = run.covered \cup {place}
          /\ run'.always = run.always /\ run'.sometime = run.sometime
      BY <2>3, GatheredIs
    <3>2. Listed(place) \subseteq tenant
      BY DEF Listed
    <3>3. run'.seen \subseteq run'.sometime
      BY <2>1, <3>1, <3>2
    <3>4. ASSUME NEW t \in run.always, Places[t] \cap run'.covered # {}
          PROVE  t \in run'.seen
      BY <2>1, <3>1, <3>4 DEF Listed
    <3>5. run'.sources = {KindOf(p) : p \in run'.covered}
      BY <3>1
    <3> QED
      BY <2>1, <3>1, <3>3, <3>4, <3>5 DEF HoldsItsOwn
  <2> QED
    BY <1>6, <2>2, <2>3 DEF List
<1>7. ASSUME NEW t \in Items, TenantChanges(t)
      PROVE  Held'
  BY <1>7, TenantIsSeen DEF HoldsItsOwn
<1>8. ASSUME NEW t \in Items, Alter(t)
      PROVE  Held'
  BY <1>8, Touched DEF Alter, HoldsItsOwn, RunTyped
<1> QED
  BY <1>1, <1>2, <1>3, <1>4, <1>5, <1>6, <1>7, <1>8, StepsOfCollection

-----------------------------------------------------------------------------
(***************************************************************************)
(* The run that is stored tells the truth about the time it was read       *)
(* (collect.go Collect, store.go ReplaceRun).                              *)
(***************************************************************************)
THEOREM RunsAreTruthful == Spec => []RunIsTruthful
<1>1. RunsInv => RunIsTruthful
  BY DEF RunsInv, GatheredIsTruthful, RunIsTruthful
<1> QED
  BY <1>1, RunsInvInit, RunsInvNext, PTL DEF Spec

(***************************************************************************)
(* What the drift page reports really changed, whatever it reports: a kind *)
(* is only compared when both runs have its source, a run with the source  *)
(* holds what was there all along, and what is in both runs with another   *)
(* role was altered or could not be named (queries.go Drift, arm.go        *)
(* roleName).                                                              *)
(***************************************************************************)
THEOREM PagesReportChanges == Spec => []PageReportsChanges
<1>1. ASSUME RunsInv
      PROVE  PageRemoved \cap newer.sure = {} /\ PageAdded \cap older.sure = {}
  BY <1>1 DEF RunsInv, HoldsItsOwn, PageRemoved, PageAdded, Comparable
<1>2. ASSUME RunsInv, NEW t \in PageChanged, t \notin older.unnamed, t \notin newer.unnamed
      PROVE  t \in older.touched
  <2>1. t \in newer.seen /\ t \in older.seen /\ RoleIn(newer, t) # RoleIn(older, t)
    BY <1>2 DEF PageChanged
  <2>2. ~(t \in newer.altered <=> t \in older.altered)
    BY <1>2, <2>1 DEF RoleIn
  <2> QED
    BY <1>2, <2>1, <2>2 DEF RunsInv, TextsAreKnown, TextsHold, TouchedSince
<1>3. RunsInv => PageReportsChanges
  BY <1>1, <1>2 DEF PageReportsChanges
<1> QED
  BY <1>3, RunsInvInit, RunsInvNext, PTL DEF Spec

-----------------------------------------------------------------------------
\* The launcher wipes only when told to, and alone.
PreparesAlone ==
  /\ launcher = "reset" => config.init = "fresh"
  /\ launcher \in {"down", "reset", "open"} => child = NoChild

LEMMA PreparesAloneInit == ASSUME Init PROVE PreparesAlone
  BY DEF Init, SupInit, PreparesAlone

LEMMA PreparesAloneNext == ASSUME PreparesAlone, [Next]_vars PROVE PreparesAlone'
<1> USE DEF PreparesAlone
<1>1. CASE UNCHANGED supVars
  BY <1>1 DEF supVars
<1>2. CASE Start \/ LauncherStep
  BY <1>2 DEF Start, LauncherStep, Reset, ResetFail, Open, OpenFail, Stopped, Goto, Down
<1>3. ASSUME NEW p \in Programs, ChildEnds(p) \/ ChildStarts(p) \/ ChildStops(p)
      PROVE  PreparesAlone'
  BY <1>3 DEF ChildEnds, ChildStarts, ChildStops, SetChild
<1>4. CASE Signal \/ Lost \/ Outage
  BY <1>4 DEF Signal, Lost, Outage, Goto, Down
<1>5. SupNext \/ UNCHANGED supVars
  BY DEF Next, Supervision, Calling, Collecting, vars
<1> QED
  BY <1>1, <1>2, <1>3, <1>4, <1>5 DEF SupNext

(***************************************************************************)
(* What was stored stays: runs only vanish in a launcher that was told to  *)
(* start afresh, before any of its processes runs (govlensd main, store.go *)
(* Reset).                                                                 *)
(***************************************************************************)
THEOREM StoredRunsStay == Spec => StoredIsKept
<1>1. ASSUME PreparesAlone, RunsInv, [Next]_vars,
             newer # NoRun, newer' = NoRun, older' = NoRun
      PROVE  config.init = "fresh" /\ \A p \in Programs : ~Runs(p)
  <2>1. ASSUME NEW t \in Items, Alter(t)
        PROVE  FALSE
    <3>1. newer' = Touch(newer, t) /\ newer \in StoredRun
      BY <1>1, <2>1 DEF Alter, RunsInv, RunTyped
    <3>2. newer'.seen = newer.seen
      BY <3>1, Touched
    <3>3. newer.seen = {}
      BY <1>1, <3>2, NoRunIsFine
    <3> QED
      BY <1>1, <3>1, <3>3 DEF Touch
  <2>2. Reset
    BY <1>1, <2>1, StepsOfCollection DEF Authenticate, ListSubscriptions, StoreRun,
       CollectorGone, List, TenantChanges, Stays, colVars
  <2>3. config.init = "fresh" /\ child = NoChild
    BY <1>1, <2>2 DEF Reset, PreparesAlone
  <2> QED
    BY <2>3 DEF NoChild, Runs
<1>2. PreparesAlone /\ RunsInv /\ [Next]_vars =>
        [newer # NoRun /\ newer' = NoRun /\ older' = NoRun =>
           config.init = "fresh" /\ \A p \in Programs : ~Runs(p)]_vars
  BY <1>1
<1> QED
  BY <1>2, PreparesAloneInit, PreparesAloneNext, RunsInvInit, RunsInvNext, PTL
     DEF Spec, StoredIsKept

-----------------------------------------------------------------------------
(***************************************************************************)
(* Types, and the bounds in them: the launcher never tries more often than *)
(* it may, and no call has more requests under way than its attempts and   *)
(* those that were late when it began.                                     *)
(***************************************************************************)

\* What goes out in a call adds to what was late, once for each attempt.
PipeBounded ==
  /\ attempt \in [Callers -> 0..MaxAttempts]
  /\ \A c \in Calls : pipe[c] <= MaxLate + MaxAttempts
  /\ \A p \in Callers :
       /\ phase[p] = "send" => attempt[p] > 0 /\ pipe[current[p]] < MaxLate + attempt[p]
       /\ phase[p] \in {"wait", "backoff"} => pipe[current[p]] <= MaxLate + attempt[p]
       /\ phase[p] = "backoff" => attempt[p] < MaxAttempts

BoundInv == RestInv /\ PipeBounded

LEMMA BoundInvInit == ASSUME Init PROVE BoundInv
<1>1. PipeBounded
  BY RestAssumption DEF Init, RestInit, PipeBounded
<1> QED
  BY <1>1, InvInit DEF BoundInv

\* Calls of different callers are different.
LEMMA CallsOfCallers ==
  ASSUME RestInv, NEW p \in Callers, phase[p] # "idle"
  PROVE  current[p] \in Calls /\ current[p].by = p
  BY DEF RestInv, CallersTyped, CallerMakesCall

LEMMA PipeStaysBounded ==
  ASSUME RestInv, PipeBounded, RestNext
  PROVE  PipeBounded'
<1> USE RestAssumption, NoCallAssumption
<1>0. /\ pipe \in [Calls -> Nat] /\ phase \in [Callers -> {"idle", "send", "wait", "backoff"}]
      /\ current \in [Callers -> Calls \cup {NoCall}]
  BY DEF RestInv, PipeHasBegun, CallersTyped
<1>1. ASSUME NEW c \in Calls, Begin(c)
      PROVE  PipeBounded'
  <2>1. c.by \in Callers /\ pipe[c] <= MaxLate /\ UNCHANGED pipe
    BY <1>1, CallersOfCalls DEF Begin
  <2>2. /\ phase' = [phase EXCEPT ![c.by] = "send"] /\ current' = [current EXCEPT ![c.by] = c]
        /\ attempt' = [attempt EXCEPT ![c.by] = 1]
    BY <1>1 DEF Begin
  <2> QED
    BY <1>0, <2>1, <2>2 DEF PipeBounded
<1>2. ASSUME NEW c \in Calls, Serve(c)
      PROVE  PipeBounded'
  <2>1. pipe' = [pipe EXCEPT ![c] = @ - 1] /\ UNCHANGED <<phase, current, attempt>> /\ pipe[c] > 0
    BY <1>2 DEF Serve
  <2>2. \A d \in Calls : pipe'[d] <= pipe[d] /\ pipe'[d] \in Nat
    BY <1>0, <2>1
  <2> QED
    BY <1>0, <2>1, <2>2, CallsOfCallers DEF PipeBounded
<1>3. ASSUME NEW p \in Callers, Send(p)
      PROVE  PipeBounded'
  <2>1. current[p] \in Calls /\ phase[p] = "send"
    BY <1>3, CallsOfCallers DEF Send
  <2>2. \A q \in Callers : phase[q] # "idle" /\ q # p => current[q] # current[p]
    BY <1>3, CallsOfCallers DEF Send
  <2>3. /\ phase' = [phase EXCEPT ![p] = "wait"] /\ pipe' = [pipe EXCEPT ![current[p]] = @ + 1]
        /\ UNCHANGED <<current, attempt>>
    BY <1>3 DEF Send
  <2> QED
    BY <1>0, <2>1, <2>2, <2>3, CallsOfCallers DEF PipeBounded
<1>4. ASSUME NEW p \in Callers, Wake(p)
      PROVE  PipeBounded'
  <2>1. current[p] \in Calls
    BY <1>4, CallsOfCallers DEF Wake
  <2> QED
    BY <1>0, <1>4, <2>1 DEF Wake, PipeBounded
<1>5. ASSUME NEW p \in Callers, Receive(p) \/ TimeOut(p)
      PROVE  PipeBounded'
  <2>1. /\ UNCHANGED pipe /\ phase[p] = "wait"
        /\ \/ Backoff(p) /\ attempt[p] < MaxAttempts
           \/ \E result \in {"ok", "error"} : Finish(p, result)
    BY <1>5 DEF Receive, TimeOut, Retry
  <2> QED
    BY <1>0, <2>1, CallsOfCallers DEF PipeBounded, Backoff, Finish
<1>6. ASSUME NEW gone \in SUBSET Callers, Killed(gone)
      PROVE  PipeBounded'
  BY <1>0, <1>6 DEF Killed, PipeBounded
<1> QED
  BY <1>1, <1>2, <1>3, <1>4, <1>5, <1>6 DEF RestNext, CallerStep

LEMMA BoundInvNext ==
  ASSUME BoundInv, [Next]_vars
  PROVE  BoundInv'
<1> USE DEF BoundInv
<1>1. CASE UNCHANGED restVars
  BY <1>1, InvNext DEF restVars, callerVars, PipeBounded
<1> QED
  BY <1>1, StepsOfClient, InvNext, PipeStaysBounded

-----------------------------------------------------------------------------
\* The limits of the launcher's counters.
LEMMA LimitsAreNatural == OpenTries \in Nat \ {0} /\ MaxStarts \in Nat /\ MaxOutages \in Nat
  BY SupervisorAssumption, Zenon

\* How a step moves them.
LEMMA CountersMove ==
  ASSUME [SupNext]_supVars
  PROVE  /\ UNCHANGED config
         /\ \/ UNCHANGED tries \/ tries' = 0
            \/ tries + 1 < OpenTries /\ tries' = tries + 1
         /\ UNCHANGED starts \/ (starts < MaxStarts /\ starts' = starts + 1)
         /\ UNCHANGED outages \/ (outages < MaxOutages /\ outages' = outages + 1)
<1>1. CASE Start \/ Outage \/ UNCHANGED supVars
  BY <1>1 DEF Start, Outage, supVars
<1>2. CASE OpenFail \/ Signal \/ Down \/ Open \/ Reset
  BY <1>2 DEF OpenFail, Signal, Goto, Down, Open, Reset
<1>3. ASSUME NEW p \in Programs, ChildEnds(p) \/ ChildStarts(p) \/ ChildStops(p)
      PROVE  UNCHANGED <<config, tries, starts, outages>>
  BY <1>3 DEF ChildEnds, ChildStarts, ChildStops, SetChild
<1> QED
  BY <1>1, <1>2, <1>3 DEF SupNext, LauncherStep, ResetFail, Stopped, Lost

\* The launcher's stages, its processes and Postgres.
LEMMA SupervisorTyped ==
  ASSUME SupTypeOK, [SupNext]_supVars
  PROVE  SupTypeOK'
<1> DEFINE States == {"none", "up", "waiting", "ended"}
<1> DEFINE Placed == /\ launcher' \in {"down", "reset", "open", "up", "stopping"}
                     /\ child' \in [Programs -> States]
<1>1. launcher \in {"down", "reset", "open", "up", "stopping"} /\ child \in [Programs -> States]
  BY DEF SupTypeOK
<1>2. NoChild \in [Programs -> States]
  BY DEF NoChild
<1>3. ASSUME Down PROVE Placed
  BY <1>2, <1>3 DEF Down
<1>4. ASSUME Start \/ Reset \/ Outage \/ UNCHANGED supVars PROVE Placed
  BY <1>1, <1>4 DEF Start, Reset, Goto, Outage, supVars
<1>5. ASSUME Open PROVE Placed
  BY <1>5 DEF Open
<1>6. ASSUME OpenFail \/ Signal PROVE Placed
  BY <1>1, <1>3, <1>6 DEF OpenFail, Signal, Goto
<1>7. ASSUME NEW p \in Programs, ChildEnds(p) \/ ChildStarts(p) \/ ChildStops(p)
      PROVE  Placed
  BY <1>1, <1>7 DEF ChildEnds, ChildStarts, ChildStops, SetChild
<1>8. Placed
  BY <1>3, <1>4, <1>5, <1>6, <1>7 DEF SupNext, LauncherStep, ResetFail, Stopped, Lost
<1>9. UNCHANGED dbUp \/ dbUp' \in BOOLEAN
  <2>1. ASSUME NEW p \in Programs, ChildEnds(p) \/ ChildStarts(p) \/ ChildStops(p)
        PROVE  UNCHANGED dbUp
    BY <2>1 DEF ChildEnds, ChildStarts, ChildStops, SetChild
  <2>2. ASSUME Down PROVE UNCHANGED dbUp
    BY <2>2 DEF Down
  <2>3. ASSUME Start \/ Reset \/ Open \/ OpenFail \/ Signal \/ UNCHANGED supVars
        PROVE  UNCHANGED dbUp
    BY <2>2, <2>3, Zenon DEF Start, Reset, Open, OpenFail, Signal, Goto, supVars
  <2>4. ASSUME Outage PROVE dbUp' \in BOOLEAN
    BY <2>4, Zenon DEF Outage
  <2> QED
    BY <2>1, <2>2, <2>3, <2>4, Zenon DEF SupNext, LauncherStep, ResetFail, Stopped, Lost
<1>10. tries' \in 0..OpenTries /\ starts' \in 0..MaxStarts /\ outages' \in 0..MaxOutages
  BY CountersMove, LimitsAreNatural DEF SupTypeOK
<1> QED
  BY <1>8, <1>9, <1>10, CountersMove, Zenon DEF SupTypeOK

LEMMA CollectionTyped ==
  ASSUME CollectionTypeOK, RunsInv, [Next]_vars
  PROVE  CollectionTypeOK'
<1> USE DEF CollectionTypeOK
<1>1. RunTyped'
  BY RunsInvNext DEF RunsInv
<1>2. stage' \in {"idle", "subs", "list", "store", "done"}
  BY StepsOfCollection DEF Authenticate, ListSubscriptions, List, StoreRun, CollectorGone,
     RunsWiped, TenantChanges, Alter, colVars
<1>3. changes' \in 0..MaxChanges
  <2>1. UNCHANGED changes \/ (changes < MaxChanges /\ changes' = changes + 1)
    BY StepsOfCollection, Zenon DEF Authenticate, ListSubscriptions, List, StoreRun,
       CollectorGone, RunsWiped, TenantChanges, Alter, Stays, colVars
  <2> QED
    BY <2>1, CollectionAssumption
<1> QED
  BY <1>1, <1>2, <1>3 DEF RunTyped

(***************************************************************************)
(* Every variable of a deployment keeps its type, and with it its bound:   *)
(* the attempts to reach Postgres (cmd/govlensd), the attempts of a call   *)
(* and the requests it leaves under way (collect/rest.go), the runs and    *)
(* the sources recorded in them (collect/collect.go).                      *)
(***************************************************************************)
THEOREM PlatformTypeCorrect == Spec => []PlatformTypeOK
<1> DEFINE IInv == BoundInv /\ RunsInv /\ SupTypeOK /\ CollectionTypeOK
<1>1. Init => IInv
  <2>1. ASSUME Init PROVE SupTypeOK
    <3>1. 0 \in 0..OpenTries /\ 0 \in 0..MaxStarts /\ 0 \in 0..MaxOutages
      BY LimitsAreNatural
    <3> QED
      BY <2>1, <3>1 DEF Init, SupInit, SupTypeOK, NoChild
  <2>2. ASSUME Init PROVE CollectionTypeOK
    <3>1. RunTyped
      BY <2>2, RunsInvInit DEF RunsInv
    <3> QED
      BY <2>2, <3>1, CollectionAssumption
         DEF Init, CollectionInit, CollectionTypeOK, RunTyped
  <2> QED
    BY <2>1, <2>2, BoundInvInit, RunsInvInit
<1>2. IInv /\ [Next]_vars => IInv'
  <2>1. ASSUME [Next]_vars
        PROVE  [SupNext]_supVars
    BY <2>1 DEF Next, Supervision, Calling, Collecting, vars
  <2> QED
    BY <2>1, BoundInvNext, RunsInvNext, SupervisorTyped, CollectionTyped
<1>3. IInv => PlatformTypeOK
  BY RestAssumption
     DEF PlatformTypeOK, BoundInv, RestInv, PipeBounded, CallersTyped, RestTypeOK, PipeHasBegun
<1> QED
  BY <1>1, <1>2, <1>3, PTL DEF Spec
=============================================================================
