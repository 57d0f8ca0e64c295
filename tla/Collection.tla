----------------------------- MODULE Collection -----------------------------
(***************************************************************************)
(* One run of the collector in detail (internal/collect/collect.go): the   *)
(* tenant is read listing by listing while people change it, listings      *)
(* fail, and what was gathered is stored in one transaction.  Module       *)
(* Collector takes the reading as one step.                                *)
(*                                                                         *)
(* A place is something that is listed with one (paged) call: a            *)
(* subscription's role assignments, the conditional access policies or the *)
(* directory roles.  A listing is whole or an error: pagedValues gives up  *)
(* all pages when one of them fails.                                       *)
(***************************************************************************)
EXTENDS Naturals

CONSTANTS
  CSubs,       \* subscriptions of the tenant
  EntraLists,  \* the listings of Entra an instance looks at
  Items,       \* assignments and policies that may exist
  AtStart,     \* those that exist at the start
  Places,      \* Places[t]: the places whose listing shows t; an inherited
               \* assignment shows in several subscriptions
  MaxChanges   \* changes people make: bounds the model

KindOf(place) == CASE place = "policies"  -> "ca_policy"
                   [] place = "directory" -> "entra_role"
                   [] OTHER               -> "rbac"

AllPlaces == CSubs \cup EntraLists

ASSUME CollectionAssumption ==
  /\ EntraLists \subseteq {"policies", "directory"}
  /\ Places \in [Items -> (SUBSET AllPlaces) \ {{}}]
  /\ \A t \in Items, p, q \in AllPlaces :
       p \in Places[t] /\ q \in Places[t] => KindOf(p) = KindOf(q)
  /\ AtStart \subseteq Items
  /\ MaxChanges \in Nat

VARIABLES
  stage,    \* "idle", "subs", "list", "store" or "done"
  left,     \* places still to be listed
  run,      \* what this run has gathered
  newer,    \* the latest stored run
  older,    \* the one before
  tenant,   \* items that exist
  altered,  \* items whose role or state is not the one they had at the start
  changes

colVars == <<stage, left, run, newer, older, tenant, altered, changes>>

Sources == {"rbac", "ca_policy", "entra_role"}

(***************************************************************************)
(* A run holds what was seen, with the text of its role (of a policy: its  *)
(* state), and the sources it was seen by.  The text is the one it had at  *)
(* the start, the other one (altered), or an id: the name of an Azure role *)
(* is looked up apart and may not be found (unnamed).                      *)
(*                                                                         *)
(* As history, the run being gathered has the places whose listing worked, *)
(* the items that existed all the time it was read and those that existed  *)
(* at some time, a stored run the items it had to hold, and both what they *)
(* hold and somebody altered since (touched).                              *)
(***************************************************************************)
GatheredRun ==
  [seen : SUBSET Items, altered : SUBSET Items, unnamed : SUBSET Items,
   touched : SUBSET Items, sources : SUBSET Sources,
   covered : SUBSET AllPlaces, always : SUBSET Items, sometime : SUBSET Items]

StoredRun ==
  [seen : SUBSET Items, altered : SUBSET Items, unnamed : SUBSET Items,
   touched : SUBSET Items, sources : SUBSET Sources, sure : SUBSET Items]

EmptyRun(there) ==
  [seen |-> {}, altered |-> {}, unnamed |-> {}, touched |-> {}, sources |-> {},
   covered |-> {}, always |-> there, sometime |-> there]

NoRun == [seen |-> {}, altered |-> {}, unnamed |-> {}, touched |-> {},
          sources |-> {}, sure |-> {}]

\* In this run t could not be seen, since its own subscriptions failed while
\* another one was listed.
Hidden(t, r) == Places[t] \cap r.covered = {} /\ CSubs \cap r.covered # {}

CollectionTypeOK ==
  /\ stage \in {"idle", "subs", "list", "store", "done"}
  /\ left \subseteq AllPlaces
  /\ run \in GatheredRun /\ newer \in StoredRun /\ older \in StoredRun
  /\ tenant \subseteq Items /\ altered \subseteq Items
  /\ changes \in 0..MaxChanges

CollectionInit ==
  /\ stage = "idle" /\ left = {}
  /\ run = EmptyRun({}) /\ newer = NoRun /\ older = NoRun
  /\ tenant = AtStart /\ altered = {}
  /\ changes = 0

Stays == UNCHANGED <<newer, older, tenant, altered, changes>>

-----------------------------------------------------------------------------
\* New: the tokens; without them the process ends.
Authenticate ==
  /\ stage = "idle" /\ stage' = "subs"
  /\ run' = EmptyRun(tenant)
  /\ UNCHANGED left /\ Stays

\* Without the list of subscriptions the process ends; it may be empty.
ListSubscriptions ==
  /\ stage = "subs" /\ stage' = "list"
  /\ \E subs \in {CSubs, {}} : left' = subs \cup EntraLists
  /\ UNCHANGED run /\ Stays

\* Subscriptions first, then the policies, then the directory roles.
IsNext(place) ==
  /\ place \in left
  /\ place = "policies" => left \cap CSubs = {}
  /\ place = "directory" => left = {"directory"}

Listed(place) == {t \in tenant : place \in Places[t]}

\* Its items that no other listing of this run has shown: their roles are
\* looked up, or known from the listing itself if they are not Azure's.
NewIn(place) == Listed(place) \ run.seen

LookedUp(place) == IF KindOf(place) = "rbac" THEN NewIn(place) ELSE {}

\* The run with this listing; the role names in lost were not found.
Gathered(place, lost) ==
  [run EXCEPT !.seen = @ \cup Listed(place),
              !.altered = @ \cup (NewIn(place) \cap altered),
              !.unnamed = @ \cup lost,
              !.sources = @ \cup {KindOf(place)},
              !.covered = @ \cup {place}]

\* A mutant: the source of a listing is recorded also when it failed.
ListRecorded(place) ==
  /\ stage = "list" /\ IsNext(place)
  /\ \/ \E lost \in SUBSET LookedUp(place) : run' = Gathered(place, lost)
     \/ run' = [run EXCEPT !.sources = @ \cup {KindOf(place)}]
  /\ left' = left \ {place}
  /\ stage' = IF left' = {} THEN "store" ELSE "list"
  /\ Stays

\* A listing that fails is logged and skipped, and so is its source, unless
\* another subscription could be listed.
List(place) ==
  /\ stage = "list" /\ IsNext(place)
  /\ \/ \E lost \in SUBSET LookedUp(place) : run' = Gathered(place, lost)
     \/ UNCHANGED run
  /\ left' = left \ {place}
  /\ stage' = IF left' = {} THEN "store" ELSE "list"
  /\ Stays

\* ReplaceRun, one transaction.
StoreRun ==
  /\ stage = "store" /\ stage' = "done"
  /\ older' = newer
  /\ newer' = [seen |-> run.seen, altered |-> run.altered, unnamed |-> run.unnamed,
                touched |-> run.touched, sources |-> run.sources,
                sure |-> {t \in run.always : ~Hidden(t, run)}]
  /\ run' = EmptyRun({})
  /\ UNCHANGED <<left, tenant, altered, changes>>

\* The process ends, at its end or before.
CollectorGone ==
  /\ stage' = "idle" /\ left' = {} /\ run' = EmptyRun({})
  /\ UNCHANGED <<newer, older, tenant, altered, changes>>

\* The database is reset.
RunsWiped ==
  /\ newer' = NoRun /\ older' = NoRun
  /\ UNCHANGED <<stage, left, run, tenant, altered, changes>>

\* Somebody adds or removes an item, perhaps while the tenant is being read.
TenantChanges(t) ==
  /\ changes < MaxChanges /\ changes' = changes + 1
  /\ tenant' = IF t \in tenant THEN tenant \ {t} ELSE tenant \cup {t}
  /\ run' = IF stage \in {"subs", "list"}
            THEN [run EXCEPT !.always = @ \ {t}, !.sometime = @ \cup {t}]
            ELSE run
  /\ UNCHANGED <<stage, left, newer, older, altered>>

Touch(r, t) == IF t \in r.seen THEN [r EXCEPT !.touched = @ \cup {t}] ELSE r

\* Somebody switches a policy or renames a role.
Alter(t) ==
  /\ changes < MaxChanges /\ changes' = changes + 1
  /\ altered' = IF t \in altered THEN altered \ {t} ELSE altered \cup {t}
  /\ run' = Touch(run, t) /\ newer' = Touch(newer, t) /\ older' = Touch(older, t)
  /\ UNCHANGED <<stage, left, tenant>>

CollectorStep ==
  \/ Authenticate \/ ListSubscriptions \/ StoreRun
  \/ \E place \in left : List(place)

-----------------------------------------------------------------------------
(***************************************************************************)
(* store.Drift, the page that compares the latest two runs: only kinds     *)
(* whose source both of them recorded.  What is in both runs is reported   *)
(* as changed when the texts of its role differ.                           *)
(***************************************************************************)
KindOfItem(t) == CHOOSE k \in {KindOf(p) : p \in Places[t]} : TRUE

\* A mutant: only the latest run has to have the source.
ComparableToNewer(t) == KindOfItem(t) \in newer.sources

Comparable(t) == KindOfItem(t) \in newer.sources \cap older.sources

PageAdded   == {t \in newer.seen \ older.seen : Comparable(t)}
PageRemoved == {t \in older.seen \ newer.seen : Comparable(t)}

RoleIn(r, t) == CASE t \in r.unnamed -> "id"
                  [] t \in r.altered \ r.unnamed -> "altered"
                  [] OTHER -> "first"

PageChanged ==
  {t \in newer.seen \cap older.seen : Comparable(t) /\ RoleIn(newer, t) # RoleIn(older, t)}

(***************************************************************************)
(* What the page reports really changed: an item reported as removed was   *)
(* missing at some time while the latest run was read, one reported as     *)
(* added was missing while the previous one was, and one reported as       *)
(* changed was altered since the previous run saw it.  Two exceptions: the *)
(* assignments of a subscription that could not be listed although another *)
(* one could look removed and then added, and those whose role name was    *)
(* not found in one of the two runs look changed.                          *)
(***************************************************************************)
PageReportsChanges ==
  /\ PageRemoved \cap newer.sure = {}
  /\ PageAdded \cap older.sure = {}
  /\ PageChanged \subseteq older.touched \cup older.unnamed \cup newer.unnamed

(***************************************************************************)
(* The run about to be stored tells the truth about the time it was read:  *)
(* what it holds existed, what existed all along is held if any place that *)
(* shows it was listed, and a source is recorded only if a listing of it   *)
(* worked.                                                                 *)
(***************************************************************************)
RunIsTruthful ==
  stage = "store" =>
    /\ run.seen \subseteq run.sometime
    /\ \A t \in run.always : Places[t] \cap run.covered # {} => t \in run.seen
    /\ run.sources = {KindOf(p) : p \in run.covered}
=============================================================================
