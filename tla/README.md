# GovLens in TLA+

A verification project for GovLens: TLA+ modules of its access lifecycle, TLC
configurations that check them on small instances, and proofs of the properties
that matter most. Paths are relative to the root of the repository.

## 1. The system

GovLens records who has access in an Azure tenant and runs a review queue for
changes to it. Four processes, started and restarted by a fifth, share one Postgres
database and the tenant:

| component | state it keeps | operations | talks to |
|---|---|---|---|
| web application (`cmd/web`, `internal/web`) | the roles of a user while one of its requests is handled; writes `access_requests`, policy tables, users | submit a grant request, mark an assignment for removal, decide (grant, revoke, drift; single and bulk), admin policy, module enablement, probe of the service principal | Postgres, ARM (the probe) |
| HTTP client (`internal/collect/rest.go`) | the attempt of the call it makes | GET and POST, PUT with retries, DELETE without | ARM and Graph |
| grant worker (`cmd/grantworker`) | its list of the cycle, the ident of the last PUT | probe, provision approved grants, sweep expired ones | Postgres, ARM (create only) |
| remediator (`cmd/remediator`) | its list, the policy it read, the Global Administrator count | delete what an approved removal names, behind a safety gate | Postgres, ARM and Graph (delete only) |
| collector (`cmd/collect`, `internal/collect`) | the run in memory | read the tenant, store a run, reconcile drift | Postgres, ARM and Graph (read only) |
| supervisor (`cmd/govlensd`, `internal/config`) | child processes | prepare the database, start and restart the four, every collector run on an interval, stop on a signal | processes, Postgres |
| store (`internal/store`) | `access_requests`, `runs` and their children, policy, users | the SQL statements of all of the above | Postgres |
| ingest (`cmd/ingest`, `internal/ingest`) | none | parse the output of AzGovViz, Maester, EntraExporter into a run | files, Postgres |
| MCP server (`cmd/mcp`) | none | read-only queries | Postgres |
| authentication (`internal/auth`, `internal/web/auth.go`) | sessions in signed cookies | OIDC, Easy Auth, development login; roles by scope | identity provider |

The processes never call one another: they meet in `access_requests` (one row per
request, written by every process), in the stored runs and in the tenant. What is
hard follows from that:

* every worker reads a list and acts on it while the other processes write;
* an Azure call and the statement that records it are two steps, and a crash, a
  lost response or a failed statement falls between them;
* most errors of those statements are dropped, and the worker goes on;
* runs lag behind the tenant, may be incomplete, are read while the tenant changes,
  and are compared pairwise;
* a handler of the web application reads roles and policy before it writes, while
  administrators change both, and a form may be submitted long after it was loaded;
* what is guarded, and what GovLens made itself, is told by text: principal, role and
  scope as a form, a run or another row spelled them, which need not be what the
  tenant calls the assignment;
* one page decides the rows of the others too, and does less than theirs;
* a call to Azure may be served late or twice, and processes and Postgres come and
  go under everything else;
* time passes on its own and competes with reviews.

What makes each component correct:

* **table**: one open request per assignment; rows go through the documented life;
* **review**: a decision is made once and stays on the record; whoever made it had
  the authority that the page's policy asked for, and the page of grants gives no
  more than the tier allows;
* **administration**: roles are only handed out by those who administer their scope;
* **grant worker**: access only with an approval, at most one assignment per
  request, an expired grant always has a removal;
* **remediator**: nothing is removed without a reason, nothing guarded is removed,
  the number of Global Administrators stays above the floor;
* **collector**: what appears out of band is reviewed unless it passes for a grant;
  what was always there is not reported, nor what GovLens created itself as long as
  its names resolve;
* **drift page**: what it reports really changed;
* **HTTP client**: a call is about one resource whatever is retried, one that ends
  well has had its effect while it was made, and every call ends;
* **supervisor**: what was stored stays, processes come back, starting and stopping end;
* **all**: no approved request is forgotten, what is time-bound ends.

`PROJECT.json` lists, under "hazards", where in the code each of these could go
wrong, with the properties that would notice.

## 2. The modules

There are three compositions. `GovLens` is the life of requests and access through
all processes; `Portal` is the web application with its users and administrators;
`Platform` is a deployment under its supervisor, down to single HTTP calls and
listings. They share the code, not variables: each looks at another level of it
and takes the others' subject in one step (last part of this section).

| module | models | variables |
|---|---|---|
| `Faults` | the environment's failures, bounded | `faults`, `losses` |
| `AccessRequests` | the table, its partial unique index, the statements and lists of `internal/store` | `req` |
| `Azure` | role assignments: PUT, DELETE, people in the portal | `live`, `origin` |
| `Policy` | whether the role is requestable, how each text is guarded | `requestable`, `guard` |
| `ReviewQueue` | the handlers of `internal/web` on the queue | |
| `GrantWorker` | `runCycle` of `cmd/grantworker` | `gwPc`, `gwBatch`, `gwIdent` |
| `Remediator` | `runCycle` of `cmd/remediator` | `rmPc`, `rmBatch`, `rmGuard`, `rmAdmins` |
| `Collector` | `cmd/collect`: Collect, ReplaceRun, ReconcileDrift | `colPc`, `found`, `newer`, `older` |
| `GovLens` | all of them interleaved, time, fairness | |
| `Access` | roles of users, the middleware that resolves them, handing them out (`internal/auth`, `web/auth.go`) | `roles`, `calling`, `granted`, `edits` |
| `Tiering` | `ClassifyTier`, the catalog and its overrides, tier policies, the length of an approval | `catalog`, `seeded`, `policy` |
| `Readiness` | the gates of self-service and the administration page | `module`, `configured`, `verified`, `optIns` |
| `Intake` | submissions, and the decision handlers of the three pages, in steps | `asks`, `typePolicy`, `page`, `reading`, `ruling`, `unread` |
| `Portal` | those four together, and what is promised of decisions | `heldGrants`, `heldPolicies` (history) |
| `Rest` | the retrying HTTP client and what Azure and the network do to its requests | `phase`, `current`, `attempt`, `pipe`, `reply`, `begun`, `present`, `outcome`, `happened` (history) |
| `OneShot` | the abstract call that callers rely on | `current`, `happened`, `begun`, `present`, `outcome` |
| `Supervisor` | `cmd/govlensd` and the container around it, Postgres coming and going | `config`, `launcher`, `tries`, `child`, `dbUp`, `starts`, `outages` |
| `Collection` | a run of the collector listing by listing, `ReplaceRun`, the drift page | `stage`, `left`, `run`, `newer`, `older`, `tenant`, `altered`, `changes` |
| `Platform` | those together, fairness, what is promised of a deployment | |
| `RequestLifecycle` | the abstract life of a request, from the comment in `schema.sql` | |
| `GovLensProperties` | what is promised | |
| `GovLensInvariant` | the moves of a row, the inductive invariants, the conditions some of them need | |
| `GovLensTypeProofs`, `GovLensSafetyProofs` | `GovLens`: types; access and removals rest on decisions | |
| `GovLensTableProofs` | `GovLens`: which requests name which assignments, and by which text | |
| `GovLensWorkerProofs` | `GovLens`: what the workers' claims, the refinement of `RequestLifecycle`, the floor and the guards are worth | |
| `GovLensDriftProofs` | `GovLens`: what the collector reports and does not report | |
| `PortalProofs` | the proofs about `Portal` | |
| `PlatformProofs` | the proof that `Rest`, run by `Platform`, implements `OneShot` | |
| `CollectionProofs` | the proofs about runs, the drift page, the stored runs and types in `Platform` | |
| `MCWorkers`, `MCGrants`, `MCDrift`, `MCWhole`, `MCExpiry`, `MCPortal`, `MCPlatform`, `MCRuns` | the instances TLC checks | |

How state and steps correspond to the code, in `GovLens`:

* **A row** of `access_requests` keeps `action`, `target_ident`, `status`,
  `decided_by`, where `expires_at` lies with respect to now (`none`, `ahead`, `past`),
  and `label`: the text of principal, principal type, role and scope it was inserted
  with. The kind belongs to the assignment. Idents and labels are model values,
  `NoTarget` is the empty ident, ids are handed out in order.
* **Texts.** `Label[t]` is what the tenant calls assignment `t` when its names are
  resolved, `RawLabel[t]` when they are not and ids stand in for them
  (`internal/collect/graph.go:180-202`, `arm.go:180-184`). A grant request has the
  text its user's session gave it (`internal/web/grants.go:213`), a member of `Asked`;
  the tenant may spell the same principal otherwise (`Spelling`). `Forms` are the
  texts that pages of earlier runs have for an assignment. Rows copy from one
  another: the removal of an expired grant or of rejected drift has the text of
  its row, drift has that of the run.
* **A handler** of the web application is one step: it reads and then writes one
  conditional statement (or one transaction), and only that changes the queue. An
  outcome without a write is no step. A bulk decision is a sequence of single
  ones. Ids come from the page that lists them, which may be stale. The handler
  of marks takes ident and text from the form (`internal/web/revoke.go:25-66`) and
  checks the guards on that text. A form with another kind than the
  assignment's leads to a lookup that fails, which is `RmUnverified`.
* **The page of removals** decides any pending row: `/revoke/decide` and the statement
  behind it go by id and status (`internal/web/revoke.go:145-170`,
  `internal/store/revoke.go:224-253`). A grant it approves gets no expiry; drift it
  approves is listed by no worker, and drift it rejects gets no removal.
* **A worker** takes one step per statement and per Azure call; `gwPc`, `rmPc` and
  `colPc` say which comes next, `gwBatch` and `rmBatch` hold what is left of the
  list, worked through in the order of the ids. The gate of the remediator, up to
  its first write, is one step, because only the lookup in it depends on what
  others do; reading the policy and counting the Global Administrators are steps
  of their own, since the cycle goes on with what it read. In the same way the
  grant worker's `IsGrantable` and the write that follows it are one step.
* **The guards** are rules about text, so each label has one (`guard`). The
  remediator's gate goes by the text of the row (`cmd/remediator/main.go:136-160`),
  its floor by the row's role and kind.
* **Dropped errors**: `SetRequestStatus`, `SetGrantProvisioned` and
  `MarkGrantExpired` may not happen ("db"), and the worker goes on as the code does.
  The policy reads of the handlers and of the remediator answer "not guarded" when
  they fail; `IsGrantable` answers no.
* **Azure calls** succeed, are refused, or take effect although the caller sees an
  error ("lost"). A PUT draws a fresh name; `origin` remembers for which request,
  a history variable only properties read. An error after which nothing happened is
  a refusal, whatever its cause.
* **A crash** empties the process's memory; the supervisor starts it again. A
  collector whose store statement fails ends too, which is the same step.
* **A run** is the set of assignments seen, those of them whose names were not
  resolved (`raw`), and the sources recorded. One kind may be missing with its source
  ("source"), or some role assignments with their subscription, which leaves the
  source recorded ("sub"), or names ("names").
* **Drift**: `ReconcileDrift` compares the last two runs and opens a request for
  everything new that is not attributed to GovLens: no request names it, and no
  grant that is approved, in flight or granted has its text
  (`internal/store/drift_requests.go:50-63`). So an assignment somebody adds with the
  text of a grant is never reported, and one of the worker's own whose names do not
  resolve to the request's may be.

What `GovLens` assumes: one tenant; one instance of each process, as `govlensd`
starts them; workers with `-execute` and without `-only`; a collector that reads
the tenant at one moment; the first run stored; submissions with an object id; the
collector without its option to pseudonymize names.

In `Portal`:

* **An HTTP request** of a user arrives (`Enter`: the middleware resolves the grants,
  once), is handled, and ends. A decision is three steps, with everything else in
  between: arrival, reading the row and the policy and checking the user
  (`ReadForDecision`), the conditional UPDATE (`WriteDecision`); a bulk decision
  stays in its handler and goes on to the next row. Each of the three pages has a
  handler of its own (`page`): that of grants goes by the tier and bounds the length,
  that of removals takes any row, goes by the principal type and says nothing of an
  end, that of drift goes by no policy. Other handlers read and write
  in one step after the arrival. A user is in one handler at a time.
* **A role definition** is a set of kinds of actions, as far as `ClassifyTier` tells
  them apart; the collector may see any of `Definitions` at any time, so a role
  changes its tier while requests for it wait.
* **Reads that fail**: the tier policy is then a privileged one (fail-closed), the type
  policy then asks for scoped approval (`internal/store/protected.go:90-94`), and the
  count of unacknowledged tiers is then zero (`internal/store/grants.go:262-267`).
  `unread` remembers the first two; `TiersAck` is both answers of the third.
* **Tier rows** do not exist until the administration page is loaded (`seeded`); no
  handler asks whether they do. 0 is NULL: no default, no maximum. A request has
  `ends` and `days` in place of a timestamp or NULL.
* **Days** are numbers and are multiplied as the code does it: `Duration` wraps
  where 64 bits of nanoseconds do (106752 days), after the clamping.
* **The verification** of the service principal is only valid or not; a day passing
  is `ProbeLapses`, and the worker probes when it likes. Which principal a probe
  was about is not in the model.
* **A scope** is a subscription, or `Global`; a resource group counts as its
  subscription, as `SubscriptionOfScope` takes it.
* **A submission** needs no form and no open module: `requestSubmit` reads role,
  subscription and tier in one step, and nothing else (`internal/web/grants.go:156-221`).
* `heldGrants` and `heldPolicies` are history: what was true at some time since the
  handler started. They let the properties say what a decision may rest on without
  asking that reading and writing be one step.

In `Platform`:

* **The launcher** (`launcher`) resets the database, waits for Postgres (`tries`) and
  runs a process for every enabled module (`child`). `log.Fatal`, a signal before
  there are processes, and the container being killed are the same step (`Down`);
  the container may start it again (`Start`). Waiting three seconds, and waiting for
  the next tick, are both "waiting".
* **A call** is made by a worker that runs. `pipe` counts the requests of each call
  that were sent and not yet served: Azure serves any of them at any time, also
  after the caller timed out, and the answer may be lost. `TimeOut` is a network
  error or 90 seconds; a PUT is repeated (`Wake`) with the body and name of the call,
  a DELETE is not. A DELETE of what is gone is 404 and counts as done. The remediator
  deletes what was there or what the grant worker has a call for, so both workers
  may call for one assignment, and a late PUT may create again what a DELETE removed.
* **The collector** lists place by place (`left`); each listing sees the tenant at the
  moment it is made, or fails and is skipped. `run` carries, as history, what
  existed all the time it was read and what existed at some time. An item has a text
  (its role, or a policy's state) that people change (`altered`) and that a run may
  not find (`unnamed`); the drift page reports what is added, removed and changed.
* Processes that end take their call or run with them (`Killed`, `CollectorGone`).
* A configuration always runs `web` in the code; an instance may list other
  processes alone, since only the two workers meet in this module.

How the compositions meet: `GrantWorker` and `Remediator` make an Azure call in one
step that is done, refused or lost; `OneShot` is that view (with the effect perhaps
later than the error, or once more, which `GovLens` does not look at), and `Rest`
implements it.
`Collector` reads the tenant in one step; `Collection` says what a run read over
time still guarantees. `GovLens` assumes that processes are started again;
`Supervisor` shows it. `ReviewQueue` decides in one step and under any policy;
`Intake` says who, on which page and under which.

## 3. What TLC checks

| run | shows | bounds |
|---|---|---|
| `Workers` | `TypeOK`, `OneAssignmentPerGrant`, `GlobalAdminFloor`, `FollowsLifecycle` | 2 rows, 2 idents to draw, 2 Global Administrators with floor 1 that old forms also call by a break-glass name, 2 crashes or lost responses, tier and guards change |
| `Live` | `AccessNeedsApproval`, `ExpiredHasRevoke`, `RemovalAuthorised`, and under fairness `ApprovedIsTakenUp`, `ExpiryIsSwept` | 2 requests, 5 rows, 2 idents, 1 crash, lost response or failed statement |
| `Whole` | `OutOfBandReviewed`, `OwnGrantsAreNotDrift`, `ExpiredHasRevoke`, `GuardedNeverRevoked` | every process, 3 rows, 1 request for the text of the worker's assignment or of the portal's, every guard of the latter, 1 incomplete listing |
| `DriftFaults` | `NoPhantomDrift`, `OneOpenRowPerTarget`, `RemovalAuthorised` | a conditional access policy that was always there, an assignment that comes and goes and has two texts, 2 rows, 1 crash, missing source, failed statement or unresolved name |
| `Portal` | `TypeOK`, `DecidedWithAuthority`, `RolesAreDelegated`, `GrantedWithinTier` | a configured administrator and a user with a scoped admin row and a tenant-wide approver row, 1 subscription, 1 role with 3 definitions, 1 policy to save, 1 request, 2 administrative changes, days 0 and 150000 |
| `Platform` | `PlatformTypeOK`, `CallIsOneShot`, `StoredIsKept`, `StartingEnds`, `ProcessesComeBack`, `ShutdownCompletes`, `CallsEnd` | both workers, or the collector or the web application alone, every `init`, 2 starts, 1 outage, 2 attempts to reach Postgres, 2 attempts of a call, 1 name to draw, 2 subscriptions, 1 change of the tenant |
| `Runs` | `RunIsTruthful`, `PageReportsChanges` | the collector alone, 2 subscriptions and the policies, a direct and an inherited assignment and a policy, 1 change of the tenant |

Five more runs end in a violation (section 4). The largest instances have between half a
million and one and a half million states.

`FollowsLifecycle` is a refinement: the detailed system implements
`RequestLifecycle` under the mapping of the columns. `CallIsOneShot` is one too: `Rest`,
under everything else `Platform` does, implements `OneShot`.

**Why the bounds are enough.** Two requests make a batch of two, so that a row
changes while another one is worked on, or a grant and its removal; `Live` has
a removal for each of two grants. Two idents are one for a
second PUT of a request that should have had one. Two failures are a claim whose
response is lost and a crash, which is what it takes to list a request again. Two
administrators and a floor of one make the second removal of a batch the one that
must be refused, and after a lost response the one that is one too many. Two runs
are all `ReconcileDrift` compares; an assignment that comes and goes and comes back
is new twice. `MaxRequests` bounds the table and `MaxIntake` leaves ids for the rows
the workers insert; at the bound inserts stop, so nothing that depends on one more
row is claimed. Where a row cannot be inserted, the system may stop; deadlock is
still checked, because time, probes and policies leave a step in every run. What two
failures of any kind do to `AccessNeedsApproval`, `ExpiredHasRevoke`,
`RemovalAuthorised` and `OneOpenRowPerTarget` is proved and was not given a larger
instance.

In `Portal` one request is enough, since every property is about one decision;
what matters is that two people act on it: one decides while the other, or the
same user's next administrative request, changes roles or policy under the
handler. Two changes are one that takes away what the first step checked and one
that gives something else. The policy to save has a default above its maximum and
tenant-wide approvers, where the defaults of low and medium tiers have scoped ones;
150000 days exceed the range of a duration. In `Platform` two starts are a container
started again after any failure; two attempts make one retry, which is where a second
request and a late first one meet; one name is enough for the remediator to delete
what the grant worker made and for a late PUT to make it again. Two subscriptions are
one that fails while the other is listed; stored runs are compared pairwise and two
are enough. The collector shares nothing with the workers there, so they run in
different configurations. A call is not made again while an earlier request of it is
under way (`MaxLate`). `Platform` may stop, when the container is not started again:
`CHECK_DEADLOCK FALSE`.

**Conditions under which a property is checked.** Some hold only while one kind of
failure does not happen, and the run leaves that kind out on purpose. The proofs
make the same conditions explicit (section 5).

* `OneAssignmentPerGrant`, `FollowsLifecycle`: no failed statements
  (`StatementsSucceed`): the claim that is not written is the protection.
* `NoPhantomDrift`: listings fail as a whole (`ListingsFailAsAWhole`).
* `OutOfBandReviewed`: the collector completes (`CollectorCompletes`): no crash, no
  failed statement, no missing source. It is about what is never reported, and names
  the way around it: an assignment with the text of an approved grant passes for it.
* `OwnGrantsAreNotDrift`: no failed statements, no lost responses, and names that
  agree (`NamesAgree`: names resolve to what requests call them, forms agree with
  the tenant). With a lost PUT, a run can see the assignment of a grant in flight that
  then ends `failed`: no later run reports it (`internal/store/drift_requests.go:54-63`).
* `ExpiredHasRevoke`: names that agree. Otherwise a grant of the worker's own may
  be reported as drift, and the pending drift request keeps its removal out.
* `GuardedNeverRevoked`: policy constant and readable (`PolicyIsStable`), names that
  agree: a text that is not the assignment's is not guarded by its rules.
* `GlobalAdminFloor`: enough administrators at the start, whom nobody removes in the
  portal and no form calls something else (`FloorAtStart`). With a lost DELETE the
  count is not lowered (`cmd/remediator/main.go:214-225`); the property says what
  remains of the floor, one less per lost response (`losses`, a history variable of
  `Faults`).
* `DecidedWithAuthority` asks only for scoped authority where the read of the policy
  failed (`unread`); `GrantedWithinTier` is about the page of grants.
* `PageReportsChanges` excepts the assignments of a subscription whose listing failed
  while another one's did not: the source is recorded, so they look removed, and
  added in the next run (`internal/collect/collect.go:88-97`). It also excepts, among
  what looks changed, assignments whose role name was not found in one of the two
  runs (`internal/collect/arm.go:180-184`, `internal/store/queries.go:273-295`).
* `ApprovedIsTakenUp` is about grants and removals: drift approved on the page of
  removals is not taken up by anybody.

**Fairness** (`FairSpec`, runs `Live` and `LateExpiry`). The supervisor restarts a
process that ends and each one loops on its interval, so the next step of every
worker and of the collector is weakly fair. The probe of the service principal
succeeds again and again (strong fairness of `ProbeOk`): a worker that never has
its permission provisions nothing. Time passes. Nothing makes people act, and no
Azure call or statement is assumed to succeed; failures are bounded.

In `Platform` the launcher's own steps and the restarting and stopping of each
process are weakly fair: they are timers and goroutines that only wait for time,
the context or a killed process. The caller's steps are weakly fair, because the
client gives up after 90 seconds and a backoff is a timer. Nothing is assumed of
the container, of Postgres coming back, or of Azure ever answering.

## 4. Where the code and its documentation disagree

Five runs end in a violation; each states what the documentation says.

* `LateExpiry`: the grant worker stops after the PUT and before the statement that
  records it. The row stays `processing`, without an ident; the sweep looks for
  `granted` rows, so the access outlives its expiry
  (`README.md:136`, `cmd/grantworker/main.go:111-119`).
* `UnreadGuards`: a policy list cannot be read; the error is dropped and nothing
  is guarded in this cycle (`README.md:134`, `docs/ARCHITECTURE.md:209`,
  `cmd/remediator/main.go:112-114`).
* `ExpiryQueue`: a pending request to revoke the assignment keeps the sweep's
  removal out; the grant is marked expired with the note that its revocation is
  queued, and rejecting the pending request leaves the access
  (`internal/store/grant_requests.go:244-264`, `cmd/grantworker/main.go:143-147`).
* `ClosedIntake`: a request is accepted while the module is disabled or a gate is
  red, because the handler that takes it never reads the readiness
  (`internal/web/grants.go:66-67`, `156-221`, `docs/SELF-SERVICE-GRANT.md:55-59`).
* `Ceiling`: a pending grant is approved on the page of removals, with no end,
  whatever the maximum of its tier (`docs/SELF-SERVICE-GRANT.md:137`,
  `internal/store/schema.sql:244`, `internal/web/revoke.go:145-170`,
  `internal/store/revoke.go:234-251`).

The models contain more of this kind, which the properties state as exceptions or
conditions instead:

* pending requests are decided while self-service is disabled, although
  `docs/SELF-SERVICE-GRANT.md:61` calls them frozen: `ReadForDecision` does not
  look at `module`, as the handlers do not;
* drift rejected on the page of removals has no removal, although its timeline says
  "Removal queued" (`internal/store/drift_requests.go:142-146`); drift approved there
  ends nowhere;
* "fail-closed" (`internal/web/admin.go:108`) does not hold of a type policy or a count
  of tiers that cannot be read (`internal/store/protected.go:90-94`,
  `internal/store/grants.go:262-267`);
* what somebody adds in the portal with principal, role and scope of a grant is never
  reviewed, and what the worker created under names that do not resolve to the
  request's is (`internal/store/drift_requests.go:50-63`);
* a guard is missed when the text of the row is not what the rule is about
  (`cmd/remediator/main.go:136-160`).

## 5. What is proved

With the TLA+ proof system, for every number of rows, assignments, texts, failures,
attempts and late requests, users, scopes and listings, and every choice of inputs:

* `TypeCorrect`: `Spec => []TypeOK`;
* `Invariance`: `Spec => []Inv`;
* `AccessIsApproved`: `Spec => []AccessNeedsApproval`;
* `RemovalsAreAuthorised`: `Spec => RemovalAuthorised`;
* `OpenRowsAreApart`: `Spec => []OneOpenRowPerTarget`, from `TableInvariance`;
* under conditions named in section 3, `ExpiryHasItsRemoval` (`[]ExpiredHasRevoke`, from
  `NameInvariance`), `GrantsCreateOnce` (`[]OneAssignmentPerGrant`, from
  `ClaimInvariance`), `TableFollowsLifecycle` (`FollowsLifecycle`, the refinement),
  `FloorIsKept` (`[]GlobalAdminFloor`; `FloorIsKeptWithoutLosses` where no response
  is lost), `GuardsAreKept` (`GuardedNeverRevoked`), `DriftIsNoPhantom`
  (`[]NoPhantomDrift`), `OwnGrantsAreKnown` (`[]OwnGrantsAreNotDrift`) and
  `OutOfBandIsReviewed` (`[]OutOfBandReviewed`);
* for `Portal`, `PortalTypeCorrect`, `DecisionsAreAuthorised`,
  `RolesAreHandedOutByAdmins` and `GrantsStayWithinTier`: `Spec` implies `[]TypeOK`,
  `DecidedWithAuthority`, `RolesAreDelegated` and `GrantedWithinTier`;
* for `Platform`, `PlatformTypeCorrect` and `CallsAreOneShot`: `Spec` implies
  `[]PlatformTypeOK` and `CallIsOneShot`;
* for `Platform`, `RunsAreTruthful`, `PagesReportChanges` and `StoredRunsStay`: `Spec`
  implies `[]RunIsTruthful`, `[]PageReportsChanges` and `StoredIsKept`.

So every safety property of the passing runs is a theorem.

**The argument for `GovLens`.** `AccessNeedsApproval` is not inductive: a PUT gives an assignment
an origin because of what the worker's list held, read steps before, and nothing
in the property says that a listed request is still approved. `Inv` adds that:

* `ProvisionsApproved`: while the worker provisions, everything in its list is a
  grant an approver approved, `approved` or `processing`;
* `SweepsRanOut`: while it sweeps, everything in its list is `granted` and past;
* `RemovesApproved`: everything in the remediator's list is an approved removal;
* `GrantsDecided`: a grant that was acted on has an approver's decision;
* `RemovalsJustified`: an approved removal has a reason that still stands.

The proof goes through the moves of one row (`RowMoves` in `GovLensInvariant`):
first every step of the system is shown to move every row by one of eight moves
(`StepMoves`), with a lemma per process; then the moves, and not the actions, are
shown to preserve each part of `Inv`. That the lists only shrink or are read anew
is `GwStepLists` and `RmStepLists`.

**The argument for the table.** The unique index guards the INSERTs, and only among
open rows that name an assignment; a grant gets its ident by an UPDATE the code does
not expect to collide. `TableInv` says why it does not open a second row: a grant
names nothing while it is open and its own ident afterwards (`GrantsNamedLate`), an
ident is drawn for one request (`RecordsItsOwn`), and nothing can have been seen or
named under it before its PUT (`SeenWasCreated`, `NamedWasCreated`). This needs no
condition: a failed statement leaves a row behind, not two, and whatever rows say of
their assignments does not matter.

**The argument for texts.** Where names agree, `NameInv` says that every row has the text
of the assignment it names (`RowsTellTheText`), and that runs are resolved
(`RunsResolved`). What a request created has the text the tenant has for it
(`CreatedAsAsked`), so the collector attributes it while its request is open, and no
drift request names it before its grant does (`RecordsUnnamed`, `NamedOnce`).
`ExpiredHasRevoke` rests on this: an open row in the way of the sweep's INSERT can then
only be a removal, and `SweptHasRemoval` says that between the INSERT and the mark no
removal request disappears.

**The argument for claims.** `OneAssignmentPerGrant` and the refinement hold when
no statement fails (`StatementsSucceed`, "db" not among the failures): with a claim
that was not written, a request is still `approved` after its PUT, and the next
cycle makes a second one, or a row goes from `approved` to its end without
`processing` (`cmd/grantworker/main.go:87-119`). `ClaimInv` relates the worker's
program counter to the statuses of its list (`GrantsClaimed`, `RemovalsClaimed`), and
every assignment ever created to a request that is claimed or finished
(`ClaimPrecedesPut`); crashes and lost responses are allowed. The refinement is then
one case per move of a row.

**The argument for the floor.** Conditions (`FloorAtStart`): enough Global
Administrators to begin with, people leave them alone, forms call them what they are;
GovLens itself creates none. `GlobalAdminFloor` is not inductive, because the gate
looks at a count taken earlier, and at the text of the row. `AdminRowsSaySo` says that
the text of a row about an administrator is right, also when names are not resolved
(directory role names come with the listing). `CountIsSafe` says the count never exceeds
what is there by more than the lost responses, and one more while a deletion is done
and not yet counted. Where none is lost (`ResponsesArrive`) that is zero and the floor
holds as it stands, whatever else fails.

**The argument for guards.** `GateHolds` needs `PolicyIsStable`: the copy of the cycle
is the policy only while nobody changes it and it can be read. It says that the row
in hand has an open text; `RowsTellTheText` makes that the assignment's.

**The argument for drift.** `NoPhantomDrift` follows from `OldIsSeenBefore`: an
assignment nobody can add again was in the earlier run if it is in the later one
and its source was recorded in both. That fails for an assignment whose
subscription alone was missed, hence `ListingsFailAsAWhole`. `OwnGrantsAreNotDrift`
needs that an assignment the worker created is attributed at any moment: by text
while its request is `processing`, by ident once it names it (`OwnAccountedFor`). A
statement that fails, a lost PUT or an unresolved name breaks exactly this.
`OutOfBandReviewed` adds that the run before was accounted for while the new one is
stored and compared (`RunsAccountedFor`), which a crash between storing and reconciling,
or a run without a source, breaks (`CollectorCompletes`); and that what was accounted
for once stays so, whatever becomes of the rows (`NamedStays`, `PassingStays`).

**The argument for `Portal`.** The handlers act on copies that others outdate: the
user's grants since the request arrived, the policy since the request was read.
`PortalInv` says what the copies are good for when they are used: `GrantsWereHeld`
for the user's, `RulingsStand` for the policy's, on each page the one that page goes
by, or what a failed read leaves. As in `GovLens`, the steps are first reduced to a few
moves (`StepMoves`, `DecisionMoves`), and requests are shown to keep their kind and
scope (`AsksAreKept`). `GrantsStayWithinTier` adds arithmetic: clamping comes before the
multiplication that may wrap, and wrapping never makes a duration longer.

**The argument for runs.** `RunIsTruthful` speaks of the run about to be stored;
`RunsInv` says the same of the run as it is gathered (`GatheredIsTruthful`), and of a
stored run that it holds what it had to (`HoldsItsOwn`) and that the texts it has are
those of the tenant but where somebody altered them since or names were not found
(`TextsAreKnown`). A kind has one source, and a run that has the source listed a place
that shows the item or missed only the item's own subscriptions (`SourceMeansListed`).
`StoredRunsStay` needs that a launcher which resets was told to, and has no processes yet
(`PreparesAlone`).

**The argument for calls.** A step maps to the abstract one under the identity
on the shared variables: the first `Begin` of a call is the abstract one, serving a
request is its effect or nothing, ending is ending, and retries stutter. What the
abstract call promises is weak on purpose: an effect may come again, or come after
another call undid it, since a late PUT may follow a DELETE of the same name; but a
call that ends well has had its effect while it was being made. `RestInv` carries that:
`OkIsDone` (an answer "ok" on its way tells that the call's effect `happened` since it
began), and only what was begun is under way (`PipeHasBegun`).

**The types.** Those of `GovLens` and `Portal` are inductive almost as they stand. In
`Platform` the number of requests under way is not: a request adds to it
whatever is there already. `PipeBounded` ties it to the attempts made (what late
requests the call found, and one per attempt), per phase of the caller.

**Assumptions**: those named in the modules that declare the constants
(`FaultsAssumption`, `TableAssumption`, `AzureAssumption`, `PolicyAssumption`,
`ReviewAssumption`, `RemediatorAssumption`, `TieringAssumption`, `IntakeAssumption`, `RestAssumption`,
`NoCallAssumption`, `CollectionAssumption`,
`SupervisorAssumption`, `AccessAssumption`): bounds are natural numbers, sets of assignments are
subsets of `Targets`, the names a PUT draws are not in use, no old form is about one, and `NoCall` is no
call, `Targets` is finite, a directory role's name comes with its listing,
what an administrator saves for a tier is acknowledged by it, and the places that
show one item are of one kind.
TLC evaluates them in every run.

The conditions (`StatementsSucceed`, `ResponsesArrive`, `ListingsFailAsAWhole`,
`CollectorCompletes`, `NamesAgree`, `FloorAtStart`, `PolicyIsStable`) are about constants:
the kinds of failures and changes an instance allows, and what things are called; each run that checks the property
meets its condition. TLC checked the inductive invariants on the same instances
before they were proved.

**Only model-checked**: liveness (`ApprovedIsTakenUp`, `ExpiryIsSwept`, `StartingEnds`,
`ProcessesComeBack`, `ShutdownCompletes`, `CallsEnd`), since the prover handles neither
fairness nor ENABLED. The five violations of section 4 are TLC's.

## 6. What is not modelled, and the plan

Left out for good:

* parsing of the output of AzGovViz, Maester and EntraExporter (`cmd/ingest`,
  `internal/ingest`): pure input and output, no state of its own;
* pages, JSON and the MCP server: read-only rendering of the queries;
* sign-in (OIDC, Easy Auth, the development login) and signed cookies: exchanges of
  libraries; `Access` starts where a session is valid;
* policy findings, metrics, trends, sign-in activity and resource groups in a run
  (those of a subscription vanish when their listing failed,
  `internal/store/store.go:210`): nothing the review queue depends on;
* wording of notes and results, audit records, logging.

Not modelled yet, and known from the hazards in `PROJECT.json`:

1. a second instance of each worker;
2. the probe of a service principal and the recording of another one as two steps
   (`internal/web/admin.go:161-198`);
3. the collector's option to pseudonymize names, which makes every text of a run
   another one than a request's.

No proof of a safety property is open. The abstract specifications could say more:
`RequestLifecycle` with failed statements would need the rows those leave behind
as behaviours of their own.
