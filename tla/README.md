# CommitKube in TLA+

CommitKube is one Go process (`backend/`) with an SQLite database and a React
front end. It signs people in, provisions repositories, keeps Git branches
applied to Kubernetes clusters, watches those clusters and the Cloudflare zones
in front of them, scans repositories and images for vulnerabilities, and keeps
shared credentials. This directory models the parts of the backend in which the
order of events or the combination of cases decides whether the result is right,
checks the models with TLC, and proves central properties with TLAPS.

| module | models | theorems |
|---|---|---|
| `Sessions` | refresh tokens, rotation, replays, deadlines, revocation | `SessionsProofs` |
| `SessionLife` | abstract: what a signed-in session promises | |
| `SignIn` | setting up password and authenticator; unlocking secrets with a code | `AccountProofs` |
| `Accounts` | who holds root, and the cap on it | `AccountProofs` |
| `Access` | permissions and namespaces of a person while they change | `AccountProofs` |
| `GitOps` | one GitOps application: poll, refresh, sync, prune, edit, delete | `GitOpsProofs` |
| `HostKeys` | a connected repository's row and its pinned host key | `AccountProofs` |
| `ScanQueue` | the scan queue, its workers and the scheduled rescans | `ScanQueueProofs` |
| `Findings` | findings, decisions, counts and history of one repository | `FindingsProofs` |
| `FindingLedger` | abstract: how a table of findings may change | |
| `Collectors` | the pollers of workloads, pods and application errors | `DeliveryProofs` |
| `Delivery` | commits, verdicts and recoveries of deployments, on top of `Collectors` | `DeliveryProofs` |
| `ErrorWindows` | counts of error lines in five-minute buckets | `WatchProofs` |
| `ServiceMap` | which dependencies a cluster declares | `WatchProofs` |
| `Topology` | the service map as stored and shown, on top of `ServiceMap` | `WatchProofs` |
| `Posture` | assessments, their storage, and a scoped reader's view | `WatchProofs` |
| `PostureRules` | the rules of the catalogue, and the pod security page | `WatchProofs` |
| `Remediation` | fixes for failing rules, on top of `PostureRules` | `WatchProofs` |
| `VaultItems` | an item of a vault and the editors of it | `AccountProofs` |
| `VaultCode` | the vault's second factor | `AccountProofs` |
| `VaultMembers` | who holds a key of a team vault | `SideBySideProofs` |
| `Provisioning` | a repository's row, its SCM repository and its ArgoCD application | `AccountProofs` |
| `EdgeAlerts` | the alerts about one Cloudflare zone | `WatchProofs` |
| `EdgeHistory` | copying the alerts Cloudflare itself sent | `WatchProofs` |
| `MC*` | instances for TLC; `MCServiceMap` and `MCRemediation` hold sample clusters and objects | `MCSideBySide` in `SideBySideProofs` |

`PROJECT.json` relates every definition to the lines it models, and lists the
runs, one mutation of the code per property, the hazards and the findings.


## 1. The system

Everything below runs in one process. HTTP handlers run concurrently, each in
its own goroutine; `main.go` starts the pollers. The database serialises
writers, and transactions are opened immediate, so one transaction is one
step; what a handler does in several statements without a transaction is not,
and most handlers have none. Nothing that is kept in Go maps, channels or mutexes
survives a restart.

### Components

**Sessions** (`handlers/session.go`, with `auth.go` and `users.go`).
State: the table `refresh_tokens` (a row per token: user, session id, start,
deadline, revoked, rotated). Operations: sign-in (`VerifyMFA`,
`SetupConfirm`), `RefreshTokenHandler`, `Logout`, `ChangePassword`,
`UpdateUserRole`, `ResetUserMFA`, `DeleteUser`, the hourly
`PruneRefreshTokens`. Hard: several tabs refresh with one cookie; what condemns
a session is written after the transaction that found it has been rolled back;
a revocation follows the account change it belongs to in a second statement;
the clock is read before the write lock is waited for; the process may stop in
between. Correct means: one live token per session, deadlines that only move
forward and never past the hard limit, a replay that is recognised for as long
as it matters, and a closed session that stays closed.

**Accounts and IAM** (`auth.go`, `users.go`, `secrets_unlock.go`, `iam.go`,
`groups.go`). State: users with password, authenticator and role, the windows of the
codes used, grants, groups, memberships, namespace scopes. Hard: a setup is read, and
written by a later statement; the roots are counted and then a role is written; what a
person may do is asked for in several queries, and a group is deleted in several
statements; a list that becomes empty means "unrestricted". Correct means: an account
that asks for a code has a password and a confirmed seed, a code unlocks once, at most
two roots and never none, and an answer put together only of what was decided about the
person.

**GitOps engine** (`handlers/gitops_engine.go`, `gitops_api.go`). State: the
application's row, its inventory (`git_ops_resources`, what the engine applied),
its runs (`git_ops_syncs`), a lock per application, the set of queued
refreshes, a mapper of API kinds cached for ten minutes, and the cluster
itself. Operations: `PollGitOps`, refreshes queued by webhooks and by
CommitKube's own commits, and the refresh, sync, update and delete handlers.
Hard: each of them loads the row before it waits for the lock and works on the
copy; people push and edit by hand meanwhile; single objects fail; kinds appear
in the middle of a sync; the inventory is rewritten by DELETE and INSERT
without a transaction. Correct means: only what the engine applied and Git no
longer declares is deleted, nothing it applied is lost sight of, and with
auto-sync the cluster ends up as the branch says.

**Connected repositories and host keys** (`gitops_repos.go`,
`ssh_known_hosts.go`). State: a row with URL, key, pinned host key and webhook
secret, and a pin per host for everything else that is cloned. Hard: an edit
saves the whole row it loaded, while a test pins what a server presented.
Correct means: a pin is of the server the URL names and goes only as meant.

**Scan queue** (`handlers/scan_queue.go`, the dates of `scan.go`). State: a
bounded channel, the set of keys counted as waiting, the time of each
repository's last attempt, and two dates on its `ScanResult` row. Operations:
`EnqueueScan`, `PollRescans`, the workers, the scans. Hard: the flag is set
before a send that may fail; a job is received before its flag is cleared;
image passes write back an old row; broken repositories and a full batch take
slots from the rest. Correct means: a flag stands for exactly one waiting job,
collapsing duplicates forgets no commit, and every repository that can be
cloned is scanned again and again.

**Findings** (`scan.go`, `scan_findings.go`, `scan_history.go`). State: a row
per problem with the dates it was first and last seen, decisions that a problem
does not count, the counts on the repository's row, points of a history. Hard:
full and image passes, decisions, recounts and the backfill overlap, fail and
are cut off by restarts. Correct means: counts that agree with the rows, only
what was absent is closed, and dates that stay.

**Collectors and delivery** (`workloads.go`, `pods.go`, `apperrors.go`,
`delivery.go`). State: samples, deployments, problems, error windows, commit
links and verdicts. Hard: three pollers read the cluster at different moments
and write in transactions of their own; metrics may be missing; a fourth judges
by the rows of the three. Correct means: no deployment missed or made up, a
problem opened once and closed when seen gone, nothing announced that is not
recorded, verdicts that are final and say what the rows say.

**Service map** (`topology.go`). State: nodes and edges with the times they were
first and last seen. Hard: resolving names as Kubernetes would; overlapping
passes; batches that fail. Correct means: no guessed edge, and none stored
without its ends.

**Posture** (`posture.go`, `posture_remediation.go`, `pod_security.go`). State:
assessments per cluster. Hard: dozens of rules with Kubernetes' defaults; a
scoped reader gets numbers recomputed from what was stored; a fix is applied to
an object that may have changed. Correct means: a scoped reader sees what an
assessment of their namespaces would give, and a fix fixes and breaks nothing.

**Vault** (`vault.go`, `vault_mfa.go`, the editor in `items.tsx`). State: items
with versions, members with sealed keys, a second factor with generations. Hard:
every handler reads, decides and writes with nothing held. Correct means: no
edit overwrites a text its author did not see, a code opens one session, a reset
ends sessions, and a person named by the owner keeps the key.

**Repositories and golden paths** (`repositories.go`, `golden_paths.go`,
`services/bitbucket.go`, `services/argocd.go`). State: a row, a repository with
deploy keys at the hosting service, an ArgoCD application. Hard: provisioning is
a sequence of calls that fail one by one, with no transaction, and requests for
one name overlap. Correct means: keys that open the repository or a warning, and
rows that go only as meant.

**Cloudflare** (`cloudflare_poller.go`, `cloudflare_exposure.go`,
`cloudflare.go`). State: zones, alerts, the last sync of a zone's history. Hard:
two passes under different locks write alerts while zones are edited and
deleted; parts of a measurement fail. Correct means: an alert closes only when
what it is about is gone, and no alert Cloudflare sent is skipped.

### How the components interact

- Sign-in and administration write the session table: both sides are in
  `Sessions`. What they do to the number of roots is in `Accounts`.
- A push webhook or a commit made through CommitKube queues a GitOps refresh
  (`Queue`) and asks for a scan (`Commit`); neither waits for an answer.
- `ScanQueue` decides when a repository is scanned, and may scan it twice at
  once; `Findings` takes both workers at their worst, with any passes at any time.
- `PollDelivery` reads what the three collectors write: `Delivery` extends
  `Collectors` and its next-state relation contains theirs.
- The service map stores what a discovery makes of a cluster: `Topology` extends
  `ServiceMap`. Fixes are judged by the rules: `Remediation` extends
  `PostureRules`.
- A group's members hold keys of team vaults (`VaultMembers`), scopes
  (`Access`), or both; the two tables are written by different statements and
  no property relates them.

### What is left out, and why

| component | why |
|---|---|
| the first setup of a row of role `bootstrap` | nothing makes such a row any more |
| vault keyring and cryptography | happens in the browser; the server stores blobs |
| GitOps rendering and health | runs kustomize and helm, and maps an object's fields to a word: no state |
| files, templates, pipelines and branches of a repository | single calls to a hosting service |
| cluster actions, RBAC authoring | a permission check and a single call to the API server |
| clusters and tokens | single statements on encrypted credentials |
| Cloudflare analytics, geography, WAF suggestions | read and cache, and change nothing |
| nodes, change counts, log grouping | read and count; no state that is read back to decide |
| delivery summary, finding timeline, other lists | read only |
| notifications | sent once, retried by nobody; where it matters *whether* something is announced, the poller's module says so |
| database, audit log, encryption | in every module's grain: a statement is a step, a transaction is a step |
| front end | any sequence of requests, except for the vault's editor, whose reads decide what a version check is worth |


## 2. The models

### Sessions

A session is a chain of rows sharing a session id. `rows` is the table,
`held` the history of every token ever handed out, `account` the state of the
account as `loadSessionUser` judges it. `ending`, `arriving`, `changing` and
`deleting` are the handlers between two statements: a refresh that has condemned
a session but not run its UPDATE, a sign-in that passed its checks but has no
row, an account change whose revocation has not run, a `DeleteUser` between its
first and its last statement.

| code | actions |
|---|---|
| `VerifyMFA`, `SetupConfirm`, `issueTokens` | `VerifyMFA`, `SetupConfirm`, `IssueTokens` |
| `RefreshTokenHandler`, the transaction | `RefreshInGrace`, `RefreshReplay`, `RefreshTooLate`, `RefreshRefused`, `RefreshRotate` |
| `RefreshTokenHandler`, the UPDATE after it | `EndSession` |
| `Logout` | `Logout` |
| `ChangePassword`, `UpdateUserRole`, `ResetUserMFA`, `revokeUserSessions` | the same names |
| `DeleteUser` | `DeleteUserTokens`, `DeleteUserRow` |
| `PruneRefreshTokens` | `PruneRefreshTokens` |
| a restart | `Crash` |

Clients are not processes: any token ever handed out may be presented at any
time, which covers two tabs, delayed requests, retries and copied cookies. A
handler works with a clock reading up to `Lag` old, because the code reads the
clock before it waits for the write lock. The access token is signed once the
rows are written and may never be (`Signed`): then nobody holds one, and the
rows stay as they are. Left out: hashing, JWT encoding, cookie attributes, the
audit log, the stage tickets of a sign-in.

`SessionLife` is the promise, without tables or tokens: a session is opened once,
yields access tokens only while it is open, and stays closed. `Sessions!Phase`
is the refinement mapping: unopened without a token handed out, open with a
live row, closed with none.

### GitOps

One application; applications share nothing but the mapper cache, which the
model lets be stale or fresh at any time. `live` is the cluster: for every
object its content and tracking id. `op[w]` is one running operation with the
copy of the row it loaded, the commit it checked out, the kinds its mapper
knows, and what it has done so far.

| code | actions |
|---|---|
| `PollGitOps`, `queueGitopsRefresh`, `RefreshGitopsApp`, `SyncGitopsApp` up to the lock | `Poll`, `Queue`, `Request` |
| `UpdateGitopsApp` | `Edit`, `Save` |
| `gitopsLock` | `Lock` |
| `openGitopsWorkspace`, `newDynamicKube` | `Open`, `OpenFails` |
| `compareApp`, `storeResults` | `Compare` (with the DELETE), `Store` (the INSERT) |
| the test for a sync after a refresh | `SyncDue`, `Decide` |
| `syncApp`, first loop | `Apply`, `Applied` |
| `syncApp`, second loop | `PruneLook`, `PruneDelete` |
| the retry after new CRDs | `ApplyAgain` |
| the inventory update and `finish` | `RecordInventory`, `Finish` |
| `DeleteGitopsApp` | `RequestDelete`, `Cascade`, `Erase`, `Remove` |
| a restart | `Crash` |
| pushes and people | `Push`, `ByHand` |

`CreateGitopsApp` inserts the row with no status and no revision: it is `Init`.
Every look, every Apply and every Delete on the cluster is a step of its own, so
that a person can act in between; one comparison, which changes nothing in the
cluster, reads it in one step. What a manifest says is one value; `Unserved`
stands for a manifest in an API version the cluster does not serve, `Custom`
objects exist while all `Crd` objects do. Health, diffs, messages, rendering and
the handlers that only read are left out. `Events` selects what else may happen
in an instance, and `MaxDisturb` bounds the things that may go wrong or be done
by others.

### ScanQueue

`scanQueue` is the channel, `queued` the set of flags; `call` says where a
caller is in `EnqueueScan`, `worker` where a worker is in its loop, `poll` how
far the pass of `PollRescans` has come. Time is counted in passes of
`PollRescans`, and dates are kept as ages that stop growing where the code stops
telling them apart. A date written after a pass is a moment too young 24 hourly
passes later, so the code's 24 hours are an age of 25.

| code | actions |
|---|---|
| `TriggerScanBackground`, `EnqueueScan` | `Commit`, `EnqueueScan`, `Send`, `Drop` |
| `StartScanWorkers` | `Receive`, `Unqueue`, `Begin` |
| `runScan`, `runImageOnlyScan` as far as their dates go | `Begin`, `Scanned`, `ScanFailed` |
| `PollRescans` | `PollStart`, `PollLook`, `PollEnqueue` |
| a restart | `Restart` |

A recount after a triage decision writes single columns without touching
`UpdatedAt`, so it does not show here. `UpdateTrivyDB` only decides whether
scans may skip an update; it is left out.

### Findings

`world` is what is wrong with the code and the image now, `open` the open rows,
`result` the row the dashboards read, with its counts kept as the sets they
count. `op[a]` is a worker, a person or the backfill in the middle of its
statements, with the report and the rows it works on. A transaction per domain
is one step; a failed image, a report that was not made, a failed statement that ends
its operation (`Fails`), the unnoticed failure of the DELETE before a decision
(`Undecided`) and a restart between any two steps are steps too. Two failures
are left out, of statements whose error is ignored and after which the counts
are as old as before: the save of a scan's row (`scan.go:461`) and the
update of a recount (`recountRepo`). A run remembers of an operation whether it was
alone from beginning to end, because the code promises right counts only then.
`FindingLedger` is the abstract table: it changes by whole reports, each of
which speaks of the kinds its pass looked for and of nothing else.

| code | actions |
|---|---|
| `runScan`, `runImageOnlyScan` | `StartFull`, `StartImage`, `ScanImage`, `SkipImage`, `ImageFails`, `AddOpenWeaknesses`, `ReadCode`, `SaveResult` |
| `reconcileFindings` | `ReconcileCode`, `ReconcileImage` |
| `recordScanHistory` | `RecordPoint` |
| `CreateScanSuppression`, `DeleteScanSuppression`, a lapse | `Decide`, `CreateDecision`, `Withdraw`, `Lapses` |
| `recountRepo`, `recountAffected` | `Recount`, `StoreCounts`, `NotAffected` |
| `BackfillScanFindings`, `ReconcileScanHistory` | `BackfillStart` (counts the rows), `BackfillRead`, `Restart` |

### Collectors and Delivery

One workload with one pod, namesakes of it of another kind, and what its logs
and connections show. A pass of a poller reads the cluster (`Collect`), takes
the time it dates all its rows with (`TakeTime`; the errors poller does so before
it reads), and commits or is abandoned (`CommitWorkloads`, `CommitPods`,
`CommitErrors`, `Abandon`); the clock, the cluster and the other pollers go on
between any two of these. People and controllers roll out, scale, break and mend
the workload meanwhile.

What is wrong with a pod is a set of pairs of a kind and the part it is found on:
two containers that crash are two problems of one kind. `Reconciles` knows one
open row of each kind, as the code's map keyed by kind does, and opens all that
is found of a kind of which it knows none. A reading hides kinds: all of
`NeedsMetrics` without metrics, any of `MetricsDerived` when there are some but
not those of this pod or its node. `CannotTell` is the code's rule for what is
kept open all the same, which asks only whether there were any.

`PollDelivery` is `resolveDeploymentLinks`, `evaluateDeployment` and `Recover`, one
row a step, over those very tables. `late` remembers the verdicts that were
reached while a pass was under way which had taken the time inside the window.

### Vault

`VaultItems` models `UpdateVaultItem`'s version check together with the editor
that supplies the version: the overview comes with the list, the secret by a
fetch of its own, and both may be out of date by the time the form is saved.
`VaultCode` has the row of the second factor, a request being the copy it read;
seeds are numbered, and `era` of a session is the number of resets that had
taken effect when it was asked for. `VaultMembers` has the membership rows with
their ids, the groups, the grants, and requests between reads and writes; the
door (`vaultFor`), which counts the grants, then the memberships, and deletes a key
whose group no longer holds, is three steps of one of them.

### SignIn, Accounts and Access

`SignIn` has the row of one account, and requests with the copy they read.
`SetupInit` mints a seed and takes a password in one update, so the two share a
number; `SetupConfirm` promotes the pending password of its copy. `usedStep` and
`taken` are the process's, and `Restart` empties them. Sessions are not opened
here (`Sessions`).

`Accounts` has the roles and the requests between counting and writing. In
`Access` a request is what `permissionsFor` and `allowedNamespaces` have read so
far, each query a step; every handler that changes grants, scopes, groups or
memberships may run between them, and `DeleteGroup` is its statements.
`meanwhile` remembers what was decided about the person at any moment of the
request. The queries whose errors the code ignores (`iam.go:154`, `370`, `381`)
may fail; `lost` says which did, and what is then taken for no rows.

### HostKeys

`row` is the connection, `presents` the key every server shows, `known` the pins
of other hosts. `TestGitopsRepoConnection`, `ListBranches`, `Checkout` and the
clones talk to a server for as long as they like (`Talks`); then a test writes
the columns it found (`RecordSuccess`, `RecordFailure`), and an edit writes its
whole copy (`Save`).

### ErrorWindows

Containers write lines, restart and are replaced; a pass lists them, reads each
log (the running one back to the lookback, the previous one whole), and
overwrites the buckets it met. A pass may be abandoned between two reads.

### ServiceMap and Topology

`ServiceMap` is pure: `discoverTopology` of a cluster, given as sets of
workloads, services, config maps, ingresses, policies and virtual services, with
`resolveHost` and the extraction and rating of edges. String work on an address
is abstracted to its host, port and scheme. `Topology` runs it in passes which
store nodes, then edges, then remove what is old, each batch and each of the two
DELETEs a step that may fail; the errors of the DELETEs are ignored, so the pass
goes on. `Answer` is what `GetTopology` makes of the rows; `DepthsOf` is compared
with the longest ways in all graphs of four nodes when TLC evaluates
`DepthAssumption`.

### Posture, PostureRules and Remediation

`Posture` is one cluster's assessments behind its lock: listings made one by one
while the cluster changes (`ListKind`), evaluation, storage, and what
`scopePosture` shows. `PostureRules` defines every rule but two as an operator
on an object with Kubernetes' defaults ("unset"), and the findings of
`inspectPodSecurity`; a path is the sequence of its parts once it is cleaned, and
whether it was so as written, which only that page asks. The two rules left
out are of no object a fix changes: KSE-SA-001 is about default service accounts,
and KSE-CL-001 (`posture.go:1406-1432`) gives one result for the cluster from the
images of all workloads. `Posture` cannot say the latter either, as a resource
there fails a rule by itself; a scoped reader is never shown such a result, which
has no namespace (1617), so for that rule the two sides of `ScopedIsExact` are both
empty. `Remediation` has an object in the cluster, fixes handed
out for it, for whatever rule is asked (`Commands`, with `FixedCopy` and the check
on that copy), and people
who run their commands on whatever is there by then; `Patched` is a strategic
merge, `Accepted` the API server's validation, `narrowRoleRules` the narrowing of
roles.

### Provisioning

One name. A request is a process of its own (`job`), every statement and call of
it a step that may fail; `scm` and `argo` are the services, `row` the database.
`Crash` loses what a request would have told its user.

| code | actions |
|---|---|
| `CreateRepository` | `CreateRepository`, `CreatePending` |
| `ApproveRepository`, `RejectRepository` | `ApproveRepository`, `RejectRepository`, `RejectDrop` |
| `provisionRepository` (a statement whose error is ignored may fail; without a new key the workspace's is taken, with a warning) | `ProvisionSCM`, `ProvisionKey`, `ProvisionCommit`, `ProvisionArgo`, `ProvisionUnlist`, `ProvisionList` |
| `DeleteRepository` | `DeleteRepository`, `DeleteSCM`, `DeleteArgo`, `DeleteRow` |
| `ImportRepository` | `ImportRepository` |

### EdgeAlerts and EdgeHistory

`present` holds what whoever looks would find, `open` the alerts. The rule pass
(`poll`) measures two halves, each of which may fail, and judges rule by rule;
the exposure check (`scan`) lists records, looks up addresses, probes ports
until its time is up, looks up names, and reconciles. The passes hold different
locks; `UpdateCloudflareZone`, `DeleteCloudflareZone` and `PollCloudflareZoneNow`
run beside them. `EdgeHistory` follows one alert of an account from Cloudflare's
list into the log of each zone it belongs to. Its unit of time is half the
overlap of ten minutes; an alert is listed at most one unit after it was sent.
A reading asks for what was sent since the last sync, but no more than seven days
(`Week`), and gets one page of it: whether the alert is on the page is a choice
of `Fetch`, which stands for how many others there are. `UpdateCloudflareZone`
of `EdgeAlerts` may change the switch and the rules in one request.


## 3. What the runs show

Twelve runs, four of which show a disagreement (see Findings). Deadlock is
checked in all that pass but `gitops_live`, where the application may be deleted
and nothing is left to do, and `side_by_side`, most of whose parts have bounded
requests.

**sessions** (`MCSessions.cfg`, 217 000 states). One account, two session
ids, three tokens, crashes, clock readings up to one tick old.
`OneLiveToken`: two refreshes never both leave with a live token.
`ReplayRecognised`: while a session can still be refreshed, none of its tokens
has left the table. `DeadlineForwardAndCapped`: no step moves a live deadline
back, whatever clock reading it used. `SessionLifeSpec`: the table implements
`SessionLife`. Two ids and three tokens let one session be rotated twice, or two
sessions of one account run side by side, of which a password change spares one.
The timeouts (1, 2, 3, 4 ticks for grace, idle, age and the sweep) keep the order
of the real ones (30 s, 20 min, 12 h, 24 h), and seven ticks let a session pass
every one of them and its rows be swept.

**sessions_live** (`MCSessionsLive.cfg`, 121 000 states). No crashes.
`CondemnedSessionsClose`: a replayed, late or refused session is closed in the
end. `AccountChangeSignsOut`: so are the sessions an account has when its
password, role or second factor changes, also when a refresh rotates between
the change and the revocation.

**gitops** (`MCGitOps.cfg`). A CRD, its custom resource, a second commit without
the resource; the poll and one more operation; two disturbances, each a push, a
hand edit, a settings change, or a failing checkout, apply or delete.
`PrunesOnlyItsOwn`: what is deleted was applied by the engine and is not a target
of the synced commit. `NothingOrphaned`: an object that was applied, is in the
application's namespace and still carries the id is in the inventory whenever
nobody holds the lock. `PruneLeavesNothing`: a sync with prune that reports no
failure left nothing undeclared behind. Reads that fail and crashes are not in
this run: the code takes an object it cannot read for one that is gone, and
loses its inventory between a DELETE and an INSERT, so `NothingOrphaned` does
not hold with them (see the hazards).

**gitops_live** (`MCGitOpsLive.cfg`). Two plain objects, both changed by the
second commit, self-heal on; two disturbances out of pushes, hand edits,
deletions of the application, failing checkouts, reads and applies, and crashes.
`AutoSyncConverges`: once they stop, the cluster comes to hold what the branch
declares, for good, unless the application is deleted.

**scan_queue** (`MCScanQueue.cfg`, about 340 000 states). Two repositories, one
of which cannot be cloned, two workers, a channel of two, a batch of one, and
one commit, failed scan or restart. `FlagMeansOneWaiting`: a flag is set exactly
while one job of its key is on its way. `NoCommitForgotten`: a commit that no
scan has looked at, and that was not dropped for a full queue, has a full scan
on its way. `CodeIsRescanned`: the repository that can be cloned is scanned
for ever. One disturbance is enough for the liveness property, which speaks of
what follows after the last one; the two invariants are proved for any number of
them. The channel holds two because the code's (500) is far larger than its
batch (20): with room for one job only, the broken repository could keep it
filled.

**findings** (`MCFindings.cfg`, 1.6 million states). One package, one weakness,
one finding of the image; two workers, a person, the backfill. `CountsAreTrue`
and `HistoryInStep`: whenever nothing is under way and the last to take the
counts ran alone, the dashboard's numbers are the open, undecided rows, and the
newest point of the history shows them. `OnlyTheAbsentAreClosed`: a pass that ran
alone closes no finding that was there all the time since it was opened.
`RowsAreALedger`: the rows implement `FindingLedger`. Two scans are enough to
overlap in any order, and one change of the world between them makes their
reports differ.

**delivery** (`MCDelivery.cfg`, 955 000 states, fair). Three ticks, two changes of
the cluster or failed passes, and three scenes, of which a behaviour plays one
(`Scenes` in `MCDelivery`).

In *deployments* all pollers run: two images, one or no replica, one container that
may crash, errors of the workload's own or of another. A window of one tick, links given
up at once, one link a pass: a deployment can be followed by another inside its window,
fail, be judged and recover, and a pass can take the time in the window and commit after
the verdict. `DeploymentsChain`: each deployment starts from the image the one before
left. `VerdictStands`: a deployment is judged once, by what is on record, and its times
stay in order; later rows contradict it only if their pass had taken the time and not
yet written, or if they blame anew. `EveryDeploymentIsJudged`, `EveryLinkIsDecided`: in
the end, although lookups may fail for ever and a pass asks for few.

In *pods* the pods poller runs over two containers that may both crash and two
problems only metrics show, one of which `metricsDerived` lists; in *services* the errors
poller over two workloads of one name. The pollers of problems write different kinds and
do not read each other's, so that nothing is lost by a scene for each.
`OpensNothingTwice`: no later pass opens another row of a kind before those of the
first are closed. `AnnouncedIsRecorded`: nobody is paged about what has no row.
`ClosedAsRead`: a problem of a live pod that its pass did not see gone is closed only if
the reading hid its kind, and then only if there were metrics (of which some were missing)
or the kind is not listed. Three ticks let one pass open, a second meet the rows, and a
third close them.

**side_by_side** (`MCSideBySide.cfg`, 1.8 million states). Small modules that
share no state, each on an instance of its own: `part` names the one that runs,
and their variables are laid over ten shared ones. One run instead of sixteen
keeps the instances in one place; a behaviour never mixes two of them. The constants of the
parts are the run's own, with values in its cfg, so that what is proved of a part for
all constants holds of the run as well; the sample
clusters and objects of `clusters` and `fixes` are in `MCServiceMap` and `MCRemediation`.
`PartsTypeOK` holds the type invariants.

| part | property | says | instance |
|---|---|---|---|
| members | `NamedStay` | a person the owner named keeps a key whatever happens to groups, but for the door's deletion by id | owner, one other, one group, two requests |
| items | `NoEditIsLost` | an edit lands only over the overview and secret its author saw | two editors, four texts, two requests |
| code | `SecondFactorStands` | a code opens one session; a reset ends sessions, but for a setup or reset that wrote back an old row | two seeds, a reset, two requests |
| signin | the same | an account that asks for a code has a password and a confirmed seed, but for writes over a row that changed and a confirmation sent twice; a code unlocks once while the process lives | two setups, two requests, a restart |
| roots | `RootsStayWithinBounds` | the bounds on roots are left only by a request whose count was out of date | three users, two requests |
| windows | `NeverInflated` | a bucket never counts more lines than there were, but for a restart between two reads | two containers, a restart |
| posture | `ScopedIsExact` | a scoped reader gets what an assessment of their namespaces would give | two namespaces and a role |
| clusters | `EdgesAreDeclared` | configured edges are exactly the Services a source can name | 384 clusters, one state each |
| map | `MapRemembers` | rows keep their dates and edges their ends, but for overlapping passes and rows overdue whose DELETE failed | a cluster before and after a change |
| access | `AllowedAsDecided` | an answer holds only what was decided about the person during the request, but for a query that failed | two groups, two namespaces, three changes |
| connection | `PinsStand` | a pin changes only as meant and is of the URL's server, but for the three races named | two hosts, two requests, one edit |
| fixes | `FixesStand` | a fix fixes its rule and breaks no other, but for the cases named | 12 objects, 22 rules asked of any, two fixes, a rollout |
| fixes | `PagesAgree` | the two pages that read a pod spec agree, but for the differences named | the same objects, after every fix |
| provisioning | `RepositoryStands` | rows go only as meant; keys open the repository or their user was told | an admin, a user, two requests, a stop |
| rules, findings | `AlertsStand` | an alert is resolved only if what it is about was gone, but for probes and lookups cut short | two rules; a port and a name; two changes |
| history | `HistoryIsFiled` | an alert is filed where it belongs before the passes move on, unless given up by a step named | two zones, three units of time, a week of two |

A property that reads "but for" names, in its statement, the exact steps of the
code that break the promise its comment quotes; everything else is shown not to.
Those steps are listed under "Races and disagreements" below. A week of two units, the least
it can be beside the overlap, lets an alert outlive it in the time there is. Two of a kind
(requests, zones, containers, groups) suffice for every race named, since each
is between a handler's read and its write and one other writer; requests have
numbered slots, so that two identical ones stay two.

### Findings

Four runs show a disagreement between the code and what is said about it.

- **gitops_version_bump** (`PrunesOnlyUndeclared`). When a commit declares an
  object in an API version the cluster does not serve, the manifest comes back
  Invalid and is not counted as declared. The inventory still knows the object
  under its old version, so a sync with prune deletes it from the cluster,
  although Git still has it (`gitops_engine.go:397-440`).
- **gitops_cluster_scope** (`PruneLeavesNothing`). Objects are stamped with an id
  built from the application's namespace (`gitops_engine.go:188`) and looked
  for with one built from their own (294, 426). For an object outside the
  application's namespace the two differ: when it leaves Git it is never pruned,
  and is forgotten.
- **gitops_crd_bootstrap** (`AutoSyncConverges`). A commit that brings a CRD and
  a resource of its kind leaves the status Unknown, and auto-sync acts on
  OutOfSync only (`gitops_api.go:351`, `406`). The retry made for that case is
  reached by a manual sync only.
- **scan_starvation** (`CodeIsRescanned`). `PollRescans` starts at the first row in
  every pass and stops at its batch. Repositories are due again after a window, so with
  more of them than batch times passes per window the last ones never get a turn. The
  run has three repositories and room for two.

### Races and disagreements without a run of their own

The models allow the following, and the properties exempt what must be exempted.

- *GitOps.* The retry after a sync that installed a CRD replaces the outcome of the
  first round by that of the second (`gitops_api.go:264-272`): an object applied in
  the first, whose second apply fails, is not marked as applied, and once Git drops
  it no prune will find it. A settings change that waits while the
  application is deleted inserts the row again, with an empty inventory.
- *Findings.* A failed image in a full pass stores image counts of zero while its
  rows stay open. A scan's whole-row save undoes a recount made meanwhile. A report that
  is read while another pass reconciles may close what that one opened, so
  `OnlyTheAbsentAreClosed` and `CountsAreTrue` speak of operations that ran alone. Two
  people deciding at once leave two decisions for one finding
  (`scan_findings.go:582` says one). The backfill checks for rows and then
  reconciles.
- *Delivery.* "A problem opens once" (`pods.go:841-843`, `apperrors.go:1100`), but
  `detectPodProblems` gives one for every failing container (502-520), and the pass
  never enters what it opens into the map it asks (930-959): two crashing containers
  open two rows of one kind, of which later passes know one. Two workloads of one name do
  the same to `reconcileServiceProblems`, whose key has no kind (`apperrors.go:1109`,
  `1125`). `metricsDerived` is to keep open what only metrics show when a scrape failed
  (`pods.go:106-108`); `no_limits` is such a kind (578) and not listed, so it is closed
  and opened anew. Problems of severity "info" make a deployment fail. When there are
  metrics, but not of this pod or of its node, its problems of the kinds listed are closed
  unseen, since `pods.go:984` asks only whether there were any. `findRecovery` takes any
  problem that closes for the one that made the deployment fail. A pass takes the time
  before it writes (`workloads.go:147`, `225`; `pods.go:875`, `990`; `apperrors.go`),
  so its rows may land in a window already judged, and a problem that is found again
  gets the newest cause, also when its window is over.
- *Vault.* A form whose secret failed to load can be saved
  and empties it. `SetupVaultMFA` saves a whole row and may put back the generation a
  reset raised; two resets from one read raise it once; `ConfirmVaultMFA` checks one
  seed and may enable the next. The door deletes by id, and may remove a person whom the
  owner has just named.
- *Accounts and access.* A confirmation of a setup sent twice with one ticket
  empties the password, and one that overlaps another setup pairs one setup's
  password with the other's seed: `SetupIsWhole`, the part of `SecondFactorStands` about
  setups, exempts every write to a row that had changed since it was read. Two promotions, demotions or deletions at once leave
  three roots or none. Losing the last scope makes a person unrestricted, and so does a
  query for the scopes that fails (`iam.go:370`, `381`). Grants
  may be written for a group that is deleted, and a member added to it.
- *Host keys.* Three races are named in `PinsStand`, which shows that there are no
  others: of two first tests that overlap, the second replaces the key the first one pinned (`gitops_repos.go:148`,
  `152`), against 22-24; and the next two. Saving a stale
  copy erases a pin, restores an old secret or inserts a deleted connection again. A
  test under way when the URL changes pins the old server's key under the new URL. An
  application's checkout through an unpinned connection accepts any key and pins
  nothing, against `gitops_repos.go:22-24`.
- *Error windows.* A container that restarts between the two reads of its logs is
  counted twice. The counters of one pass are updated by parallel readers
  without a lock.
- *Service map.* A name in a missing namespace becomes an external host. A
  mounted config map makes bare words count as hosts. An overtaken pass moves
  `last_seen` back and may leave an edge without a node. The errors of both DELETEs
  are ignored (`topology.go:1159-1160`): an overdue edge may outlive its nodes until
  the next pass.
- *Posture and fixes.* Best practices mark resources as failed, against the
  comment at `posture.go:1477`. Clearing host ports by a strategic merge leaves
  the second of two that share a container port. The fix for privilege escalation
  on a privileged container is refused by the API server. A new service account
  mounts its token again. Capability fixes made from one version undo each other.
  Narrowing "*" drops the verbs beyond the eight known ones. A stale narrowed
  role restores rules removed meanwhile. The pod page does not look at the service
  account, reads capability names and paths literally, and lets the pod's
  `runAsNonRoot` stand before a container's.
- *Repositories.* A rejection after a failed approval leaves the repository at
  the hosting service, against `golden_paths.go:219-220`. A request for approval
  deletes the user's existing row with its key. What an approval warns of is told to the
  administrator who approved, not to the user (`golden_paths.go:266-274`). A key that
  cannot be made is replaced by the workspace's with a warning (`repositories.go:286-291`).
  Rows whose deletion or insertion fails unnoticed stay or are missing (`repositories.go:430`,
  `657`, `golden_paths.go:120`, `131`). A deletion by name may remove the
  row another person has just created. Two approvals at once provision twice. An
  administrator without credentials leaves the repository behind without a word.
- *Cloudflare.* A pass over one zone files alerts that name only others under this one,
  against `cloudflare_poller.go:279-283`, and moves the reading on for them. The sync is
  stamped before anything is filed, so a stop or a failed insert loses alerts. A reading
  is one page of 200 (`services/cloudflare.go:170-179`), whatever there is, and the
  zones are stamped as synced now, so an alert beyond the page is lost when the next
  reading looks further on, against "every alert" (`cloudflare_poller.go:279-283`), and
  one that is seven days old before a reading succeeds is never asked for
  (`cloudflare_poller.go:290`). A lookup that failed and a probe cut off by the deadline
  count as "closed", against `cloudflare_exposure.go:516-518`. Alerts opened by a pass
  that knew a zone deleted meanwhile stay open for ever.

### Fairness

- `Sessions`: `EndSession` and `RevokeUserSessions` are weakly fair. They are the
  next statement of a goroutine that is running; a statement that fails is not
  modelled, and the run with these properties has no crashes.
- `GitOps`: the steps of an operation are weakly fair, because Kubernetes and git
  calls return or fail. `Lock` is strongly fair: Go's `sync.Mutex` hands the
  lock over to a waiter that starves. `Poll` is weakly fair, as the ticker runs
  for ever, and so is the passing of ten minutes. Nothing is assumed about
  requests, pushes or people.
- `ScanQueue`: callers and workers go on, the passes come round with the clock.
  That a scan ends is an assumption the code does not secure: `git clone` and
  `trivy` are run without a timeout (`scan.go:357`, `145`, `376`). The clock
  does not outrun a pass or a free worker: an interval is an hour, and these
  steps take moments; a scan may take any number of intervals.
- `Delivery`: the pass runs again and again, so that judging and a
  lookup that fails are weakly fair. A lookup that succeeds is not: nothing is assumed
  of the hosting service, of the collectors or of people.

The other modules state no fairness: they promise what a step may not do.


## 4. What is proved

TLAPS proves the following for every value of the constants that meets the
assumptions, which are named in the modules and evaluated by TLC in the runs.

**Sessions**, under `SessionsAssumption`: the timeouts are natural numbers, and
the sweep keeps a row at least as long as a session can live (`MaxAge + Lag <=
Keep`). The defaults satisfy this (12 h against 24 h); the environment variable
`SESSION_MAX_AGE` can break it, and then replays go unrecognised.

- `TokenInvariance`: `TokenInv`, the inductive invariant, is the type of the
  token tables with `RowsConsistent` (the rows of a session agree on owner and
  start, and no deadline passes the hard limit), `OneLiveToken` and
  `ReplayRecognised`. None of the three is inductive alone. That the sweep takes
  no token of a session that can be refreshed needs the deadlines of the spent
  rows, bounded by `RowsConsistent`; that a rotation leaves one live token needs
  the row it spends to have been the only one.
- `OneLiveTokenAlways`, `RowsConsistentAlways`, `ReplayRecognisedAlways` follow
  from it. `TypeCorrect` is proved from it as well.
- `DeadlinesForwardAndCapped` adds `DeadlineFromUse`, that the deadline of a row
  is the idle deadline of its last use. A rotation reads the clock after that
  use, and `IdleDeadline` is monotone, so the deadline cannot go back.
- `ImplementsSessionLife`: every step of `Sessions` is a step of `SessionLife`
  under `Phase`, or a stutter. Rotations and the grace window vouch; logout,
  revocation, deletion and the sweep close sessions, and no action revives one.

**GitOps**, under `GitOpsAssumption` (types of the constants; self-heal only
with auto-sync, as `validateGitopsApp` requires; nothing is assumed of the trees).

- The inductive invariant `GitOpsInv` is `TypeOK`, ownership of the inventory,
  and `OpSafe` for each operation: what it holds of the inventory, its results
  and what it applied were all applied by the engine, what it has still to apply
  are targets, and what it has still to prune was applied and is no target. This
  must hold of the operations' private state, because they write it back after
  the table has changed.
- `GitOpsTypeCorrect`, `OwnershipIsEarned`, `PruningIsJustified`: the type
  invariant; that inventory and copies of it claim only applied objects; and
  `PrunesOnlyItsOwn`.

None of these needs the lock: they hold even if operations of one application run
side by side. The lock is for the other two properties, and for those `OrphanInv`
adds an account of what is *ours*: the objects the engine applied in the
application's namespace that still carry its id. With the lock free, the inventory
has all of them; while an operation holds it, `Accounted` says for each of its
steps where those are that the inventory lacks: in the results it is about to
store, in what it has applied and will record, in what it will apply again. It
also says that a sync with prune leaves none that its commit does not declare.

- `NothingIsOrphaned` proves `NothingOrphaned`, and `PruneIsComplete` proves
  `PruneLeavesNothing`, under `Sheltered`. Each of its conditions is one without
  which the code does lose objects: no failing reads and no crash (an object that
  cannot be read counts as gone; a crash between DELETE and INSERT empties the
  inventory); no settings change beside a deletion; and no failing apply where a
  sync may install a CRD. The last two were found in the attempt at this proof, and
  are under "Races and disagreements". The run's events satisfy it but for the last:
  its one custom resource cannot show that case, for which an object more is needed.
- `PruneIsComplete` assumes in addition that the application is not deleted, and that
  what lies outside its namespace is declared by every commit: the run
  **gitops_cluster_scope** shows what happens otherwise.

**ScanQueue**, under `ScanQueueAssumption` (sizes are positive where they must
be). The inductive invariant `QueueInv` has six parts: `TypeOK`; `RoomInBatch`,
without which a pass could outgrow its batch; `FlagHeld`, `HeldFlag` and
`HeldOnce`, which split "a flag is set exactly while one job is on its way" into
what callers, places in the channel and workers hold; and `CommitsCovered`,
stated over flags. `ScanQueueTypeCorrect`, `FlagsAreExact` and
`CommitsAreRemembered` follow.

**Findings**, under `FindingsAssumption` (the kinds of findings and the actors
are disjoint). The inductive invariant adds to the types: `RowsMarked`, every
open row has a date, and what the world lacks is marked gone; `PassesWhole`, a
pass looks for whole kinds and has found nothing else; `CopiesScanned`, what it
has read of the row is one; and `LoneAlone` and `LoneKnows`, that an operation
alone so far is the only one, and that what it looked for and did not find is
gone.
`TypeCorrect`, `OnlyAbsentClosed` and `Refines` (each transaction is a report of
the ledger) follow.

- `CountsTrue` proves `CountsAreTrue` from `CountInv`, which says of an operation that
  is alone how far what it holds agrees with the rows: the code's findings it has
  read, the sets it is about to save, what a decision still has to recount. An
  operation that is not alone voids the promise, and the ghost `countsOff` says so.
- `HistoryFollows` proves `HistoryInStep` from `HistoryInv`: the copy that will be
  the next point has the counts of the row.

**Collectors and Delivery**, under `CollectorsAssumption`, `ClustersAssumption` and
`DeliveryAssumption`. `DeliveryInv` joins the types with `Chained` (the deployments
follow each other, at most one in a tick, and a verdict is given when the clock has
left its window), `PassesOrdered` (what a pass will open is newer than all the
rows its poller has written), `ProblemsNamed` (a kind, a part and a time name one
row), and `JudgedApart` (no pass that took the time in the window of a verdict is under
way, but for the verdicts in `late`).

- `DeliveryTypes`, `NoDeploymentIsMissed` (`DeploymentsChain`),
  `NotificationsAreRecorded` (`AnnouncedIsRecorded`).
- `NoPassOpensTwice` (`OpensNothingTwice`), for all kinds, containers and workloads of one
  name. It is what the code achieves of "opens once" (see the races above).
- `VerdictsStand` (`VerdictStands`): a pass can date rows into the window of a
  verdict only by a reading of the clock made before the verdict, because the window
  was over by then; and such a pass put the verdict into `late`.
- `ClosesAsRead` (`ClosedAsRead`), for any list `metricsDerived`. What the list is meant
  for does not hold (see the races above).

The next modules are small, and their proofs share `AccountProofs` and
`WatchProofs`: each is taken in by INSTANCE and has a section of its own, with its
constants, variables and invariant.

**VaultItems**, under `ItemBounds`. `ItemInv` says that lists, forms and edits tell
the truth about the version they name: as versions only grow, the check of the
version is one of the text. `ItemsTyped` and `NoneLost` follow.

**VaultCode**, under `CodeBounds`. `IInv` relates seeds, spent codes and
generations of the row, of the copies requests hold and of the sessions:
`SpentRemembered` is that the row remembers the last step spent for its seed,
`GenerationsGrow` that a session of an earlier era has a smaller generation
while nothing was rolled back. `OpensOnce` and `ResetsEnd` follow.

**Accounts**, under `AccountsAssumption`. A request under way was allowed by its
count; a write that leaves the bounds thus had another count than the roots
there are. `AccountsTyped` and `OnlyRacesBreakTheBounds`.

**SignIn**, under `SignInBounds`. `SetupInv`: what a setup under way read was not
yet on, a confirmation has shown a code of the seed of its copy, and no code spent
is later than the one remembered. `SetupsAreWhole` and `CodesAreSpent`.

**Access**, under `AccessAssumption`. `AllowedInv`: whatever holds at a moment of a
request is among what `meanwhile` notes, so each query saw something that was so.
`DecisionsRule`, however groups, members, grants and scopes change between them.

**HostKeys**, under `HostAssumption`. `PinInv`: a pin, in the row or in a copy
someone will save, is of a key its URL's server has had, unless a test and an edit
crossed; and a copy to be saved differs from what was read only where the edit
meant it to. `PinsAreKept`, with the three races in its statement.

**ErrorWindows**, under `WindowBounds`. `WindowInv`: a bucket of the pass counts at
most the lines of it in the logs that the pass has read so far, unless one was read
twice; the rest is counting finite sets. `CountsAreLines`.

**EdgeHistory**, under `HistoryBounds`. `HistoryInv`: when the passes have moved on so
far that an alert will not be read again, it is filed, given up, or in the hands of
the pass. `AlertsAreFiled`, for any length of the week that is no shorter than the
overlap.

**EdgeAlerts**, under `EdgeAssumption`. `EdgeInv`: at each of its steps a pass knows of
all it has not found that it was quiet when it was looked for, or did not answer.
`AlertsCloseQuiet`.

**Provisioning**, under `ProvisioningBounds`. `RepoInv`: a key is in the row or at
ArgoCD only when the request it was made for is past its commit, after which no
warning is taken back; and a row is known by the request that made it, which is then
done, so the row a rejection has read is the only one it can hit.
`RepositoriesStand`, whatever requests overlap and wherever the process stops.

**Posture**, its types under `PostureBounds` and the rest without assumptions.
`BoardInv`: what is stored is the assessment of some inventory, one that the torn
listings may have made up. The rest is about the assessment itself: counts, totals and
results of the namespaces in scope are those of an inventory that has nothing else.
`ScopesAreExact`, for any catalogue.

**Topology**, under `TopologyBounds`. `ChartInv`: while no pass has overtaken another,
no row is dated later than a pass under way began; those passes that have written
began no later than any other; and an edge that is not overdue has both its nodes, seen
as lately as itself, so that what a pass removes are never the ends of an edge that
stays. `FoundIsJoined` says of the discovery that its edges join nodes it found, for any
cluster. `MapIsRemembered` follows.

**ServiceMap**, for every cluster that is `WellFormed`: its workloads are of the four
kinds `listTopoWorkloads` lists, so none is an ingress or external, and a host written
as one word names no namespace. `EdgesOfAnyCluster`, in both directions: an edge
of a configured source was emitted for a value that the source has (`EdgeOfAnySource`,
`FromConfig`), whose host resolves to the workloads behind a Service that the source
can name (`HostsOf`, `NamesOf`); and of the edges of one key `dedupeEdges` keeps the
strongest (`StrongestKept`), which a declared one is.

**PostureRules and Remediation**, under `RemediationBounds`: objects are what the API
server stores (the fields of their kind, containers and names of their own, a rule of a
role for URLs or for resources). `MendInv` says that of the object and of what every
fix was made from.

- `PagesOfAPodAgree` proves `PagesAgree`: finding by finding, what makes the pod page
  warn makes a rule fail (`PodAgrees`, `ContainerAgrees`). The two read users, paths
  and images by different code; but for the two exceptions of the property, the pod
  page is the milder.
- `FixesAreFixes` proves `FixesStand` for fixes run at once or on a later object. For
  workloads, `PatchedSafely` says that a patch leaves each field as it was or makes it
  safe, whatever object it meets, but for lists of capabilities; `PatchBreaks` draws
  from it what rules a patch may break, and `PatchMends` says that the check on the copy
  is one on what the cluster will have, since the copy and the merge agree but for ports
  that share a number. For roles, `NarrowingAllows` and `NarrowingLoses` compare what a
  role lets do before and after, deed by deed. The proof needed one case that the run's
  objects do not have: the fix of KSE-WL-018 gives a workload the account of its own
  name, so one made from a workload called `default` takes a later version back to the
  default account.

**VaultMembers**, under `MembersAssumption`. `IInv` is the types, that ids tell rows
apart, `RequestsAim` (what a request under way may still delete), and
`NamedStay`, which `NamedKeepTheirKey` states.

**The run side_by_side**, under `PartsAssumption`, which joins the assumptions above.
`SideBySideProofs` carries these results over to the run's own properties, for all
values of its constants: `EditsStay`, `FactorStands`, `RootsStay`, `WindowsCount`,
`DecisionsStand`, `PinsStay`, `AlertsStay`, `HistoryIsKept`, `RepositoriesStay`,
`ScopesStay`, `MapStays`, `PagesStay`, `FixesStay`, `EdgesStay` and, for the types of
all parts, `TypesStay` (`PartsTypeOK`). While a part runs, the run's steps are those of
its module over the shared variables; a lemma for each part says so, by expanding the
definitions as the run and as the module of proofs see them.

The types are proved part by part: `ItemsTyped`, `CodesTyped`, `SignInsTyped`,
`AccountsTyped`, `AccessTyped`, `ConnectionTyped` and `RepositoryTyped` in
`AccountProofs`; `WindowsTyped`, `SyncsTyped`, `EdgeAlertsTyped`, `PostureTyped`,
`MapTyped` and `FixesTyped` in `WatchProofs`; `MembersTyped` in `SideBySideProofs`. Most
follow from the invariants above; some ask for more, and that is what they say of the
code. The steps and versions a request carries are ones given out so far; the findings a
scan still has to ask for are none it has found; nothing on the map was first seen in
the future; and what is asked about a member names a row that was made. The assumptions
say what the types need of the constants: a clock that can tick, bounds that are
numbers, and ports that are no names.

### What is only model-checked

- All liveness (`CondemnedSessionsClose`, `AccountChangeSignsOut`,
  `AutoSyncConverges`, `CodeIsRescanned`, `EveryDeploymentIsJudged`,
  `EveryLinkIsDecided`): the prover does not reason about `ENABLED`, hence not
  about fairness.
- `NothingOrphaned` and `PruneLeavesNothing` in the instance of their run, where
  an apply may fail while a CRD is installed, outside of `Sheltered`.

Every other invariant and safety property of the passing runs is a listed theorem.

Induction over data is out of the prover's reach; no module uses a recursive
operator.


## 5. Left for later

The vault's keyring: enrolment and the rekeying of all its members.

The components under "What is left out" keep no state between requests that
another step decides by, and are not planned.
