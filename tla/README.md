# Model-checking qubership-consul

This directory holds TLA+ models of the Go programs in `src/`. TLC checks them.
The bulk of the work is on the ACL operator, `consul-acl-configurator-operator`,
which keeps Consul's ACL policies, roles and binding rules in line with
`ConsulACL` custom resources (CRs).

## 1. Inventory of the system

| Part | Source | State | Operations | Interacts with |
|---|---|---|---|---|
| Reconcile driver | `controllers/consulacl_controller.go` `Reconcile` 69–126, `applyACL` 242–262, `deleteACL` 146–160, predicate 129–144 | CR (spec, generation, finalizer, deletion timestamp, status); one work queue per controller | read the CR; add the finalizer; apply or delete; write the status; requeue after `periodTime` | API server, Consul, work queue |
| Entity syncers | `processPolicies` 275–319, `processRoles` 321–362, `processBindRules` 386–417, `getPolicyLinks` 373–384 | `processedPolicies`, the three status maps, the `err` variable | per entity: name check, lookup by name, create or update, record status | Consul |
| Deletion coordinator | `deleteAclEntities` 162–175 and helpers 177–236 | none besides Consul | delete binding rules (list and scan), then roles, then policies; stop at the first error | Consul |
| Naming resolver | `convertEntityName` 238–240 | – | `name_namespace_entity` | – |
| Status aggregator | `acl_api_provider.go` `GetStatus` 61–76 | – | render a status map to text | CR status |
| CR updater | `util/cr_updater.go` 39–57 | – | Get, modify and Update, retried on conflict | API server |
| Operator main | `main.go` | – | registers the reconciler **twice** (100–107 and 127–134) | manager |
| REST endpoint | `rest-acl-configurator/cmd/main.go` | – | authenticate a token, check its namespace, touch `spec.reconcile` on every ConsulACL CR | API server |
| Token GC | `remove-tokens/remove-tokens.go` | – | list live pods, list tokens, delete tokens of dead pods except the newest | Kubernetes, Consul |
| Disaster recovery | `disaster-recovery/main.go`, `clients/*` | – | switch mode active/standby/disable; run a backup or restore and poll it | Kubernetes, backup daemon |

Hard behaviours found in the code:

- **Concurrency.** Each controller's work queue never hands out the same key twice at once. But `main.go` registers two controllers for ConsulACL, and each has its own queue, so one CR can be reconciled by two workers at the same time.
- **Events.** The generation-changed predicate filters out status-only updates and periodic resyncs. A cycle that ends without a requeue is therefore not run again until the spec changes.
- **Requeue.** `RequeueAfter: periodTime*1s` is 0 when the environment variable is missing or malformed. A value of 0 means no requeue.
- **Errors.** Lookups return `(nil, nil)` for *any* error (`readRole` 432–439, `readPolicy` 441–448). The model has `ReadRole` and `ReadPolicy` for this. In `processPolicies` and `processRoles`, `err` is overwritten by each call, so only the last call's net error counts.
- **Lost replies.** A net error may come back for a write that Consul carried out.
- **Binding rules.** They are created on every cycle (the TODO at 389).
- **Deletion.** It deletes what the *current* document declares. Entities that an earlier edit dropped are left behind.

## 2. Modules

### `ACLReconciler` (core)

The state is Consul (`policies`, `roles`, `bindingRules` and `nextId`), the CR (`cr`), and the queues (`queued[w]`). Each worker also has state for its `Reconcile` call in progress:

- `pc`;
- `snap`, the decoded document;
- `idx`, `found` and `err`;
- `resolved`, which is `processedPolicies`;
- `st`, the status maps;
- `delSet`, the binding rules still to delete.

**One Consul call is one step.** The steps of workers and users interleave between calls. Each worker action is named after the piece of code it runs:

| Actions | Code |
|---|---|
| `Dequeue`, `ReconcileGone`, `ReconcileActive`, `ReconcileDelete` | `Reconcile` 69–104 |
| `PolicyMissingName`, `PolicyLookup`, `PolicyWrite`, `PoliciesDone` | `processPolicies` |
| `Role*` | `processRoles` |
| `BindRule*` | `processBindRules` |
| `WriteStatus` | 114–125 |
| `ListBindingRules` … `RemoveFinalizer` | the deletion helpers |

The environment actions are:

- `CreateCR` and `EditSpec` (users);
- `CommonReconcile`, the effect of rest-acl-configurator's `changeReconcileSpecField`: a spec change that bumps the generation;
- `DeleteCR`;
- `OperatorRestart`, which drops every call in progress and re-lists the CR.

Faults are bounded by `MaxFaults`. A Consul write may fail with `"net"` or `"server"`. A `"net"` failure may or may not have been applied (`Applied`). An API-server update may fail as a whole, because `RetryOnConflict` only retries conflicts. Consul itself enforces three rules: names are unique, links must name existing policies, and a delete of a missing id succeeds.

Two abstractions:

- Qualified names are the triple `<<cr name, namespace, entity>>` that the string is built from.
- Only one CR is modelled. Other CRs own disjoint names.

### `TokenGC` (remove-tokens)

The model's environment has three parts:

- `phase[p]` holds each client pod's phase: Absent, Pending, Running or Terminated.
- `Login(p)` is the agent's login. It creates a token whose description is `{"component":"client","pod":"ns/p"}`, with a strictly increasing CreateTime. It also sets `held[p]`, the token the agent now uses. A login is possible while the pod is Pending when an init container logs in (`PendingLogins`).
- `tokens` is the Consul token store. It also holds a bootstrap token, a server token, a client token with an empty pod, a description with broken JSON, and a token left by an earlier pod named `p1`.

The job's steps are those of `main`:

1. `ListPods` is `getLiveConsulPods`. It keeps Running pods only.
2. `FetchTokens` is `fetchConsulTokens` followed by `groupTokensByPod` and `pickTokensToDelete`.
3. `DeleteToken` runs one iteration of `deleteTokens`, in map order. A failed request is skipped.

Either of the first two steps may fail and end the job (`log.Fatal`). The pods change between any two steps.

`ParseDescription`, `PodKey`, `GroupTokensByPod` and `PickTokensToDelete` are operators. The sort is `SetToSortSeq` with the code's `After` order.

### `RestHandler` (rest-acl-configurator)

Each request goes through these steps:

1. `CheckAuth`: the TokenReview, then `checkAuthorization` against `allow` (ALLOWED_NAMESPACES, chosen at start).
2. `ListCRs`.
3. One `UpdateCR` per listed object. The object's `shape` decides between an update, `result = false`, or a panic.
4. `UpdatesDone`.

The update carries the listed resourceVersion, so `OperatorWrite` (the operator's finalizer and status writes) and other requests can make it conflict. Any other error of `Update` (transport, RBAC, timeout) can refuse it too; both set `result = false` (`ApplyUpdate`). The update is sent without `.Namespace(...)`. That is right for a cluster-scoped ConsulACL (`consulacl_types.go:43` marks the client `nonNamespaced`). For a namespaced one, every update would fail, which is this same refusal on every CR. The repository has no CRD manifest that fixes the scope.

The response is modelled with net/http's semantics: the first `Write` fixes status 200, and a later `WriteHeader` is ignored. A panic closes the connection without an answer, because the recover handler's `err.(string)` panics again.

### `DisasterRecovery` (disaster-recovery)

This module covers `drFunction` for one switchover request, and up to `MaxReruns` further calls of it for the same request. The state is:

- `req`, the request (mode and `noWait`), and `cm`, the DR config map (`status-mode`, `status-status`, `mode`);
- `backups`, the daemon's backups, each reduced to its id, whether it is a valid full backup, and its `custom_vars` region;
- `jobs`, the daemon's backup and restore jobs;
- `replicas` and `daemonReady`, the backup-daemon Deployment;
- the function's own progress: `pc`, `polls` (attempts of the poll in progress), `handle` (the id the client holds) and `target` (the backup it asked to restore);
- `reruns`, how many times the function was called again;
- `creds`, whether the backup-daemon client got the credentials of its secret.

Every Kubernetes or backup-daemon call is one step. Its outcome is ok, 4xx, 5xx or a transport error, and failures are bounded by `MaxFaults`. A transport error on a POST may still have started a job. The outcomes follow `SendRequestWithStatusCodeCheck`: only 5xx and transport errors are errors, and a 4xx body is returned as if it were the answer. Each `PollUntilContextTimeout` makes at most `MaxPolls` attempts. Running out of attempts is the timeout error.

`getLastFullBackup` is an operator over the listed backups sorted newest first (`SortedBackups`, a `SortSeq`). It walks them as the loop does: one `listbackups/<id>` call per backup up to the first restorable one (`InfoCalls`), and an attempt may have any one of those calls fail. A call whose answer does not decode ends the attempt with its error, and the poll retries. A 4xx answer is no error to `SendRequestWithStatusCodeCheck`, so its body is decoded as a `BackupInfo`. If that body is JSON (`JSONInfo4xx`), it decodes as an empty record, which is not restorable, and the loop goes on to older backups. dr_safety takes such a body as not JSON. With `JSONInfo4xx = TRUE`, TLC finds `RestoresNewestForeignBackup` violated: a 4xx on the newest eastern backup's information makes the switchover restore the older one. No run keeps that configuration, because the daemon's error bodies are not part of this repository; the case is listed as a hazard.

`getBackupDaemonClient` reads the daemon's secret once the Consul servers are ready (`GetBackupDaemonClient`). A failed read is only logged, and the client then sends no basic auth. The daemon, deployed with that secret, answers every call with 401. The list does not decode and is retried, a backup POST hands its error text to the status poll, and the status poll sees 401. The switchover then fails at the timeout. The failed read counts as the fault; the 401s that follow do not. Between the function's steps, the daemon's jobs finish (successfully or not) and the Deployment settles.

`Rerun` is the same switchover run again. It happens after the function returned an error, or after the service restarted in the middle of it. The config map then says `status-status` is "failed" or "running", and lines 76-77 of `main.go` treat that as a reason to act. The new call starts with fresh clients: no handle, no target and a fresh poll. It runs against whatever the earlier call left behind: the Deployment's scale, jobs still running, and backups taken.

### `NamingResolver`

`ConvertEntityName` renders `convertEntityName` as a sequence of characters. `ParseEntityName` is a reference reading: it splits at the first two `_`. `ACLReconciler` represents names by the triple they are built from. That is sound only if the rendering is injective, so `MC_ACLReconciler` states it as an `ASSUME`, and TLC checks it before every run of that module. The check covers:

- resource names over `a`, `-` and `.` (DNS subdomains);
- namespaces over `a` and `-` (DNS labels);
- entity names over `a`, `_` and `-`;
- every part up to two characters long.

Kubernetes names never contain `_`, and that is what makes the rendering injective. A `-` separator would break it.

### `MC_ACLReconciler`

This module defines three small ACL documents over the entities `read`, `write`, `reader` and the empty name:

- `DocRead`;
- `DocReadWrite`, which also has empty names;
- `DocReadOnly`, which drops `write`.

It also defines the owner `<<"app","ns">>` and the document sets used by the cfgs.

## 3. Runs

| Run | cfg | Expect | What it shows |
|---|---|---|---|
| reconcile_safety | `MC_ACLReconciler.cfg` | pass | See below. |
| lookup_swallow | `MC_lookup_swallow.cfg` | violation | A failed `RoleReadByName` during deletion counts as "already deleted". The finalizer goes while the role is still in Consul (`readRole` 434). |
| double_controller | `MC_double_controller.cfg` | violation | With the two registrations in `main.go`, one worker deletes and removes the finalizer while the other is still creating. Entities remain with no fault at all. |
| edit_orphan | `MC_edit_orphan.cfg` | violation | An edit that drops `write` leaves policy `write` in Consul forever. |
| lost_net_error | `MC_lost_net_error.cfg` | violation | A net error on `read` is overwritten by the success on `write`. The cycle neither fails nor requeues, so `read` is never created (`<>[]Synced` fails). |
| token_gc_safety | `MC_TokenGC.cfg` | pass | Pods start, log in and stop between every step of the job. Under that churn: the picked set equals the reference definition of a stale token (`PickMatchesReference`); a pod the job saw Running keeps the token it uses (`ObservedLivePodsKeepToken`); only client-login tokens are ever revoked (`OnlyLoginTokensRevoked`). |
| tokens_race | `MC_tokens_race.cfg` | violation | Logins happen only from Running pods. Even so, a pod that starts and logs in between the pod list and the token fetch has its only token revoked (`AliveKeepsLatestToken`, the code's "pod is alive -> keep latest token"). With `PendingLogins = TRUE` the same property also fails for a Pending pod that has already logged in (remove-tokens.go:110). |
| rest_safety | `MC_RestHandler.cfg` | pass | Two concurrent requests, every kind of token, every CR shape, and an operator write. Only admissible callers change a spec (`UpdatesOnlyAdmissible`), and "Reconciliation done!" means every listed CR got a new generation (`DoneMeansEveryCRTouched`). |
| rest_status_code | `MC_rest_status_code.cfg` | violation | A denied request gets "Access denied" with status 200. |
| rest_claim_panic | `MC_rest_claim_panic.cfg` | violation | A token without the flat namespace claim panics the handler, and the request is never answered. `UpdateCR` has the same panic for a CR without a spec map (main.go:178), and rest_safety reaches it, but this run's counterexample is the claim panic. |
| dr_safety | `MC_DisasterRecovery.cfg` | pass | Covers every request against every stored status, with refused, failing and lost calls (any one call of `getLastFullBackup`'s walk among them), a failed read of the daemon's secret, and one rerun after a failure or a restart. The switchover always returns, and the last call stays returned (`SwitchoverReturns`). A restore, on any call, always targets the newest full backup of the other region (`RestoresNewestForeignBackup`). A standby switchover that found the daemon scaled up returns success only after a successful backup and a settled scale-down (`StandbyDoneMeansBackupTaken`). |
| dr_restore_404 | `MC_dr_restore_404.cfg` | violation | The daemon refuses `POST restore` with a 4xx. Its error text becomes the job id. `jobstatus/<text>` answers 404, `CheckRestoreStatus` takes that as completed, and the switchover to active returns success with no restore run (`RestoreDoneMeansRestored`). |

The reconcile_safety run uses one controller, both fault kinds with `MaxFaults = 2`, two edits or touches, restarts, and documents that decode or not. It checks:

- `TypeOK`;
- `FinalizedCleanup`: when the CR is gone, nothing its last document declares is in Consul;
- `RoleLinksMatchStatus`: when a cycle reaches its status write, every role it reports created or updated links in Consul exactly those of its declared policies that the same cycle reports created or updated. This is the spec's "dropped link" behaviour and its scenario 3. It ties together `processedPolicies`, `getPolicyLinks`, the status labels and what Consul accepted;
- `NoDanglingReferenceOnDelete`: deletion never removes a role that a binding rule names, or a policy that a role links;
- `DeletionCompletes`: a deleting CR whose document decodes is eventually removed.

Each property of the passing run has a mutant, a plausible bug that TLC finds:

| Mutant | Property it breaks |
|---|---|
| Resolving a failed lookup | `TypeOK` |
| Continuing the deletion after a failed role delete | `FinalizedCleanup` |
| Linking every declared policy that Consul holds, instead of those the policy pass resolved | `RoleLinksMatchStatus` |
| Deleting only the first matching binding rule | `NoDanglingReferenceOnDelete` |
| Failing a deletion without a requeue | `DeletionCompletes` |

The other passing runs have one mutant per property too. Each is listed in `PROJECT.json`. For example:

- token_gc_safety: `PickTokensToDelete` sorting oldest first, or starting its loop at 0.
- rest_safety: an update that ignores its refusal, or an auth check that skips the TokenReview. rest_safety checks no type invariant: with every branch of the handler in the model, no plausible bug gives a variable a value outside its type.
- dr_safety: a poll with no timeout; a daemon-readiness wait with no deadline; `getLastFullBackup` taking a failed information call as "not restorable" and going on; a backup poll that accepts a 404 as `CheckRestoreStatus` does.

### Bounds

These bounds are enough for the behaviours above:

- Two faults allow a failure in the apply path and another in the deletion path, or a lost reply followed by a retry.
- Two edits allow an edit plus a common reconcile.
- `PeriodTime = 1` in every cfg: the period is set. With `PeriodTime = 0` (the variable unset or malformed, `consulacl_controller.go:55`), `RequeueAfterPeriod` is false and nothing is requeued. No run checks that case; it is listed as a hazard.
- Three documents (one of them undecodable) exercise both the decode-error branch and a real spec change.
- Each document has two policies, so a policy can be linked or not.
- DisasterRecovery uses the following bounds:
  - `MaxFaults = 1` in dr_safety allows one refused, failing or lost call. That is enough for a lost POST followed by a retry, a 4xx job id, and a failed scale that leads to a rerun. The dr_restore_404 run keeps `MaxFaults = 2`. dr_safety uses 1 so that the liveness check stays within minutes.
  - `MaxPolls = 2` lets a poll both retry and time out.
  - The poll's period is not modelled; only the number of attempts matters. `jobstatus/<text>` is modelled as a GET that answers. A 4xx error text with control characters would make `http.NewRequest` fail, and the poll would then retry until it timed out. The daemon's error texts are not in this repository.
  - `JSONInfo4xx = FALSE` in both runs: a 4xx body of `listbackups/<id>` is not JSON. `JSON404 = TRUE`: the 404 body of `jobstatus` is.
  - `MaxReruns = 1` lets a failed or interrupted switchover run once more against what the first call left.
  - Five backups cover each way of being eligible or not: own region, not full, no `custom_vars`, and two eligible ones so that the order matters. A second list holds no eligible backup, which reaches the "no backup" branch.

Larger bounds add only longer repetitions of the same steps.

### Fairness

There is weak fairness per worker. A controller-runtime worker keeps taking keys from its queue while the process runs, and every Consul call returns or times out. The users and the operator restarts have no fairness: they may stop at any time. Liveness is therefore claimed only for what the controller does by itself. TokenGC and DisasterRecovery have weak fairness on the job's and the function's own steps. Both are single sequential processes. The cluster and the daemon owe them nothing. DaemonSettles, JobFinishes and Rerun have no fairness: a Deployment may never become ready, a job may never finish, and a failed switchover need not be requested again. `SwitchoverReturns` therefore holds only because every wait in `drFunction` is a `PollUntilContextTimeout` with a deadline. The mutant that replaces the daemon-readiness wait with one that has no deadline violates it. The models let every HTTP call return. The daemon client's `http.Client` has no timeout, so a call that hangs would block the function forever. That case is listed as a hazard.

## 4. Not modelled yet, and the plan

1. Done: **TokenGC** and **RestHandler** (above).
2. Done: **NamingResolver** (above).
3. **StatusAggregator**: not modelled. `GetStatus` renders a status map as text, in Go's random map order, and writes the `innerErrorHandlingItem` value twice. The text feeds no decision, because status-only updates fail the generation predicate. It is formatting, so the models keep only the maps.
4. Done: **DisasterRecovery** (above), including reruns of a failed or interrupted switchover. The DR daemon library that writes the config-map status and calls `drFunction` is outside the repository. Its behaviour enters the model only as `Rerun` and the initial config maps.
5. Not kept: an abstract ownership specification with the reconciler as its refinement. With one worker it said no more than `FinalizedCleanup`, and its other clauses (revoke only while deleting) held by the shape of the deletion path.
6. Not modelled: Consul's own name rules. A resource name containing `.` produces Consul names that Consul rejects. This is listed as a hazard.
7. Not modelled: the operator's `main.go` (flags, cache namespaces, probes). Its one behavioural fact, that two reconcilers run for the kind, and several replicas without leader election, is what `Workers` stands for.
8. Not modelled: Consul client agents of other namespaces. TokenGC's pods all live in `CONSUL_NAMESPACE`. `podKey` drops the namespace of a token's pod, and only that namespace's pods are listed, so another namespace's clients would lose their tokens. Whether such clients exist depends on the deployment. This is listed as a hazard.

Out of reach: HTTP and Kubernetes client plumbing, TLS and flag parsing. These are pure I/O. Their outcomes enter the models as nondeterministic results.
