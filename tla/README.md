# A TLA+ development for the Unified Platform Operator

UPO is a Kubernetes operator with three custom resources. Its correctness lies
in what happens *between* the API calls of a reconcile: caches lag, users edit
and delete, other controllers act, calls fail, the process restarts. The modules
here model those steps, TLC checks them on small instances, and TLAPS proves the
safety properties of the three controllers and of the webhooks, and that the
Tenant controller implements its abstract specification, for every instance.

## Inventory

| Part | State | Operations | What makes it correct |
|---|---|---|---|
| Tenant reconciler (`tenant_controller.go`) | Tenant status and finalizer; one owned Namespace; ResourceQuota, LimitRange, NetworkPolicy, RoleBinding in it | `Reconcile`, `reconcileTenant`, `finalize`, `fail`, `countChildren`; watches on Tenants, owned objects, Environments and Integrations; 5 min resync | nothing provisioned without a stored finalizer; no work on a dead Tenant; teardown spares live Tenants; every change is acted on; status says what is |
| Environment reconciler (`environment_controller.go`) | Environment status and finalizer; a workload Namespace with *no* owner reference; quota, ConfigMap, Secret; Argo CD / Flux objects | `reconcileEnvironment`, `blockOnDependency`, TTL expiry, `derivePhase`, `finalize`, `fail`; watches Environments only; 3 min / 15 s requeues | no orphaned namespace or engine object; the engine is stopped first; expiry hits the right object; blocked and failed Environments come back |
| Integration reconciler (`integration_controller.go`, `connector.go`) | Integration status with a retry counter; an owned connection Secret | credentials, connection Secret, probe, retry / backoff, `blockOnDependency`, `finalize`, `fail`; watches Integrations and owned Secrets; 2 min / 15 s / backoff requeues | credentials published only for a live Integration and removed before it goes; every failure counted once; Ready only after a successful probe; the delay honoured |
| Platform primitives (`internal/platform`) | none of their own | `CreateOrUpdate` or `Delete` per managed object | idempotent, delete what the spec dropped |
| Conditions (`pkg/conditions`) | `status.conditions` | `MarkTrue`, `MarkFalse`, `MarkUnknown`, `Remove`, `IsTrue` | one entry per type |
| Labels (`labels.go`) | labels of managed objects | `BaseLabels`, `TenantLabels`, `MergeLabels` | the owner's labels win over a user's |
| Admission webhooks | none | defaulting, validation, immutability | the reconcilers only see valid specs; names never change under them; a controller's own update is never refused |
| Metrics | a one-hot phase gauge per object | `SetPhase`, `ClearPhase`, counters | no series outlives its object |
| Manager (`cmd/main.go`) | leader lease | wiring, leader election | one active worker per controller |

How they interact: the Tenant controller publishes `status.namespace`; the
Environment controller reads it from its cache and derives the workload
namespace from it; the Integration controller only asks whether the Tenant
exists. The Tenant controller counts both through a field index and is woken by
their changes. Everything else goes through the API server: optimistic
concurrency on resource versions, finalizers, owner references followed by the
garbage collector, and namespaces drained by the namespace controller.

The hard behaviours, with the line each bites at, are listed under `hazards` in
`PROJECT.json`.

## Modules

| Module | Models |
|---|---|
| `Conditions` | the condition helpers; a condition list is a function from types to statuses |
| `KubeClient` | what the client promises: reads from a cache, `CreateOrUpdate` decided on the cached object and refused by the API server when that is not the current version (external) |
| `Tenant` | the Tenant reconciler with the platform primitives it uses, the API server, caches, queue, timers, garbage collector and namespace controller; its properties and the inductive invariants |
| `TenantLifecycle` | the abstract specification: Tenants, the namespace each publishes, and who may provision or evict it, with no cache, queue or worker |
| `TenantRefinement` | the mapping from `Tenant` to it, and the claim that `Tenant` implements it |
| `MCTenant` | specs and names for TLC |
| `Environment` | the Environment reconciler with configuration, secret projection and GitOps; its properties and the inductive invariant |
| `MCEnvironment` | specs and names for TLC |
| `Connector`, `Backoff` | the pure parts of the Integration controller: which types are probed, what the connection Secret holds, `computeBackoff` over signed words of any width |
| `Integration` | the Integration reconciler with its connection Secret, credentials and probe; its properties and the inductive invariant |
| `Labels` | the label maps |
| `Admission` | the defaulting and validating webhooks of the three kinds, applied to users' and controllers' updates; the labels a Tenant's namespace collects; `Backoff` under every stored policy |
| `MCIntegration`, `MCAdmission` | specs and names for TLC |
| `CommonProofs`, `BackoffProofs` | lemmas about `Conditions` and `KubeClient`, and about the word arithmetic of `Backoff` |
| `TenantProofs`, `TenantWakeupProofs`, `TenantRefinementProofs` | the theorems about `Tenant`: its first invariant and what follows, wakeups and statuses, the refinement |
| `EnvironmentProofs`, `IntegrationProofs`, `AdmissionProofs` | the theorems about these modules |

### State

In `Tenant`, `tenants`, `namespaces`, `children` and `inventory` are the objects
in the API server, and `tcache`, `nscache`, `kcache`, `icache` the informer
caches of them. `nsnews` and `knews` hold, for each namespace and managed object
whose cache is behind, the controllers named by the versions it has not seen:
that is what its watch events will enqueue. `queue` is the work queue, `resync`
the running `RequeueAfter` timers, and `pc`, `req`, `base` the one worker: the
API call it makes next, the request, and the Tenant it read. `gauge` is the phase
series. `Environment` has the same shape, with `engines` for the GitOps objects
(read live, because the manager's client does not cache unstructured objects; one
that has been deleted stays, terminating, until its engine drops the finalizer),
`tenantNs` and `sources` for the cached Tenants and Secrets it reads, and `now`
for lifetimes. `Integration` has `secrets` (the connection Secrets) with their
cache, `tenants`, `auth` and `reachable` for what it depends on, and, in the
worker, `draft` (the status as changed in memory so far), `creds` and `delay`:
what is read early in a pass is used late in it. In `Admission` the state is one
stored object of any kind, because objects do not meet in admission.

How the modules compose. `Environment` and `Integration` see Tenants only through
a cached name or `status.namespace`; both let these change at any moment, which
allows more than `TenantLifecycle` does, so what they show holds next to the
Tenant controller. `TenantLifecycle` is what they may in turn rely on: a
published namespace belongs to a guarded Tenant and never changes. The
specs in the three reconciler modules are as `Admission` stores them: defaulted
and valid, with an identity that no edit changes.

### Actions

Every API call of a reconcile is one action, named after the function or the step
that makes it, guarded by `pc`. The code between two calls is part of the action
of the call before it: computing a status, setting the gauge, choosing the next
step. `WorkerStep(up)` runs the next call; with `up = FALSE` the API server or
the network fails it. So a user's deletion, a cache update or a restart can fall
between any two calls.

| Code | `Tenant` | `Environment` | `Integration` |
|---|---|---|---|
| `Get`, deletion and finalizer checks | `Reconcile`, `FirstStep`, `NotFound`, `AddFinalizer` | the same, with suspension, tenant and lifetime checks in `FirstStep` | the same, with suspension in `FirstStep` |
| early exits | | `Suspend`, `BlockOnDependency`, `Expire` | `CheckTenant`, `BlockOnDependency` |
| provisioning steps | `ReconcileNamespace`, `ReconcileChild` for four kinds | `ReconcileNamespace`, `ReconcileChild` for three kinds, `ReconcileArgo`, `ReconcileFluxRepo`, `ReconcileFluxKustomization` | `ResolveAuthSecret`, `ReconcileConnectionSecret`, `Probe` |
| success, failure | `WriteStatus`, `CountFails`, `Fail` | `WriteStatus`, `Fail` | `UpdateStatus`, `Fail` |
| `finalize` | `Terminate`, `Teardown`, `Release` | `DeleteGitOps` for three kinds, `Teardown`, `Release` | `DeleteConnectionSecret`, `Release` |
| other controllers | `CollectNamespace`, `CollectChild`, `NamespaceGone` | `DrainNamespace`, `NamespaceGone`, `EngineGone`, `EngineReports` | `CollectSecret` |
| `SetupWithManager` | `CacheTenant`, `CacheNamespace`, `CacheChild`, `CacheInventory` | `CacheEnvironment` (other caches raise no events) | `CacheIntegration`, `CacheSecret` |
| `RequeueAfter` | `RequeueAfter`, `Resync` | `RequeueAfter`, `Resync` | `RequeueAfter`, `Resync` |
| webhook | `ValidateUpdate` as the guard of `UpdateTenant` | of `UpdateEnvironment` | of `UpdateIntegration` |

`Admission` has `Create`, `Update` and `Delete` for users, `AddFinalizer` and
`RemoveFinalizer` for the controllers, whose updates are admitted like any other,
and `Stamp` for a pass that labels a Tenant's namespace.

### The refinement

`TenantRefinement` maps a stored Tenant to its stage (absent, new, managed,
deleting), its uid and the namespace its status publishes, and a stored namespace
to its state and controller; the bounds of the model count what the abstract
specification counts as creations and as somebody else's meddling. Caches, queue,
worker, timers, managed objects and the gauge have no image: an upset of one of
these is a `Disturb`, which shows only in the count. TLC checks
`ImplementsLifecycle` for two incarnations of a Tenant, caches lagging and one
upset anywhere; `ReconcilerImplementsLifecycle` proves it.

### Abstractions

- A cache that catches up jumps to the current object; the events of the versions
  in between are not lost (`nsnews`, `knews`).
- Two versions of an object are told apart by their content. UIDs and
  generations make that exact except for `lastReconcileTime` and `lastSyncTime`,
  which are left out: a status write that changes nothing else is a no-op here,
  as it is in the API server within the same second. A write that changed only
  the second would raise one more event and one more pass.
- A request waiting out its rate-limit delay is in the queue: a queued request
  may wait arbitrarily long.
- Reads from a cache do not fail, with the exception of the inventory Lists
  (`CountFails`) and, in `Integration`, of the reads of the Tenant and of the
  credentials, whose error paths differ (`CheckTenant`, `ResolveAuthSecret`).
- A probe is one step that finds the endpoint answering or not. The types the
  prober cannot reach are connected without one, as in the code.
- Durations are in seconds and words have small widths, so that the retry counter
  and the products of `computeBackoff` wrap within reach.
- The credentials in a Secret are one value; a Secret overwritten by others has
  the data `Nil`.
- Names are sequences of dash-free segments, so joining with a dash is
  concatenation and `x-a` + `b` is the same name as `x` + `a-b`.
- In the reconciler modules labels (but for the two that identify a workload
  namespace), events, reasons, messages, metrics counters and the URL are left
  out.
- `Specs` is a set of specs as stored: defaulted and valid. In `Admission` any
  raw spec reaches the webhooks: the schema checks of the CRDs are not applied.
- One worker per controller, since `MaxConcurrentReconciles` is left at 1.
- Every GitOps object is taken to have a finalizer of its engine's: Flux gives its
  objects one, and an Application may have one. `EngineGone` may follow a deletion
  at once, which is what happens without one.
- Garbage collection of GitOps objects is left out of `Environment`: by
  `NoOrphanedEngines` every object of a gone Environment has been deleted already,
  so the collector would delete what is terminating anyway. The one exception is an
  object that a successor of the same name has adopted: that one is terminating
  too, and its owner is alive.

## Runs

`MaxUid` bounds the objects ever created, `MaxGen` the generation a spec edit may
reach, `MaxInventory` the inventory, `MaxTime` the clock. `MaxUpsets` bounds what
is unexpected: API errors, restarts, out-of-band changes and, for Environments and
Integrations, changes of the tenant, of Secrets, of engine reports and of what the
endpoint answers. One upset can fall at every point of every behaviour. Deadlock
is checked in `Admission` only: elsewhere, with users silent and timers spent, the
system may rest.

| Run | Instance | Checks | States |
|---|---|---|---|
| `TenantUpsets` | one Tenant: with a quota, suspended, with limits, with a policy; 1 upset | `TypeOK`, `WakeInv`, `ReadyStatusIsCoherent`, `NoLeakedSeries`, `NoLostWakeup` | 3.2 M |
| `TenantRecreate` | two incarnations of one Tenant with a role binding; 1 upset; fairness | `IndInv`, `FinalizerGuard`, `ProvisionsOnlyExisting`, `ImplementsLifecycle`, `TeardownSparesLiveTenants`, `EventuallyConverged` | 0.4 M |
| `EnvironmentUpsets` | Flux, suspended and Argo CD specs; 1 upset | `TypeOK`, `IndInv`, `ReadyStatusIsCoherent`, `NoLeakedSeries`, `NoLostWakeup` | 2.6 M |
| `EnvironmentRecreate` | two incarnations of an ephemeral Environment, each of either engine; no upset | `WorksOnExisting`, `NoOrphanedEngines`, `EngineStoppedFirst` | 1.2 M |
| `EnvironmentLiveness` | an ephemeral one, a suspended ephemeral one and one that needs a Secret; 1 upset; fairness | `EventuallySettled` | 0.3 M |
| `Integration` | two incarnations of an Integration: probed with credentials and a zero delay, suspended, or of a type that is not probed; 3-bit counter; 1 upset; fairness | `IndInv`, `TypeOK`, `WorksOnExisting`, `CredentialsGoFirst`, `ReadyStatusIsCoherent`, `NoLeakedSeries`, `NoLostWakeup`, `ConnectionInPlace`, `EveryFailureCounted`, `EventuallySettled` | 1.0 M |
| `Admission` | every raw spec over small sets of fields; 6-bit counter, 12-bit durations | `TypeOK`, `ReadmitsUnchanged`, `StoredIsServable`, `DelayIsExponential`, `OwnerLabelsWin` | 3.6 K |

What some of them show. `NoOrphanedEngines` and `EngineStoppedFirst`: whatever an
engine still has of a gone Environment, or of one whose namespace `finalize` is
about to delete, has been told to go, and neither a pass on a stale cache nor a
successor of the name makes an active object out of it. That the objects *are*
gone by then is what the code's comment says, and it is false: `EngineGoneFirst`
below. `EventuallySettled` of an Environment: an expired one goes, with two
exceptions that its definition names (`HeldUp`). `StoredIsServable` says of the
namespace name of a Tenant only that it is not too long; a dot in the Tenant's
name passes the webhook, and the name of a workload namespace is never checked.
`CredentialsGoFirst`: when the finalizer of an
Integration goes, the Secret its status names is gone. `ConnectionInPlace`: at
rest the Secret is the Integration's own and names its endpoint, whatever others
did to it. `EveryFailureCounted`: the counter is read from a cache and written
back, and the resource version alone keeps a count from being lost or repeated.
`NoLostWakeup`: even a policy whose delay is zero, which sets no timer, is
retried, because the counter's change is itself an event. `ReadmitsUnchanged`:
removing a finalizer is an update that both webhooks see, and it is never
refused. `DelayIsExponential` compares `ComputeBackoff` with
`min(initial * 2^(n-1), max)` for every value of the counter, negative ones
included, under every stored policy whose product fits.

Why the bounds are enough: staleness needs two versions of an object (`MaxGen` 2)
or two incarnations (`MaxUid` 2); a lost wakeup needs one event to go missing;
the counter wraps after eight failures, which one endpoint that stays down
brings about; and the properties speak of one object at a time, so one is enough
where names do not collide. Where names matter (`TenantClash`) there are two Tenants.
Two cases are reached by the proofs alone: a cached quota that equals the one of
the current spec while the API server has that of a spec in between (it takes three
generations; `NoLostWakeupHolds`), and two incarnations of an Environment together
with an upset (`EnvironmentRecreate` has none, `EnvironmentUpsets` has one
incarnation; `InductiveInvariant`).

Five runs show where the code does not do what a text of the repository says; each is a finding
in `PROJECT.json`:

| Run | The document | What happens |
|---|---|---|
| `TenantOrphan` | `DeletionPolicyOrphan` "leaves provisioned resources in place" (`shared_types.go:68`) | the namespace carries a controller owner reference, and the garbage collector deletes it |
| `TenantClash` | "teardown safety is handled by the controller finalizer" (`tenant_webhook.go:130`) | a Tenant that lost a name collision still records the namespace, and its deletion deletes it |
| `EnvironmentOrphan` | "there are no orphans" (`docs/architecture.md:97`) | an Environment deleted between the creation of its namespace and the status write leaves the namespace behind |
| `EnvironmentEngine` | "explicit deletion in the finalizer guarantees the external engine stops syncing before the workload namespace is torn down" (`gitops.go:69`) | the deletion is only requested; a Kustomization that waits for Flux is still there, and may still be applied, while its namespace terminates |
| `IntegrationBackoff` | "InitialDelay is the delay before the first retry" (`integration_types.go:76`), "at the resync cadence rather than tight backoff" (`integration_controller.go:208`) | the status write of a failed probe is a watch event, nothing filters it, and the next probe follows at once while the timer runs |

Other differences seen while modelling, with no run of their own:

- NetworkPolicies and RoleBindings are not watched although the loop "re-runs on
  every change to a managed resource" (`README.md:67`); the resync repairs them, as
  `EventuallyConverged` shows for a RoleBinding;
- after suspend and resume a Tenant may say Ready while the API server still has
  the quota of the suspension, until that quota's own watch event arrives, although
  Ready means that the observed state "fully matches" (`docs/crds.md:104`);
- an Environment whose engine reports an error says Ready, since every pass that
  gets to its end does (`environment_controller.go:172`), beside phase Degraded and
  a true Degraded condition, although Ready means a full match
  (`shared_types.go:36`, `docs/crds.md:104`); `ReadyStatusIsCoherent` of
  `Environment` counts that as coherent and says what does hold;
- an expired Environment stays as long as it is suspended, or its tenant has no
  namespace, because both are looked at before the lifetime, although the TTL is
  the time "after which the controller deletes it" (`environment_types.go:126`;
  "ttl lapsed (ephemeral) → deleted", `docs/architecture.md:145`); `EventuallySettled`
  names both cases;
- `EnsureNamespaceDeleted` is done as soon as it has asked for the deletion, so no
  finalizer waits "until gone" (`docs/architecture.md:62`);
- suspending a Tenant sets a zero-pods quota and leaves the NetworkPolicy alone,
  although workloads are "cordoned via an updated NetworkPolicy and a zero-pods
  ResourceQuota override" (`tenant_types.go:97`);
- `suspend` leaves an Environment's GitOps objects syncing
  (`environment_types.go:151`);
- `observedEndpoint` "echoes the endpoint last successfully validated"
  (`integration_types.go:219`) but is set before anything is validated;
- the `SecretResolved` and `Connected` conditions are never cleared;
- extra labels override `managed-by` and `part-of` although `TenantLabels` says they
  never override reserved keys (`labels.go:55`).

### Fairness

Weak fairness on the worker's calls that do not fail, on the caches, timers,
garbage collector, namespace controller, the engines' finalizers (per object) and
the clock: each is a loop of a running process. For Tenants it is joint over all informers, and over all cluster
controllers, which is weaker than fairness of each. Strong fairness on dequeuing
each key, because the queue hands out keys in turn while another key may keep the
worker busy. None on users, administrators, the engines' reports, endpoints,
failures or restarts. Liveness is stated as `<>[]`: since those actions are bounded, it says
what the system converges to after the last of them.

## Proofs

Every invariant and every action property of a passing run that is not a liveness
property is also a theorem, for every set of objects and specs and every bound.
The assumptions are named in the modules that declare the constants and evaluated
by TLC on each run: the placeholder `Nil` is none of the values it stands beside
(`NilAssumption`), bounds are natural numbers (`BoundsAssumption`), words have at
least one bit (`WidthAssumption`), and the specs and policies users may send have
the fields the API types give them (`SpecsAssumption`, `PoliciesAssumption`). Two
theorems are stated under `NamesDistinct`, which the code does not guarantee; see
below.

| Module | Theorem | States |
|---|---|---|
| `TenantProofs` | `TypeCorrect` | `[]TypeOK` |
| | `InductiveInvariant` | `[]IndInv` |
| | `FinalizerFirst` | `[]FinalizerGuard` |
| | `ProvisioningIsOfExisting` | `[]ProvisionsOnlyExisting` |
| | `SeriesAreCleared` | `[]NoLeakedSeries` |
| | `TeardownIsSafe` | `TeardownSparesLiveTenants`, under `NamesDistinct` |
| `TenantWakeupProofs` | `WakeupInvariant` | `[]WakeInv` |
| | `ReadyStatusIsCoherentHolds` | `[]ReadyStatusIsCoherent` |
| | `NoLostWakeupHolds` | `[]NoLostWakeup` |
| `TenantRefinementProofs` | `ReconcilerImplementsLifecycle` | `ImplementsLifecycle`, under `NamesDistinct` |
| `EnvironmentProofs` | `TypeCorrect`, `InductiveInvariant` | `[]TypeOK`, `[]IndInv` |
| | `WorksOnExistingHolds`, `NoOrphanedEnginesHolds`, `EngineStoppedFirstHolds`, `ReadyStatusIsCoherentHolds`, `NoLeakedSeriesHolds`, `NoLostWakeupHolds` | the invariants of those names |
| `IntegrationProofs` | `TypeCorrect`, `InductiveInvariant` | `[]TypeOK`, `[]IndInv` |
| | `WorksOnExistingHolds`, `CredentialsGoFirstHolds`, `ReadyStatusIsCoherentHolds`, `NoLeakedSeriesHolds`, `NoLostWakeupHolds`, `ConnectionInPlaceHolds` | the invariants of those names |
| | `EveryFailureIsCounted` | the action property `EveryFailureCounted` |
| `AdmissionProofs` | `TypeCorrect`, `ReadmitsUnchangedHolds`, `StoredIsServableHolds`, `DelayIsExponentialHolds` | the invariants of those names |
| | `OwnerLabelsAlwaysWin` | the action property `OwnerLabelsWin` |

`NamesDistinct` says that no two tenants can ask for one namespace name. It is
needed: `TenantClash` is the counterexample to `TeardownSparesLiveTenants` without
it, and an abstract eviction by a stranger is what that counterexample shows of
the refinement. `NoLostWakeupHolds` does not need it.

### The arguments

None of the properties is inductive by itself, because each depends on what a
stale copy of an object still says about the stored one.

**Tenant, what exists.** `IndInv`: a held version with a finalizer that is not
deleting is of a Tenant that still exists with its finalizer, since only the
worker removes a finalizer, and only from a deleting Tenant (`VersionsOK`); the
cache is never behind the worker, so once the worker finalizes an object nobody
sees it alive again (`WorkerOK`); namespaces carry names and owners of Tenants
that existed, and the cache has seen the owner of each (`NamespacesOK`,
`ChildrenOK`); a series exists only for a Tenant that is cached or queued
(`SeriesOK`). `StepMoves` first reduces every action to what it may do to each
part of the state; each conjunct then has one preservation lemma over those moves.

**Tenant, wakeups.** `WakeInv`, inductive relative to `IndInv`. `NewsOK`: as long as
a cache is behind, the events due name the controller of the version it has.
`PassOK`: what a running pass has dealt with is in place, or an event that wakes
its Tenant is due, or its request is queued again; the case that needs care is a
`CreateOrUpdate` that found the cached object as desired and made no call while the
stored one had already changed. `QuietOK`: a Tenant that is cached as stored, not
queued and not worked on is live, in place in the same sense, and its status is
the one the pass computed; the only way into that state is a status write that
changed nothing. `GenerationsOK` says why: a version the worker holds that is
still the current one is the cached one, because a user's edit raises the
generation and a new Tenant has a new UID. Every step but a restart is first
reduced to a signal (`NamespaceSignal`, `ChildSignal`: nothing, a write that adds to
the events, a catch-up that delivers them), and `InPlaceKept` carries what is in
place across any of them. Where two tenants share a namespace name, the pass of
one can reach the other's namespace only on a stale cache, and then the other is
about to be woken (first conjunct of `PassOK`).

**The refinement.** From `IndInv`, `NamesDistinct` and `PublishedOK` (a stored status
names no namespace or the one derived from the spec, whose prefix never changes
for a UID), each action is shown to be a step of `TenantLifecycle` or to leave the
mapped state alone: `AddFinalizer` is the step that guards a Tenant, a status write
the one that publishes, the namespace step provisions, `Teardown` and the garbage
collector evict, `Release` removes. Because `TenantLifecycle` has no fairness,
the whole of `ImplementsLifecycle` is proved.

**Environment and Integration.** Their `IndInv` has the same first part
(`StoredOK`, `CachedOK`, `HeldOK`, with `Follows` for "not older"). For an Environment
it adds what the pass has come to at each step (`PassOK`), which engine objects
`finalize` has told to go by then (`StoppedOK`), and that an active engine object
belongs to an Environment that exists (`NoOrphanedEngines`; `EngineMoves` shows that
an object becomes active only when the worker applies it for the Environment it
holds). For an Integration it adds what the status in memory says
at each step (`DraftOK`: a failed probe has been counted, a Ready one is coherent, a
pass that sets no timer changes the status) and that the Secret written by the pass
is in place or an event of it is due (`SecretsOK`). In both, the wakeup and status
invariants are conjuncts of `IndInv`: they support each other.

**Admission.** `TypeOK` and `ReadmitsUnchanged` are inductive together: a stored
object has every default and passes admission again unchanged. They follow from two
lemmas about the webhooks: what defaulting returns is complete (`DefaultCompletes`), and defaulting
leaves a complete spec alone (`DefaultKeepsComplete`). `DelayIsExponential` rests on
`BackoffIsExponential`: for words of any width, under the shift cap, the shift does
not wrap when the product fits. `BackoffProofs` gets what it needs of powers of two
from counting the subsets of `1..n`, with no induction of its own.

Two proofs failed at first for good reasons. `ConnectionInPlace` did not survive a
second upset: `CacheSecret` enqueued the owner named by the last versions only, and
a Secret created and deleted between two looks of the cache woke nobody. Every
event of that Secret names the Integration, so `EnqueueOwner` now always does.
The refinement failed for an upset that touches no namespace, for which the
lifecycle had no step; it has `Disturb` now, and `Meddle` always changes a namespace.

Only model-checked: `EventuallyConverged` and the two `EventuallySettled`, since
liveness under fairness is out of the prover's reach; and the five runs that expect
a violation, which are counterexamples and not theorems.

## Not modelled, and the plan

Not modelled:

- tracing, reconcile counters and histograms: write-only, nothing reads them;
- generated deep copies, flag parsing and the wiring in `cmd/main.go`, Helm charts
  and manifests: no state of their own;
- the HTTP exchange of a probe: I/O, reduced to whether the endpoint answers;
- two managers at work during a rollout (`LeaderElectionReleaseOnCancel`): a second
  worker with its own caches multiplies the states past what TLC can do here;
- two Environments that derive the same workload namespace, and a Tenant recreated
  under another prefix below its Environments: the module admits both, no run
  does; the repository does not say what should happen;
- an `authSecretRef` that names an Integration's own connection Secret: `AuthSecrets`
  are the users' own.

Next: the invariants at rest say what holds when nothing is pending; the bound on
how many passes that takes, and the properties of the abstract lifecycle itself
(a published namespace never changes for a UID), stated on `TenantLifecycle` and
carried over by the refinement.
