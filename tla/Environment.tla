---------------------------- MODULE Environment ----------------------------
(***************************************************************************)
(* The Environment reconciler (internal/controller/                        *)
(* environment_controller.go) with the workload namespace, configuration,  *)
(* secret projection and GitOps primitives it drives, and the parts of     *)
(* Kubernetes it depends on.                                               *)
(*                                                                         *)
(* An Environment provisions a workload namespace whose name is derived    *)
(* from its tenant's.  The namespace cannot carry an owner reference, so   *)
(* nothing but finalize() removes it, and the controller watches nothing   *)
(* but Environments: drift is found by the periodic requeue.               *)
(*                                                                         *)
(* Typed objects are read from informer caches; the GitOps objects are     *)
(* unstructured, which the manager's client reads from the API server.     *)
(* As in Tenant, a cache that catches up jumps to the current object, a    *)
(* rate-limited request is in the queue, names are sequences of segments,  *)
(* and labels other than the two that name the Environment, events,        *)
(* timestamps, messages and the URL are left out.                          *)
(***************************************************************************)
EXTENDS Integers, Sequences, FiniteSets, Conditions, KubeClient

CONSTANTS
    Environments,     \* keys of Environments: [namespace, name]
    Specs,            \* the EnvironmentSpecs users may store: defaulted, valid
    Tenants,          \* tenant names
    TenantNamespaces, \* the values of Tenant.status.namespace
    Secrets,          \* names of source Secrets
    Nil,              \* no object, no request, no value
    MaxUid,           \* bound: Environment objects ever created
    MaxGen,           \* bound: the generation a spec edit may reach
    MaxTime,          \* bound: the clock
    MaxUpsets         \* bound: API errors, restarts, out-of-band changes

\* The objects of a workload namespace, and the GitOps objects beside the
\* Environment.
Kinds       == {"quota", "config", "secrets"}
EngineKinds == {"argo", "repo", "kustomization"}

Phases         == {"None", "Pending", "Syncing", "Healthy", "Degraded",
                   "Suspended", "Failed", "Terminating"}
ConditionTypes == {"Ready", "Progressing", "Degraded"}
SyncPhases     == {"Synced", "OutOfSync", "Unknown", "Error"}

\* The program counter names the next API call of the running reconcile.
ProvisionSteps == {"namespace", "status", "fail"} \cup Kinds \cup EngineKinds
ShortSteps     == {"addFinalizer", "suspend", "block", "expire"}
StopSteps      == {"stopArgo", "stopKustomization", "stopRepo"}
FinalizeSteps  == {"teardown", "release"} \cup StopSteps
Steps == {"idle"} \cup ShortSteps \cup ProvisionSteps \cup FinalizeSteps

-----------------------------------------------------------------------------
\* What a spec asks for.

\* fmt.Sprintf("%s-%s", tenant.Status.Namespace, env.Name): the namespace the
\* Environment lives in is no part of the name.
WorkloadName(e, tenantNamespace) == tenantNamespace \o e.name

Workloads == {WorkloadName(e, tn) : e \in Environments, tn \in TenantNamespaces}

Quota(cpu, mem, pods) == [cpu |-> cpu, memory |-> mem, pods |-> pods]

ProfileQuota(profile) ==
    CASE profile = "small"  -> Quota(2, 4, 20)
      [] profile = "large"  -> Quota(8, 16, 80)
      [] profile = "xlarge" -> Quota(16, 32, 160)
      [] OTHER              -> Quota(4, 8, 40)

\* The selected secrets that are there; missing ones are skipped if optional.
Projected(spec, available) == {s.name : s \in spec.secrets} \cap available

Resolvable(spec, available) ==
    \A s \in spec.secrets : s.name \in available \/ s.optional

Desired(spec, available, k) ==
    CASE k = "quota"   -> ProfileQuota(spec.profile)
      [] k = "config"  -> IF spec.variables = {} THEN Nil ELSE spec.variables
      [] k = "secrets" -> IF spec.secrets = {} THEN Nil ELSE Projected(spec, available)

\* What a GitOps object tells its engine to deliver, and where.
Delivery(spec, workload) == [source |-> spec.source, workload |-> workload]

\* The engine's own words, reduced to a sync phase.
NormalizeArgoSync(s) ==
    CASE s = "Synced"    -> "Synced"
      [] s = "OutOfSync" -> "OutOfSync"
      [] s = ""          -> "Unknown"
      [] OTHER           -> "Error"

NormalizeFluxReady(s) ==
    CASE s = "True"  -> "Synced"
      [] s = "False" -> "Error"
      [] OTHER       -> "Unknown"

Reports(k) == CASE k = "argo"          -> {"", "Synced", "OutOfSync", "Unknown"}
                [] k = "kustomization" -> {"", "True", "False"}
                [] k = "repo"          -> {""}

\* The labels that name the Environment on its workload namespace.
Labels(e, spec) == [tenant |-> spec.tenant, env |-> e.name]

-----------------------------------------------------------------------------
\* The status each outcome of a reconcile writes, computed on the object read.

NewStatus ==
    [phase |-> "None", conditions |-> [c \in ConditionTypes |-> "Absent"],
     observedGeneration |-> 0, workload |-> Nil, sync |-> Nil]

NotReadyStatus(env, phase) ==
    [env.status EXCEPT
        !.phase = phase,
        !.conditions = MarkFalse(env.status.conditions, "Ready"),
        !.observedGeneration = env.gen]

SuspendedStatus(env) == NotReadyStatus(env, "Suspended")
BlockedStatus(env)   == NotReadyStatus(env, "Pending")

\* derivePhase: the engine's outcome decides, or its absence.
DerivedPhase(sync) ==
    CASE sync \in {Nil, "Synced"} -> "Healthy"
      [] sync = "Error"           -> "Degraded"
      [] OTHER                    -> "Syncing"

\* Mutant: Degraded is not cleared when the engine recovers.
DegradedSticks(env, workload, sync) ==
    LET c0 == MarkFalse(MarkTrue(env.status.conditions, "Ready"), "Progressing")
    IN  [phase |-> DerivedPhase(sync),
         conditions |-> IF sync = "Error" THEN MarkTrue(c0, "Degraded") ELSE c0,
         observedGeneration |-> env.gen, workload |-> workload, sync |-> sync]

ProvisionedStatus(env, workload, sync) ==
    LET c0 == MarkTrue(env.status.conditions, "Progressing")
        c1 == Remove(MarkTrue(c0, "Ready"), "Degraded")
        c2 == IF sync = "Error" THEN MarkTrue(c1, "Degraded") ELSE c1
    IN  [phase              |-> DerivedPhase(sync),
         conditions         |-> MarkFalse(c2, "Progressing"),
         observedGeneration |-> env.gen,
         workload           |-> workload,
         sync               |-> sync]

FailedStatus(env, workload) ==
    LET c0 == MarkTrue(env.status.conditions, "Progressing")
    IN  [env.status EXCEPT
            !.phase = "Failed",
            !.conditions = MarkFalse(MarkTrue(c0, "Degraded"), "Ready"),
            !.observedGeneration = env.gen,
            !.workload = workload]

-----------------------------------------------------------------------------
VARIABLES
    envs,       \* Environment objects in the API server
    namespaces, \* workload Namespaces
    children,   \* the objects the controller keeps in each, by kind
    engines,    \* the GitOps objects of each Environment, by kind
    tenantNs,   \* cached Tenants: Nil, or status.namespace (<<>> if not set)
    sources,    \* cached source Secrets of each home namespace
    ecache, nscache, kcache,   \* informer caches of the first three
    nsnew, knew,   \* whether the cache has yet to see the current version
    queue,      \* the work queue: requests to reconcile
    resync,     \* requests with a RequeueAfter timer running
    pc,         \* next API call of the worker, "idle" between reconciles
    req,        \* the request being reconciled
    base,       \* the Environment that reconcile works on, as read
    workload,   \* the workload namespace it computed
    sync,       \* the sync phase it read
    gauge,      \* the phase series exported for each Environment
    now,        \* the clock
    uids,       \* Environment objects created so far
    upsets      \* API errors, restarts and out-of-band changes so far

objects == <<namespaces, children, nsnew, knew>>
world   == <<tenantNs, sources>>
caches  == <<ecache, nscache, kcache>>
worker  == <<pc, req, base, workload, sync>>
bounds  == <<now, uids, upsets>>
vars    == <<envs, objects, engines, world, caches, queue, resync, worker,
             gauge, bounds>>

Homes == {e.namespace : e \in Environments}

EnvironmentStatus ==
    [phase : Phases, conditions : [ConditionTypes -> ConditionStatus],
     observedGeneration : Nat, workload : Workloads \cup {Nil},
     sync : SyncPhases \cup {Nil}]

EnvironmentObject ==
    [uid : Nat, gen : Nat, created : Nat, deleting : BOOLEAN, finalizer : BOOLEAN,
     spec : Specs, status : EnvironmentStatus]

NamespaceObject ==
    [terminating : BOOLEAN,
     labels : {Labels(e, s) : e \in Environments, s \in Specs} \cup {Nil}]

ChildValues(k) == {Desired(s, a, k) : s \in Specs, a \in SUBSET Secrets}

EngineObject(k) ==
    [owner : Nat, terminating : BOOLEAN, report : Reports(k),
     delivery : {Delivery(s, n) : s \in Specs, n \in Workloads}]

ASSUME NilAssumption ==
    /\ Nil \notin Environments /\ Nil \notin Workloads
    /\ Nil \notin EnvironmentObject /\ Nil \notin NamespaceObject
    /\ Nil \notin SyncPhases
    /\ \A k \in EngineKinds : Nil \notin EngineObject(k)

ASSUME BoundsAssumption ==
    MaxUid \in Nat /\ MaxGen \in Nat /\ MaxTime \in Nat /\ MaxUpsets \in Nat

\* Admission accepts only these providers; a spec may name any Tenant, even one
\* that does not exist.
ASSUME SpecsAssumption ==
    \A s \in Specs : s.tenant \in Tenants /\ s.provider \in {"argocd", "flux", "none"}

Init ==
    /\ envs       = [e \in Environments |-> Nil]
    /\ namespaces = [n \in Workloads |-> Nil]
    /\ children   = [n \in Workloads |-> [k \in Kinds |-> Nil]]
    /\ engines    = [e \in Environments |-> [k \in EngineKinds |-> Nil]]
    /\ tenantNs \in [Tenants -> TenantNamespaces \cup {<<>>, Nil}]
    /\ sources \in [Homes -> SUBSET Secrets]
    /\ ecache = envs /\ nscache = namespaces /\ kcache = children
    /\ nsnew = [n \in Workloads |-> FALSE]
    /\ knew  = [n \in Workloads |-> [k \in Kinds |-> FALSE]]
    /\ queue = {} /\ resync = {}
    /\ pc = "idle" /\ req = Nil /\ base = Nil /\ workload = Nil /\ sync = Nil
    /\ gauge = [e \in Environments |-> "None"]
    /\ now = 0 /\ uids = 0 /\ upsets = 0

-----------------------------------------------------------------------------
WriteNamespace(n, object) ==
    /\ namespaces' = [namespaces EXCEPT ![n] = object]
    /\ nsnew' = [nsnew EXCEPT ![n] = nsnew[n] \/ object # namespaces[n]]
    /\ UNCHANGED <<children, knew>>

WriteChild(n, k, object) ==
    /\ children' = [children EXCEPT ![n][k] = object]
    /\ knew' = [knew EXCEPT ![n][k] = knew[n][k] \/ object # children[n][k]]
    /\ UNCHANGED <<namespaces, nsnew>>

Admits(n) == namespaces[n] # Nil /\ ~namespaces[n].terminating

-----------------------------------------------------------------------------
\* Users.

NewEnvironment(spec, uid) ==
    [uid |-> uid, gen |-> 1, created |-> now, deleting |-> FALSE,
     finalizer |-> FALSE, spec |-> spec, status |-> NewStatus]

CreateEnvironment(e, spec) ==
    /\ envs[e] = Nil
    /\ uids < MaxUid
    /\ uids' = uids + 1
    /\ envs' = [envs EXCEPT ![e] = NewEnvironment(spec, uids + 1)]
    /\ UNCHANGED <<objects, engines, world, caches, queue, resync, worker,
                   gauge, now, upsets>>

\* The validating webhook forbids a change of tenant or type.
ValidateUpdate(old, new) == old.tenant = new.tenant /\ old.type = new.type

WithSpec(env, spec) == [env EXCEPT !.spec = spec, !.gen = env.gen + 1]

UpdateEnvironment(e, spec) ==
    /\ envs[e] # Nil
    /\ envs[e].gen < MaxGen
    /\ spec # envs[e].spec
    /\ ValidateUpdate(envs[e].spec, spec)
    /\ envs' = [envs EXCEPT ![e] = WithSpec(envs[e], spec)]
    /\ UNCHANGED <<objects, engines, world, caches, queue, resync, worker,
                   gauge, bounds>>

\* A Delete: with a finalizer the object stays, marked deleting.
Deleted(env) ==
    CASE env = Nil                                        -> Nil
      [] env # Nil /\ ~env.finalizer                      -> Nil
      [] env # Nil /\ env.finalizer /\ env.deleting       -> env
      [] env # Nil /\ env.finalizer /\ ~env.deleting      ->
            [env EXCEPT !.deleting = TRUE, !.gen = env.gen + 1]

DeleteEnvironment(e) ==
    /\ envs[e] # Nil
    /\ ~envs[e].deleting
    /\ envs' = [envs EXCEPT ![e] = Deleted(envs[e])]
    /\ UNCHANGED <<objects, engines, world, caches, queue, resync, worker,
                   gauge, bounds>>

\* Only ephemeral Environments with a TTL expire.
Expired(env) ==
    env.spec.type = "ephemeral" /\ env.spec.ttl # Nil /\ now >= env.created + env.spec.ttl

\* Time passes while a lifetime, stored or still cached, runs: nothing else is
\* measured against the clock.
Tick ==
    /\ now < MaxTime
    /\ \E e \in Environments : \E env \in {envs[e], ecache[e]} \ {Nil} :
        env.spec.ttl # Nil /\ ~Expired(env)
    /\ now' = now + 1
    /\ UNCHANGED <<envs, objects, engines, world, caches, queue, resync, worker,
                   gauge, uids, upsets>>

-----------------------------------------------------------------------------
\* The worker.

\* Reconcile returns: no request, or one retried after an error.
Idle   == pc' = "idle" /\ req' = Nil /\ base' = Nil /\ workload' = Nil /\ sync' = Nil
Return == Idle /\ UNCHANGED queue

\* Mutant: the error is swallowed, nothing is requeued.
SwallowError == Idle /\ UNCHANGED queue

Retry  == Idle /\ queue' = queue \cup {req}
Goto(step) == pc' = step /\ UNCHANGED <<queue, req, base, workload, sync>>

\* The API server accepts a write of the Environment iff base is current.
Fresh == envs[req] = base

SetPhase(e, phase) == gauge' = [gauge EXCEPT ![e] = phase]
ClearPhase(e)      == gauge' = [gauge EXCEPT ![e] = "None"]

\* Mutant: NotFound returns without clearing the series.
KeepsSeries(e) == UNCHANGED gauge

\* Get returned NotFound: the Environment is gone.
NotFound(e) == ClearPhase(e)

\* Mutant: an Environment is provisioned without waiting for its finalizer.
SkipsFinalizer(env) ==
    IF env.deleting THEN "stopArgo"
    ELSE IF tenantNs[env.spec.tenant] \in {Nil, <<>>} THEN "block" ELSE "namespace"

\* Where a reconcile of the Environment read goes: the Tenant it names is read
\* after the suspension check and before the lifetime is looked at.
FirstStep(env) ==
    CASE env.deleting -> IF env.finalizer THEN "stopArgo" ELSE "idle"
      [] ~env.deleting /\ ~env.finalizer -> "addFinalizer"
      [] ~env.deleting /\ env.finalizer /\ env.spec.suspend -> "suspend"
      [] OTHER -> IF tenantNs[env.spec.tenant] \in {Nil, <<>>} THEN "block"
                  ELSE IF Expired(env) THEN "expire" ELSE "namespace"

\* Dequeue a request and Get its Environment from the cache.
Reconcile(e) ==
    /\ pc = "idle"
    /\ e \in queue
    /\ queue' = queue \ {e}
    /\ IF ecache[e] = Nil
       THEN NotFound(e) /\ UNCHANGED worker
       ELSE LET step == FirstStep(ecache[e])
            IN  /\ pc' = step
                /\ IF step = "idle"
                   THEN UNCHANGED <<req, base, workload, sync>>
                   ELSE /\ req' = e /\ base' = ecache[e] /\ sync' = Nil
                        /\ workload' = IF step = "namespace"
                             THEN WorkloadName(e, tenantNs[ecache[e].spec.tenant])
                             ELSE Nil
                /\ IF step = "stopArgo" THEN SetPhase(e, "Terminating")
                                        ELSE UNCHANGED gauge
    /\ UNCHANGED <<envs, objects, engines, world, caches, resync, bounds>>

WithFinalizer(env)      == [env EXCEPT !.finalizer = TRUE]
WithStatus(env, status) == [env EXCEPT !.status = status]

AddFinalizer(up) ==
    /\ pc = "addFinalizer"
    /\ IF up /\ Fresh
       THEN envs' = [envs EXCEPT ![req] = WithFinalizer(base)] /\ Return
       ELSE UNCHANGED envs /\ Retry
    /\ UNCHANGED <<objects, engines, resync, gauge>>

\* Mutant: success returns an empty Result.
NoRequeue(e) == UNCHANGED resync

RequeueAfter(e) == resync' = resync \cup {e}

\* Suspension: report it, leave everything else, do not come back by itself.
Suspend(up) ==
    /\ pc = "suspend"
    /\ SetPhase(req, "Suspended")
    /\ IF up /\ Fresh
       THEN envs' = [envs EXCEPT ![req] = WithStatus(base, SuspendedStatus(base))]
            /\ Return
       ELSE UNCHANGED envs /\ Retry
    /\ UNCHANGED <<objects, engines, resync>>

\* blockOnDependency: the tenant has no namespace yet; look again in 15 seconds.
BlockOnDependency(up) ==
    /\ pc = "block"
    /\ SetPhase(req, "Pending")
    /\ IF up /\ Fresh
       THEN /\ envs' = [envs EXCEPT ![req] = WithStatus(base, BlockedStatus(base))]
            /\ RequeueAfter(req)
            /\ Return
       ELSE UNCHANGED <<envs, resync>> /\ Retry
    /\ UNCHANGED <<objects, engines>>

\* The lifetime is over: Delete by name, whatever version is there.
Expire(up) ==
    /\ pc = "expire"
    /\ IF up
       THEN envs' = [envs EXCEPT ![req] = Deleted(envs[req])] /\ Return
       ELSE UNCHANGED envs /\ Retry
    /\ UNCHANGED <<objects, engines, resync, gauge>>

\* The workload namespace: labels, and no owner reference.
ReconcileNamespace(up) ==
    LET n       == workload
        labels  == Labels(req, base.spec)
        desired == IF nscache[n] = Nil
                   THEN [terminating |-> FALSE, labels |-> labels]
                   ELSE [nscache[n] EXCEPT !.labels = labels]
        result  == CreateOrUpdate(nscache[n], namespaces[n], ~nsnew[n], Nil, desired)
    IN  /\ pc = "namespace"
        /\ IF up /\ result.ok
           THEN WriteNamespace(n, result.object) /\ Goto("quota")
           ELSE UNCHANGED objects /\ Goto("fail")
        /\ UNCHANGED <<envs, engines, resync, gauge>>

StepAfter(k) ==
    CASE k = "quota"   -> "config"
      [] k = "config"  -> "secrets"
      [] k = "secrets" -> CASE base.spec.provider = "argocd" -> "argo"
                            [] base.spec.provider = "flux"   -> "repo"
                            [] OTHER                         -> "status"

\* Quota, ConfigMap and projected Secret: Delete when nothing is asked for,
\* an error when a required secret is missing, otherwise CreateOrUpdate.
ApplyChild(n, k) ==
    LET available == sources[req.namespace]
        desired   == Desired(base.spec, available, k)
    IN  CASE desired = Nil -> Ok(Nil)
          [] desired # Nil /\ k = "secrets" /\ ~Resolvable(base.spec, available)
                           -> Failed(children[n][k])
          [] desired # Nil /\ kcache[n][k] = Nil /\ ~Admits(n)
                           -> Failed(children[n][k])
          [] OTHER -> CreateOrUpdate(kcache[n][k], children[n][k], ~knew[n][k],
                                     Nil, desired)

ReconcileChild(k, up) ==
    LET result == ApplyChild(workload, k)
    IN  /\ pc = k
        /\ IF up /\ result.ok
           THEN WriteChild(workload, k, result.object) /\ Goto(StepAfter(k))
           ELSE UNCHANGED objects /\ Goto("fail")
        /\ UNCHANGED <<envs, engines, resync, gauge>>

\* Read live, then created, left alone or updated; the engine's report stays,
\* and so does the deletion of an object that is on its way out.
AppliedEngine(k) ==
    LET object == engines[req][k]
    IN  [owner       |-> base.uid,
         terminating |-> object # Nil /\ object.terminating,
         report      |-> IF object = Nil THEN "" ELSE object.report,
         delivery    |-> Delivery(base.spec, workload)]

\* SetControllerReference adopts what has this name; a spec without a source
\* is an error.
WriteEngine(k, up, observed, step) ==
    IF up /\ base.spec.source # Nil
    THEN /\ engines' = [engines EXCEPT ![req][k] = AppliedEngine(k)]
         /\ pc' = step /\ sync' = observed
         /\ UNCHANGED <<queue, req, base, workload>>
    ELSE UNCHANGED engines /\ Goto("fail")

ReconcileArgo(up) ==
    /\ pc = "argo"
    /\ WriteEngine("argo", up, NormalizeArgoSync(AppliedEngine("argo").report), "status")
    /\ UNCHANGED <<envs, objects, resync, gauge>>

\* Flux: the GitRepository, then the Kustomization whose readiness counts.
ReconcileFluxRepo(up) ==
    /\ pc = "repo"
    /\ WriteEngine("repo", up, Nil, "kustomization")
    /\ UNCHANGED <<envs, objects, resync, gauge>>

ReconcileFluxKustomization(up) ==
    /\ pc = "kustomization"
    /\ WriteEngine("kustomization", up,
                   NormalizeFluxReady(AppliedEngine("kustomization").report), "status")
    /\ UNCHANGED <<envs, objects, resync, gauge>>

\* derivePhase, then the status and the periodic requeue.
WriteStatus(up) ==
    /\ pc = "status"
    /\ SetPhase(req, DerivedPhase(sync))
    /\ IF up /\ Fresh
       THEN /\ envs' = [envs EXCEPT ![req] =
                            WithStatus(base, ProvisionedStatus(base, workload, sync))]
            /\ RequeueAfter(req)
            /\ Return
       ELSE UNCHANGED <<envs, resync>> /\ Retry
    /\ UNCHANGED <<objects, engines>>

\* fail(): report the failed step, best effort, and return its error.
Fail(up) ==
    /\ pc = "fail"
    /\ SetPhase(req, "Failed")
    /\ envs' = IF up /\ Fresh
               THEN [envs EXCEPT ![req] = WithStatus(base, FailedStatus(base, workload))]
               ELSE envs
    /\ Retry
    /\ UNCHANGED <<objects, engines, resync>>

\* Mutant: the namespace is deleted although the status names none.
TearsDownAnyway(step) ==
    CASE step = "stopArgo"          -> "stopKustomization"
      [] step = "stopKustomization" -> "stopRepo"
      [] step = "stopRepo"          -> "teardown"

\* finalize(): DeleteGitOps deletes the Application, the Kustomization and the
\* GitRepository, then the workload namespace the status names is deleted.
StepAfterStop(step) ==
    CASE step = "stopArgo"          -> "stopKustomization"
      [] step = "stopKustomization" -> "stopRepo"
      [] step = "stopRepo" -> IF base.status.workload = Nil THEN "release" ELSE "teardown"

\* Mutant: the list of kinds to delete lacks the Kustomization.
MissesKustomization(step) == IF step = "stopArgo" THEN "argo" ELSE "repo"

Stopped(step) == CASE step = "stopArgo"          -> "argo"
                   [] step = "stopKustomization" -> "kustomization"
                   [] step = "stopRepo"          -> "repo"

\* A Delete is only a request: Flux gives each of its objects a finalizer, and
\* Argo CD may, so the object stays, terminating, until its engine lets it go.
Terminated(object) ==
    IF object = Nil THEN Nil ELSE [object EXCEPT !.terminating = TRUE]

\* NotFound is no error, and nothing waits for the object to disappear.
DeleteGitOps(step, up) ==
    /\ pc = step
    /\ IF up
       THEN /\ engines' = [engines EXCEPT ![req][Stopped(step)] =
                                Terminated(engines[req][Stopped(step)])]
            /\ Goto(StepAfterStop(step))
       ELSE UNCHANGED engines /\ Retry
    /\ UNCHANGED <<envs, objects, resync, gauge>>

\* EnsureNamespaceDeleted: the cached namespace decides whether to Delete.
Teardown(up) ==
    LET n == base.status.workload
    IN  /\ pc = "teardown"
        /\ IF up
           THEN /\ IF nscache[n] # Nil /\ ~nscache[n].terminating /\ namespaces[n] # Nil
                   THEN WriteNamespace(n, [namespaces[n] EXCEPT !.terminating = TRUE])
                   ELSE UNCHANGED objects
                /\ Goto("release")
           ELSE UNCHANGED objects /\ Retry
        /\ UNCHANGED <<envs, engines, resync, gauge>>

\* Remove the finalizer, and with it the deleting object.
Release(up) ==
    /\ pc = "release"
    /\ ClearPhase(req)
    /\ IF up /\ Fresh
       THEN envs' = [envs EXCEPT ![req] = Nil] /\ Return
       ELSE UNCHANGED envs /\ Retry
    /\ UNCHANGED <<objects, engines, resync>>

\* The next API call of the running reconcile; up is false when it errors.
WorkerStep(up) ==
    /\ \/ AddFinalizer(up)
       \/ Suspend(up)
       \/ BlockOnDependency(up)
       \/ Expire(up)
       \/ ReconcileNamespace(up)
       \/ \E k \in Kinds : ReconcileChild(k, up)
       \/ ReconcileArgo(up)
       \/ ReconcileFluxRepo(up)
       \/ ReconcileFluxKustomization(up)
       \/ WriteStatus(up)
       \/ Fail(up)
       \/ \E step \in StopSteps : DeleteGitOps(step, up)
       \/ Teardown(up)
       \/ Release(up)
    /\ UNCHANGED <<world, caches, now, uids>>
    /\ IF up THEN UNCHANGED upsets
             ELSE upsets < MaxUpsets /\ upsets' = upsets + 1

-----------------------------------------------------------------------------
\* Informer caches: only Environments are watched.

CacheEnvironment(e) ==
    /\ ecache[e] # envs[e]
    /\ ecache' = [ecache EXCEPT ![e] = envs[e]]
    /\ queue' = queue \cup {e}
    /\ UNCHANGED <<envs, objects, engines, world, nscache, kcache, resync, worker,
                   gauge, bounds>>

CacheNamespace(n) ==
    /\ nsnew[n]
    /\ nscache' = [nscache EXCEPT ![n] = namespaces[n]]
    /\ nsnew' = [nsnew EXCEPT ![n] = FALSE]
    /\ UNCHANGED <<envs, namespaces, children, knew, engines, world, ecache, kcache,
                   queue, resync, worker, gauge, bounds>>

CacheChild(n, k) ==
    /\ knew[n][k]
    /\ kcache' = [kcache EXCEPT ![n][k] = children[n][k]]
    /\ knew' = [knew EXCEPT ![n][k] = FALSE]
    /\ UNCHANGED <<envs, namespaces, children, nsnew, engines, world, ecache, nscache,
                   queue, resync, worker, gauge, bounds>>

\* A RequeueAfter timer fires.
Resync(e) ==
    /\ e \in resync
    /\ resync' = resync \ {e}
    /\ queue' = queue \cup {e}
    /\ UNCHANGED <<envs, objects, engines, world, caches, worker, gauge, bounds>>

-----------------------------------------------------------------------------
\* The other controllers of the cluster.

DrainNamespace(n, k) ==
    /\ children[n][k] # Nil
    /\ ~Admits(n)
    /\ WriteChild(n, k, Nil)
    /\ UNCHANGED <<envs, engines, world, caches, queue, resync, worker, gauge, bounds>>

NamespaceGone(n) ==
    /\ namespaces[n] # Nil
    /\ namespaces[n].terminating
    /\ \A k \in Kinds : children[n][k] = Nil
    /\ WriteNamespace(n, Nil)
    /\ UNCHANGED <<envs, engines, world, caches, queue, resync, worker, gauge, bounds>>

\* The engine has cleaned up after a deleted object and drops its finalizer.
EngineGone(e, k) ==
    /\ engines[e][k] # Nil
    /\ engines[e][k].terminating
    /\ engines' = [engines EXCEPT ![e][k] = Nil]
    /\ UNCHANGED <<envs, objects, world, caches, queue, resync, worker, gauge, bounds>>

\* Argo CD or Flux reports on its object, also while that is terminating.
EngineReports(e, k, report) ==
    /\ engines[e][k] # Nil
    /\ engines[e][k].report # report
    /\ upsets < MaxUpsets /\ upsets' = upsets + 1
    /\ engines' = [engines EXCEPT ![e][k] = [engines[e][k] EXCEPT !.report = report]]
    /\ UNCHANGED <<envs, objects, world, caches, queue, resync, worker, gauge, now, uids>>

-----------------------------------------------------------------------------
\* Upsets: what happens around the operator, a bounded number of times.

Upset == upsets < MaxUpsets /\ upsets' = upsets + 1

\* A Tenant is created, provisioned, deleted, or recreated under another prefix.
TenantChanges(t, v) ==
    /\ Upset
    /\ tenantNs[t] # v
    /\ tenantNs' = [tenantNs EXCEPT ![t] = v]
    /\ UNCHANGED <<envs, objects, engines, sources, caches, queue, resync, worker,
                   gauge, now, uids>>

SourcesChange(h, available) ==
    /\ Upset
    /\ sources[h] # available
    /\ sources' = [sources EXCEPT ![h] = available]
    /\ UNCHANGED <<envs, objects, engines, tenantNs, caches, queue, resync, worker,
                   gauge, now, uids>>

AdminDeletesNamespace(n) ==
    /\ Upset
    /\ Admits(n)
    /\ WriteNamespace(n, [namespaces[n] EXCEPT !.terminating = TRUE])
    /\ UNCHANGED <<envs, engines, world, caches, queue, resync, worker, gauge, now, uids>>

AdminDeletesChild(n, k) ==
    /\ Upset
    /\ children[n][k] # Nil
    /\ WriteChild(n, k, Nil)
    /\ UNCHANGED <<envs, engines, world, caches, queue, resync, worker, gauge, now, uids>>

\* The operator restarts; the initial List raises an event per Environment.
Restart ==
    /\ Upset
    /\ ecache' = envs /\ nscache' = namespaces /\ kcache' = children
    /\ nsnew' = [n \in Workloads |-> FALSE]
    /\ knew' = [n \in Workloads |-> [k \in Kinds |-> FALSE]]
    /\ queue' = {e \in Environments : envs[e] # Nil}
    /\ resync' = {}
    /\ Idle
    /\ gauge' = [e \in Environments |-> "None"]
    /\ UNCHANGED <<envs, namespaces, children, engines, world, now, uids>>

-----------------------------------------------------------------------------
Users ==
    \/ \E e \in Environments :
        \/ \E s \in Specs : CreateEnvironment(e, s) \/ UpdateEnvironment(e, s)
        \/ DeleteEnvironment(e)
    \/ Tick

Informers ==
    \/ \E e \in Environments : CacheEnvironment(e)
    \/ \E n \in Workloads : CacheNamespace(n) \/ \E k \in Kinds : CacheChild(n, k)

ClusterControllers ==
    \/ \E n \in Workloads : NamespaceGone(n) \/ \E k \in Kinds : DrainNamespace(n, k)
    \/ \E e \in Environments, k \in EngineKinds :
        EngineGone(e, k) \/ \E report \in Reports(k) : EngineReports(e, k, report)

Upsets ==
    \/ \E t \in Tenants, v \in TenantNamespaces \cup {<<>>, Nil} : TenantChanges(t, v)
    \/ \E h \in Homes, a \in SUBSET Secrets : SourcesChange(h, a)
    \/ \E n \in Workloads :
        AdminDeletesNamespace(n) \/ \E k \in Kinds : AdminDeletesChild(n, k)
    \/ Restart

Next ==
    \/ Users
    \/ \E e \in Environments : Reconcile(e) \/ Resync(e)
    \/ \E up \in BOOLEAN : WorkerStep(up)
    \/ Informers
    \/ ClusterControllers
    \/ Upsets

\* The worker, the informers, the timers, the namespace controller, the engines'
\* finalizers and the clock keep running; a queued request is dequeued in turn.
Fairness ==
    /\ WF_vars(WorkerStep(TRUE))
    /\ WF_vars(Tick)
    /\ \A e \in Environments :
        /\ SF_vars(Reconcile(e)) /\ WF_vars(Resync(e)) /\ WF_vars(CacheEnvironment(e))
        /\ \A k \in EngineKinds : WF_vars(EngineGone(e, k))
    /\ \A n \in Workloads :
        /\ WF_vars(CacheNamespace(n)) /\ WF_vars(NamespaceGone(n))
        /\ \A k \in Kinds : WF_vars(CacheChild(n, k)) /\ WF_vars(DrainNamespace(n, k))

Spec == Init /\ [][Next]_vars /\ Fairness

-----------------------------------------------------------------------------
\* Properties.

ChildTypeOK(m) ==
    /\ m = [n \in Workloads |-> [k \in Kinds |-> m[n][k]]]
    /\ \A n \in Workloads, k \in Kinds : m[n][k] \in ChildValues(k) \cup {Nil}

EngineTypeOK ==
    /\ engines = [e \in Environments |-> [k \in EngineKinds |-> engines[e][k]]]
    /\ \A e \in Environments, k \in EngineKinds :
        engines[e][k] \in EngineObject(k) \cup {Nil}

WorkerTypeOK ==
    \/ pc = "idle" /\ req = Nil /\ base = Nil /\ workload = Nil /\ sync = Nil
    \/ /\ pc \in Steps \ {"idle"} /\ req \in Environments
       /\ base \in EnvironmentObject /\ sync \in SyncPhases \cup {Nil}
       /\ IF pc \in ProvisionSteps THEN workload \in Workloads ELSE workload = Nil
       /\ pc = "teardown" => base.status.workload # Nil

\* Every variable has its type; the worker holds a request, the Environment read
\* and, while it provisions, the workload namespace, exactly while it runs.
TypeOK ==
    /\ envs \in [Environments -> EnvironmentObject \cup {Nil}]
    /\ ecache \in [Environments -> EnvironmentObject \cup {Nil}]
    /\ namespaces \in [Workloads -> NamespaceObject \cup {Nil}]
    /\ nscache \in [Workloads -> NamespaceObject \cup {Nil}]
    /\ ChildTypeOK(children) /\ ChildTypeOK(kcache)
    /\ EngineTypeOK
    /\ tenantNs \in [Tenants -> TenantNamespaces \cup {<<>>, Nil}]
    /\ sources \in [Homes -> SUBSET Secrets]
    /\ nsnew \in [Workloads -> BOOLEAN]
    /\ knew \in [Workloads -> [Kinds -> BOOLEAN]]
    /\ queue \subseteq Environments /\ resync \subseteq Environments
    /\ WorkerTypeOK
    /\ gauge \in [Environments -> Phases]
    /\ now \in Nat /\ uids \in Nat /\ upsets \in Nat

\* The worker provisions, and the lifetime check deletes, only the Environment
\* object that was read: however stale the cache, and although Delete goes by
\* name, a successor of the same name is never touched (reconcileEnvironment).
WorksOnExisting ==
    pc \in ProvisionSteps \cup {"expire"} =>
        envs[req] # Nil /\ envs[req].uid = base.uid /\ envs[req].finalizer

\* A GitOps object that has not been told to go.
Active(e, k) == engines[e][k] # Nil /\ ~engines[e][k].terminating

\* An active GitOps object has its Environment: it is controlled by the one that
\* exists under that name, which still has the finalizer that will delete it.
\* One of a gone Environment is terminating, also where a successor of the name
\* has adopted it or a pass on a stale cache wrote to it late (DeleteGitOps
\* before RemoveFinalizer); the garbage collector has nothing left to delete.
NoOrphanedEngines ==
    \A e \in Environments, k \in EngineKinds :
        Active(e, k) =>
            envs[e] # Nil /\ envs[e].uid = engines[e][k].owner /\ envs[e].finalizer

\* "Stop the GitOps engine first so it does not re-create torn-down resources",
\* as far as the operator goes: when finalize deletes a workload namespace every
\* GitOps object of the Environment, of whichever engine it had in the past, has
\* been told to go, and no pass makes a new one before the finalizer goes.
EngineStoppedFirst ==
    pc \in {"teardown", "release"} => \A k \in EngineKinds : ~Active(req, k)

\* gitops.go, "explicit deletion in the finalizer guarantees the external engine
\* stops syncing before the workload namespace is torn down": no Application or
\* Kustomization is left that delivers into a namespace being torn down.
EngineGoneFirst ==
    \A n \in Workloads : namespaces[n] # Nil /\ namespaces[n].terminating =>
        \A e \in Environments, k \in {"argo", "kustomization"} :
            engines[e][k] # Nil => engines[e][k].delivery.workload # n

\* What a status that says Ready says of a spec.
Coherent(spec, st) ==
    /\ ~spec.suspend
    /\ st.conditions["Progressing"] = "False"
    /\ st.workload # Nil
    /\ st.phase = DerivedPhase(st.sync)
    /\ st.sync = "Error" <=> st.conditions["Degraded"] = "True"
    /\ st.sync = Nil <=> spec.provider = "none"

\* A status that says Ready for the current generation comes from a complete
\* pass over an Environment that is not suspended: Progressing is cleared, the
\* workload namespace recorded, and phase and Degraded say what the engine said.
\* Ready speaks of the namespace and the configuration only ("Workload namespace
\* and configuration are provisioned"): with the engine in error it stands beside
\* Degraded, although "the observed state fully matches" is what the API type and
\* docs/crds.md say of Ready.
ReadyStatusIsCoherent ==
    \A e \in Environments :
        envs[e] # Nil /\ IsTrue(envs[e].status.conditions, "Ready")
                      /\ envs[e].status.observedGeneration = envs[e].gen
        => ~envs[e].deleting /\ Coherent(envs[e].spec, envs[e].status)

\* Once an Environment is gone, its deletion observed and no request for it
\* left, no phase series is exported for it.
NoLeakedSeries ==
    \A e \in Environments :
        envs[e] = Nil /\ ecache[e] = Nil /\ e \notin queue /\ req # e
        => gauge[e] = "None"

\* No lost wakeup: an Environment that neither a request, a reconcile, a watch
\* event nor a timer will bring back is a suspended one that says so.
NoLostWakeup ==
    \A e \in Environments :
        /\ envs[e] # Nil /\ ecache[e] = envs[e]
        /\ e \notin queue /\ e \notin resync /\ req # e
        => /\ ~envs[e].deleting /\ envs[e].spec.suspend
           /\ envs[e].status.phase = "Suspended"
           /\ envs[e].status.observedGeneration = envs[e].gen

\* docs/architecture.md, "Finalizer-guarded teardown ... there are no orphans":
\* a workload namespace that is not on its way out belongs to an Environment.
NoOrphanedWorkloads ==
    \A n \in Workloads :
        Admits(n) => \E e \in Environments :
            envs[e] # Nil /\ namespaces[n].labels = Labels(e, envs[e].spec)

\* The engine's report as the status shows it.
ObservedSync(e) ==
    CASE envs[e].spec.provider = "argocd" -> NormalizeArgoSync(engines[e]["argo"].report)
      [] envs[e].spec.provider = "flux"   ->
            NormalizeFluxReady(engines[e]["kustomization"].report)
      [] OTHER -> Nil

Delivered(e, n) ==
    LET kinds == CASE envs[e].spec.provider = "argocd" -> {"argo"}
                   [] envs[e].spec.provider = "flux"   -> {"repo", "kustomization"}
                   [] OTHER                            -> {}
    IN  \A k \in kinds : Active(e, k)
            /\ engines[e][k].delivery = Delivery(envs[e].spec, n)

Provisioned(e) ==
    LET spec == envs[e].spec
        n    == WorkloadName(e, tenantNs[spec.tenant])
    IN  /\ Admits(n)
        /\ \A k \in Kinds : children[n][k] = Desired(spec, sources[e.namespace], k)
        /\ Delivered(e, n)
        /\ envs[e].status = ProvisionedStatus(envs[e], n, ObservedSync(e))

\* reconcileEnvironment returns before it looks at the lifetime.
HeldUp(env) == env.spec.suspend \/ tenantNs[env.spec.tenant] \in {Nil, <<>>}

\* What a stored Environment settles at.
Settled(e) ==
    LET env == envs[e]
    IN  /\ ~env.deleting
        /\ env.status.observedGeneration = env.gen
        /\ Expired(env) => HeldUp(env)
        /\ CASE env.spec.suspend -> env.status.phase = "Suspended"
             [] ~env.spec.suspend /\ HeldUp(env) -> env.status.phase = "Pending"
             [] ~HeldUp(env) /\ ~Resolvable(env.spec, sources[e.namespace]) ->
                    env.status.phase = "Failed"
             [] OTHER -> Provisioned(e)

\* Once users, tenants and engines stop changing things, every Environment is
\* gone with its engine and its series, or provisioned and reported as its spec
\* says, or reported as what holds it up.  An expired one is gone, with the two
\* exceptions of HeldUp: suspended, or with a tenant that has no namespace, it
\* stays, although the API type says that the lifetime is the one "after which
\* the controller deletes it".
EventuallySettled ==
    <>[](\A e \in Environments :
            IF envs[e] = Nil
            THEN gauge[e] = "None" /\ \A k \in EngineKinds : engines[e][k] = Nil
            ELSE Settled(e))

-----------------------------------------------------------------------------
\* The inductive invariant: what the API server, the cache and the worker agree
\* on of an Environment, and what a pass has established at each of its steps.

\* new is a version of the same object not older than old, or of a successor.
Follows(new, old) ==
    /\ old.uid <= new.uid
    /\ old.uid = new.uid => /\ old.gen <= new.gen
                            /\ old.finalizer => new.finalizer
                            /\ old.deleting => new.deleting

StoredOK ==
    \A e \in Environments :
        envs[e] # Nil => /\ envs[e].uid <= uids
                         /\ envs[e].status.observedGeneration <= envs[e].gen
                         /\ envs[e].deleting => envs[e].finalizer

\* The cache is behind, never ahead; an Environment it shows alive exists.
CachedOK ==
    \A e \in Environments :
        ecache[e] # Nil =>
            /\ ecache[e].uid <= uids
            /\ envs[e] # Nil => Follows(envs[e], ecache[e])
            /\ ecache[e].finalizer /\ ~ecache[e].deleting =>
                envs[e] # Nil /\ envs[e].uid = ecache[e].uid

\* So is the worker.  A cache that has moved on since its Get has queued the
\* request again, and it has not moved on from what is still the current version.
HeldOK ==
    pc # "idle" =>
        /\ base.uid <= uids
        /\ envs[req] # Nil => Follows(envs[req], base)
        /\ envs[req] = base => ecache[req] = base
        /\ ecache[req] = base \/ req \in queue
        /\ pc = "addFinalizer" => ~base.finalizer
        /\ pc \in FinalizeSteps => base.deleting
        /\ pc \notin FinalizeSteps => ~base.deleting
        /\ pc \notin FinalizeSteps \cup {"addFinalizer"} =>
            /\ base.finalizer
            /\ envs[req] # Nil /\ envs[req].uid = base.uid

\* What a pass over the held spec has come to.
PassOK ==
    /\ pc = "suspend" => base.spec.suspend
    /\ pc \in ProvisionSteps => ~base.spec.suspend
    /\ pc \in {"namespace"} \cup Kinds => sync = Nil
    /\ pc = "argo" => base.spec.provider = "argocd"
    /\ pc \in {"repo", "kustomization"} => base.spec.provider = "flux"
    /\ pc = "status" => (sync = Nil <=> base.spec.provider = "none")

\* The GitOps objects finalize has told to go by the time it reaches a step.
StoppedBefore(step) ==
    CASE step = "stopKustomization"      -> {"argo"}
      [] step = "stopRepo"               -> {"argo", "kustomization"}
      [] step \in {"teardown", "release"} -> EngineKinds
      [] OTHER                           -> {}

StoppedOK == \A k \in StoppedBefore(pc) : ~Active(req, k)

\* A series is exported only for an Environment somebody still has to look at.
SeriesOK ==
    \A e \in Environments : ecache[e] = Nil /\ e \notin queue => gauge[e] = "None"

IndInv ==
    /\ TypeOK /\ StoredOK /\ CachedOK /\ HeldOK /\ PassOK /\ StoppedOK /\ SeriesOK
    /\ NoOrphanedEngines /\ ReadyStatusIsCoherent /\ NoLostWakeup
=============================================================================
