----------------------------- MODULE Integration -----------------------------
(***************************************************************************)
(* The Integration reconciler (internal/controller/                        *)
(* integration_controller.go) with the connector primitives it drives      *)
(* (internal/platform/connector.go), and the parts of Kubernetes it        *)
(* depends on.                                                             *)
(*                                                                         *)
(* An Integration resolves credentials, publishes them with the endpoint   *)
(* in a connection Secret it controls, and probes the endpoint, counting   *)
(* failures in its own status.  Integrations and their connection Secrets  *)
(* are watched; Tenants and the Secrets credentials come from are not.     *)
(*                                                                         *)
(* As in Tenant and Environment, a cache that catches up jumps to the      *)
(* current object, and labels, events, timestamps, messages and reasons    *)
(* are left out.  A timestamp that changes makes a status write an event   *)
(* more often than it is here, so it only adds wakeups.                    *)
(***************************************************************************)
EXTENDS Naturals, FiniteSets, Conditions, KubeClient, Connector, Backoff

CONSTANTS
    Integrations,   \* keys of Integrations: [namespace, name]
    Specs,          \* the IntegrationSpecs users may store: defaulted, valid
    Tenants,        \* tenant names
    Endpoints,      \* endpoints of external systems
    AuthSecrets,    \* names of the Secrets users keep credentials in
    Credentials,    \* contents of such a Secret
    MaxUid,         \* bound: Integration objects ever created
    MaxGen,         \* bound: the generation a spec edit may reach
    MaxUpsets       \* bound: API errors, restarts, outages, out-of-band changes

Phases ==
    {"None", "Pending", "Connecting", "Connected", "Degraded", "Failed", "Disabled"}
ConditionTypes == {"Ready", "Progressing", "Degraded", "SecretResolved", "Connected"}

integrationResyncPeriod == 120
dependencyPeriod        == 15

\* The program counter names the next call of the running reconcile.
ProvisionSteps == {"tenant", "resolve", "connection", "probe", "fail"}
FinalizeSteps  == {"deleteSecret", "release"}
Steps == {"idle", "addFinalizer", "status"} \cup ProvisionSteps \cup FinalizeSteps

-----------------------------------------------------------------------------
\* The in-memory status, as each outcome of a reconcile leaves it.

NewStatus ==
    [phase |-> "None", conditions |-> [c \in ConditionTypes |-> "Absent"],
     observedGeneration |-> 0, hasSecret |-> FALSE, observedEndpoint |-> Nil,
     retries |-> 0, hasError |-> FALSE]

\* ObservedEndpoint is set before anything else is looked at.
Observed(intg) == [intg.status EXCEPT !.observedEndpoint = intg.spec.endpoint]

NotReady(status) == [status EXCEPT !.conditions = MarkFalse(@, "Ready")]

Progressing(status) == [status EXCEPT !.conditions = MarkUnknown(@, "Progressing")]

SecretResolved(status) == [status EXCEPT !.conditions = MarkTrue(@, "SecretResolved")]

\* Mutant: Degraded is not removed when the endpoint answers again.
DegradedSticks(status) ==
    [status EXCEPT
        !.retries = 0, !.hasError = FALSE,
        !.conditions = MarkFalse(MarkTrue(MarkTrue(@, "Connected"), "Ready"),
                                 "Progressing")]

\* markConnected.
ConnectedStatus(status) ==
    [status EXCEPT
        !.retries = 0, !.hasError = FALSE,
        !.conditions = MarkFalse(MarkTrue(MarkTrue(Remove(@, "Degraded"), "Connected"),
                                          "Ready"), "Progressing")]

\* Mutant: the counter is set where it should be incremented.
CountsOnce(status) == [status EXCEPT !.retries = 1, !.hasError = TRUE]

\* A failed probe is counted, whatever happens next.
CountedFailure(status) == [status EXCEPT !.retries = Incremented(@), !.hasError = TRUE]

ExhaustedStatus(status) ==
    [status EXCEPT !.conditions = MarkTrue(MarkFalse(@, "Ready"), "Degraded")]

FailedStatus(status) ==
    [status EXCEPT !.conditions = MarkFalse(MarkTrue(@, "Degraded"), "Ready"),
                   !.hasError = TRUE]

-----------------------------------------------------------------------------
VARIABLES
    intgs,      \* Integration objects in the API server
    secrets,    \* the connection Secret of each Integration
    tenants,    \* cached Tenants: the names that exist
    auth,       \* cached credential Secrets of each home namespace
    reachable,  \* the endpoints that answer a probe with less than a 500
    icache, scache, \* informer caches of the first two
    snew,       \* whether scache has yet to see the current Secret
    queue,      \* the work queue: requests to reconcile
    resync,     \* requests with a RequeueAfter timer running
    pc,         \* next call of the worker, "idle" between reconciles
    req,        \* the request being reconciled
    base,       \* the Integration that reconcile works on, as read
    draft,      \* its status, as changed in memory so far
    creds,      \* the credentials it resolved
    delay,      \* the RequeueAfter it will return
    gauge,      \* the phase series exported for each Integration
    uids,       \* Integration objects created so far
    upsets      \* API errors, restarts, outages, out-of-band changes so far

objects == <<secrets, snew>>
world   == <<tenants, auth, reachable>>
caches  == <<icache, scache>>
worker  == <<pc, req, base, draft, creds, delay>>
bounds  == <<uids, upsets>>
vars    == <<intgs, objects, world, caches, queue, resync, worker, gauge, bounds>>

Homes == {i.namespace : i \in Integrations}

IntegrationStatus ==
    [phase : Phases, conditions : [ConditionTypes -> ConditionStatus],
     observedGeneration : Nat, hasSecret : BOOLEAN,
     observedEndpoint : Endpoints \cup {Nil},
     retries : Word(CounterWidth), hasError : BOOLEAN]

IntegrationObject ==
    [uid : Nat, gen : Nat, deleting : BOOLEAN, finalizer : BOOLEAN,
     spec : Specs, status : IntegrationStatus]

\* The data is Nil after somebody else has overwritten it.
SecretObject ==
    [owner : Nat,
     data : {BuildConnectionData(s, c) : s \in Specs, c \in Credentials \cup {Nil}} \cup {Nil}]

ASSUME NilAssumption ==
    /\ Nil \notin Integrations /\ Nil \notin IntegrationObject
    /\ Nil \notin SecretObject /\ Nil \notin Credentials /\ Nil \notin AuthSecrets
    /\ \A s \in Specs, c \in Credentials \cup {Nil} : BuildConnectionData(s, c) # Nil

\* What the API types make of a stored spec: an endpoint is a string, a reference
\* to a Secret names one, and a policy's delays are durations.
ASSUME SpecsAssumption ==
    \A s \in Specs :
        /\ s.endpoint \in Endpoints
        /\ s.auth \in AuthSecrets \cup {Nil}
        /\ s.retryPolicy # Nil => /\ s.retryPolicy.initialDelay \in Int \cup {Nil}
                                 /\ s.retryPolicy.maxDelay \in Int \cup {Nil}

ASSUME BoundsAssumption == MaxUid \in Nat /\ MaxGen \in Nat /\ MaxUpsets \in Nat

Init ==
    /\ intgs   = [i \in Integrations |-> Nil]
    /\ secrets = [i \in Integrations |-> Nil]
    /\ tenants \in SUBSET Tenants
    /\ auth \in [Homes -> [AuthSecrets -> Credentials \cup {Nil}]]
    /\ reachable \in SUBSET Endpoints
    /\ icache = intgs /\ scache = secrets
    /\ snew = [i \in Integrations |-> FALSE]
    /\ queue = {} /\ resync = {}
    /\ pc = "idle" /\ req = Nil /\ base = Nil /\ draft = Nil /\ creds = Nil /\ delay = 0
    /\ gauge = [i \in Integrations |-> "None"]
    /\ uids = 0 /\ upsets = 0

WriteSecret(i, object) ==
    /\ secrets' = [secrets EXCEPT ![i] = object]
    /\ snew' = [snew EXCEPT ![i] = snew[i] \/ object # secrets[i]]

-----------------------------------------------------------------------------
\* Users.

NewIntegration(spec, uid) ==
    [uid |-> uid, gen |-> 1, deleting |-> FALSE, finalizer |-> FALSE,
     spec |-> spec, status |-> NewStatus]

CreateIntegration(i, spec) ==
    /\ intgs[i] = Nil
    /\ uids < MaxUid
    /\ uids' = uids + 1
    /\ intgs' = [intgs EXCEPT ![i] = NewIntegration(spec, uids + 1)]
    /\ UNCHANGED <<objects, world, caches, queue, resync, worker, gauge, upsets>>

\* The validating webhook forbids a change of tenant or type.
ValidateUpdate(old, new) == old.tenant = new.tenant /\ old.type = new.type

WithSpec(intg, spec) == [intg EXCEPT !.spec = spec, !.gen = @ + 1]

UpdateIntegration(i, spec) ==
    /\ intgs[i] # Nil
    /\ intgs[i].gen < MaxGen
    /\ spec # intgs[i].spec
    /\ ValidateUpdate(intgs[i].spec, spec)
    /\ intgs' = [intgs EXCEPT ![i] = WithSpec(intgs[i], spec)]
    /\ UNCHANGED <<objects, world, caches, queue, resync, worker, gauge, bounds>>

MarkDeleting(intg) == [intg EXCEPT !.deleting = TRUE, !.gen = @ + 1]

\* With a finalizer the object stays, marked deleting.
DeleteIntegration(i) ==
    /\ intgs[i] # Nil
    /\ ~intgs[i].deleting
    /\ intgs' = [intgs EXCEPT ![i] =
                    IF intgs[i].finalizer THEN MarkDeleting(intgs[i]) ELSE Nil]
    /\ UNCHANGED <<objects, world, caches, queue, resync, worker, gauge, bounds>>

-----------------------------------------------------------------------------
\* The worker.

\* Reconcile returns: no request, or one retried after an error.
Idle ==
    pc' = "idle" /\ req' = Nil /\ base' = Nil /\ draft' = Nil /\ creds' = Nil /\ delay' = 0

Return == Idle /\ UNCHANGED queue

Retry == Idle /\ queue' = queue \cup {req}

\* The next call of this reconcile, with the status as changed so far.
GotoWith(step, status) ==
    pc' = step /\ draft' = status /\ UNCHANGED <<queue, req, base, creds, delay>>

Goto(step) == GotoWith(step, draft)

\* Mutant: a write that ignores the resourceVersion it was computed from.
Unconditional == intgs[req] # Nil /\ intgs[req].uid = base.uid

\* The API server accepts a write of the Integration iff base is current.
Fresh == intgs[req] = base

SetPhase(i, phase) == gauge' = [gauge EXCEPT ![i] = phase]

\* Mutant: the labels match no series, nothing is deleted.
KeepsSeries(i) == UNCHANGED gauge

ClearPhase(i) == gauge' = [gauge EXCEPT ![i] = "None"]

\* Get returned NotFound: the Integration is gone.
NotFound(i) == ClearPhase(i)

\* Mutant: an Integration is worked on without waiting for its finalizer.
SkipsFinalizer(intg) ==
    CASE intg.deleting                        -> "release"
      [] ~intg.deleting /\ intg.spec.suspend  -> "status"
      [] OTHER                                -> "tenant"

\* Where a reconcile of the Integration read goes.
FirstStep(intg) ==
    CASE intg.deleting /\ ~intg.finalizer  -> "idle"
      [] intg.deleting /\ intg.finalizer   ->
            IF intg.status.hasSecret THEN "deleteSecret" ELSE "release"
      [] ~intg.deleting /\ ~intg.finalizer -> "addFinalizer"
      [] OTHER -> IF intg.spec.suspend THEN "status" ELSE "tenant"

\* setPhase and, with updateStatus, the observed generation.
Reported(status, phase, gen) ==
    [status EXCEPT !.phase = phase, !.observedGeneration = gen]

\* Dequeue a request and Get its Integration from the cache; a suspended one
\* is marked Disabled there and then.
Reconcile(i) ==
    /\ pc = "idle"
    /\ i \in queue
    /\ queue' = queue \ {i}
    /\ IF icache[i] = Nil
       THEN NotFound(i) /\ UNCHANGED worker
       ELSE LET intg == icache[i]
                step == FirstStep(intg)
            IN  /\ pc' = step
                /\ IF step = "idle"
                   THEN UNCHANGED <<req, base, draft>>
                   ELSE /\ req' = i /\ base' = intg
                        /\ draft' = CASE step = "status" ->
                                            Reported(NotReady(Observed(intg)), "Disabled",
                                                     intg.gen)
                                      [] step = "tenant" -> Observed(intg)
                                      [] OTHER           -> Nil
                /\ IF step = "status" THEN SetPhase(i, "Disabled") ELSE UNCHANGED gauge
                /\ UNCHANGED <<creds, delay>>
    /\ UNCHANGED <<intgs, objects, world, caches, resync, bounds>>

WithFinalizer(intg)      == [intg EXCEPT !.finalizer = TRUE]
WithStatus(intg, status) == [intg EXCEPT !.status = status]

AddFinalizer(up) ==
    /\ pc = "addFinalizer"
    /\ IF up /\ Fresh
       THEN intgs' = [intgs EXCEPT ![req] = WithFinalizer(base)] /\ Return
       ELSE UNCHANGED intgs /\ Retry
    /\ UNCHANGED <<objects, resync, gauge>>

\* A reconcile that has its outcome: setPhase, then the status update.
Finish(status, phase, after) ==
    /\ pc' = "status"
    /\ draft' = Reported(status, phase, base.gen)
    /\ delay' = after
    /\ SetPhase(req, phase)
    /\ UNCHANGED <<queue, req, base, creds>>

\* Mutant: setPhase is handed the condition's reason, which is no phase.
ReasonAsPhase(status) == Finish(NotReady(status), "DependencyNotMet", dependencyPeriod)

BlockOnDependency(status) == Finish(NotReady(status), "Pending", dependencyPeriod)

\* The owning Tenant must exist.
CheckTenant(up) ==
    /\ pc = "tenant"
    /\ CASE ~up -> Retry /\ UNCHANGED gauge
         [] up /\ base.spec.tenant \notin tenants -> BlockOnDependency(draft)
         [] OTHER -> GotoWith("resolve", Progressing(draft)) /\ UNCHANGED gauge
    /\ UNCHANGED <<intgs, objects, resync>>

\* ResolveAuthSecret, from the cache of the Integration's own namespace.
Resolved(i, spec) == IF spec.auth = Nil THEN Nil ELSE auth[i.namespace][spec.auth]

ResolveAuthSecret(up) ==
    /\ pc = "resolve"
    /\ CASE ~up -> Goto("fail") /\ UNCHANGED gauge
         [] up /\ base.spec.auth # Nil /\ Resolved(req, base.spec) = Nil ->
                BlockOnDependency(draft)
         [] OTHER -> /\ pc' = "connection"
                     /\ draft' = SecretResolved(draft)
                     /\ creds' = Resolved(req, base.spec)
                     /\ UNCHANGED <<queue, req, base, delay, gauge>>
    /\ UNCHANGED <<intgs, objects, resync>>

\* CreateOrUpdate on the cached Secret; SetControllerReference makes this
\* Integration the owner of whatever a predecessor of its name left.
ReconcileConnectionSecret(up) ==
    LET desired == [owner |-> base.uid, data |-> BuildConnectionData(base.spec, creds)]
        result  == CreateOrUpdate(scache[req], secrets[req], ~snew[req], Nil, desired)
    IN  /\ pc = "connection"
        /\ IF up /\ result.ok
           THEN /\ WriteSecret(req, result.object)
                /\ pc' = "probe"
                /\ draft' = [draft EXCEPT !.hasSecret = TRUE]
                /\ creds' = Nil
           ELSE /\ UNCHANGED objects
                /\ pc' = "fail"
                /\ creds' = Nil
                /\ UNCHANGED draft
        /\ UNCHANGED <<intgs, queue, req, base, delay, resync, gauge>>

\* probeAndFinish: types the prober cannot reach are assumed connected.
Connected(spec) == ~IsHTTPType(spec.type) \/ spec.endpoint \in reachable

Probe ==
    LET counted == CountedFailure(draft)
        policy  == base.spec.retryPolicy
    IN  /\ pc = "probe"
        /\ CASE Connected(base.spec) ->
                    Finish(ConnectedStatus(draft), "Connected", integrationResyncPeriod)
             [] ~Connected(base.spec) /\ counted.retries > MaxRetries(policy) ->
                    Finish(ExhaustedStatus(counted), "Failed", integrationResyncPeriod)
             [] OTHER ->
                    Finish(NotReady(counted), "Degraded",
                           ComputeBackoff(policy, counted.retries))
        /\ UNCHANGED <<intgs, objects, resync>>

\* Mutant: success returns an empty Result.
NoRequeue(i, after) == UNCHANGED resync

\* A Result whose RequeueAfter is not positive asks for nothing.
RequeueAfter(i, after) == resync' = IF after > 0 THEN resync \cup {i} ELSE resync

UpdateStatus(up) ==
    /\ pc = "status"
    /\ IF up /\ Fresh
       THEN /\ intgs' = [intgs EXCEPT ![req] = WithStatus(intgs[req], draft)]
            /\ RequeueAfter(req, delay)
            /\ Return
       ELSE UNCHANGED <<intgs, resync>> /\ Retry
    /\ UNCHANGED <<objects, gauge>>

\* fail(): report the failed step, best effort, and return its error.
Fail(up) ==
    /\ pc = "fail"
    /\ SetPhase(req, "Failed")
    /\ intgs' = IF up /\ Fresh
                THEN [intgs EXCEPT ![req] =
                        WithStatus(base, Reported(FailedStatus(draft), "Failed", base.gen))]
                ELSE intgs
    /\ Retry
    /\ UNCHANGED <<objects, resync>>

\* Mutant: an error of the Delete does not stop the finalizer from going.
IgnoresDeleteError(up) ==
    /\ pc = "deleteSecret"
    /\ IF up THEN WriteSecret(req, Nil) ELSE UNCHANGED objects
    /\ Goto("release")
    /\ UNCHANGED <<intgs, resync, gauge>>

\* finalize(): the Secret the status names is deleted, by name.
DeleteConnectionSecret(up) ==
    /\ pc = "deleteSecret"
    /\ IF up
       THEN WriteSecret(req, Nil) /\ Goto("release")
       ELSE UNCHANGED objects /\ Retry
    /\ UNCHANGED <<intgs, resync, gauge>>

\* Remove the finalizer, and with it the deleting object.
Release(up) ==
    /\ pc = "release"
    /\ ClearPhase(req)
    /\ IF up /\ Fresh
       THEN intgs' = [intgs EXCEPT ![req] = Nil] /\ Return
       ELSE UNCHANGED intgs /\ Retry
    /\ UNCHANGED <<objects, resync>>

\* The next API call of the running reconcile; up is false when it errors.
WorkerStep(up) ==
    /\ \/ AddFinalizer(up)
       \/ CheckTenant(up)
       \/ ResolveAuthSecret(up)
       \/ ReconcileConnectionSecret(up)
       \/ up /\ Probe
       \/ UpdateStatus(up)
       \/ Fail(up)
       \/ DeleteConnectionSecret(up)
       \/ Release(up)
    /\ UNCHANGED <<world, caches, uids>>
    /\ IF up THEN UNCHANGED upsets
             ELSE upsets < MaxUpsets /\ upsets' = upsets + 1

-----------------------------------------------------------------------------
\* Informer caches: For(Integration) and Owns(Secret), with no predicate.

CacheIntegration(i) ==
    /\ icache[i] # intgs[i]
    /\ icache' = [icache EXCEPT ![i] = intgs[i]]
    /\ queue' = queue \cup {i}
    /\ UNCHANGED <<intgs, objects, world, scache, resync, worker, gauge, bounds>>

\* Mutant: Owns(Secret) is not registered.
NobodyAsks(i) == UNCHANGED queue

\* The owner reference of every event of the Secret names the Integration, the
\* events of a Secret that came and went since the last look included.
EnqueueOwner(i) == queue' = queue \cup {i}

CacheSecret(i) ==
    /\ snew[i]
    /\ scache' = [scache EXCEPT ![i] = secrets[i]]
    /\ snew' = [snew EXCEPT ![i] = FALSE]
    /\ EnqueueOwner(i)
    /\ UNCHANGED <<intgs, secrets, world, icache, resync, worker, gauge, bounds>>

\* A RequeueAfter timer fires.
Resync(i) ==
    /\ i \in resync
    /\ resync' = resync \ {i}
    /\ queue' = queue \cup {i}
    /\ UNCHANGED <<intgs, objects, world, caches, worker, gauge, bounds>>

\* The garbage collector removes a Secret whose owner, by UID, is gone.
CollectSecret(i) ==
    /\ secrets[i] # Nil
    /\ intgs[i] # Nil => intgs[i].uid # secrets[i].owner
    /\ WriteSecret(i, Nil)
    /\ UNCHANGED <<intgs, world, caches, queue, resync, worker, gauge, bounds>>

-----------------------------------------------------------------------------
\* Upsets: what happens around the operator, a bounded number of times.

Upset == upsets < MaxUpsets /\ upsets' = upsets + 1

TenantChanges(t) ==
    /\ Upset
    /\ tenants' = IF t \in tenants THEN tenants \ {t} ELSE tenants \cup {t}
    /\ UNCHANGED <<intgs, objects, auth, reachable, caches, queue, resync, worker,
                   gauge, uids>>

CredentialsChange(h, s, content) ==
    /\ Upset
    /\ auth[h][s] # content
    /\ auth' = [auth EXCEPT ![h][s] = content]
    /\ UNCHANGED <<intgs, objects, tenants, reachable, caches, queue, resync, worker,
                   gauge, uids>>

EndpointChanges(x) ==
    /\ Upset
    /\ reachable' = IF x \in reachable THEN reachable \ {x} ELSE reachable \cup {x}
    /\ UNCHANGED <<intgs, objects, tenants, auth, caches, queue, resync, worker,
                   gauge, uids>>

AdminDeletesSecret(i) ==
    /\ Upset
    /\ secrets[i] # Nil
    /\ WriteSecret(i, Nil)
    /\ UNCHANGED <<intgs, world, caches, queue, resync, worker, gauge, uids>>

AdminOverwritesSecret(i) ==
    /\ Upset
    /\ secrets[i] # Nil
    /\ WriteSecret(i, [secrets[i] EXCEPT !.data = Nil])
    /\ UNCHANGED <<intgs, world, caches, queue, resync, worker, gauge, uids>>

\* The operator restarts; the initial Lists raise an event per Integration and
\* per connection Secret.
Restart ==
    /\ Upset
    /\ icache' = intgs /\ scache' = secrets
    /\ snew' = [i \in Integrations |-> FALSE]
    /\ queue' = {i \in Integrations : intgs[i] # Nil \/ secrets[i] # Nil}
    /\ resync' = {}
    /\ Idle
    /\ gauge' = [i \in Integrations |-> "None"]
    /\ UNCHANGED <<intgs, secrets, world, uids>>

-----------------------------------------------------------------------------
Users ==
    \E i \in Integrations :
        \/ \E s \in Specs : CreateIntegration(i, s) \/ UpdateIntegration(i, s)
        \/ DeleteIntegration(i)

Upsets ==
    \/ \E t \in Tenants : TenantChanges(t)
    \/ \E h \in Homes, s \in AuthSecrets, c \in Credentials \cup {Nil} :
        CredentialsChange(h, s, c)
    \/ \E x \in Endpoints : EndpointChanges(x)
    \/ \E i \in Integrations : AdminDeletesSecret(i) \/ AdminOverwritesSecret(i)
    \/ Restart

Next ==
    \/ Users
    \/ \E i \in Integrations : Reconcile(i) \/ Resync(i)
    \/ \E up \in BOOLEAN : WorkerStep(up)
    \/ \E i \in Integrations : CacheIntegration(i) \/ CacheSecret(i) \/ CollectSecret(i)
    \/ Upsets

\* The worker, the informers, the timers and the garbage collector keep
\* running; a queued request is dequeued in turn.
Fairness ==
    /\ WF_vars(WorkerStep(TRUE))
    /\ \A i \in Integrations :
        /\ SF_vars(Reconcile(i))
        /\ WF_vars(Resync(i))
        /\ WF_vars(CacheIntegration(i)) /\ WF_vars(CacheSecret(i))
        /\ WF_vars(CollectSecret(i))

Spec == Init /\ [][Next]_vars /\ Fairness

-----------------------------------------------------------------------------
\* Properties.

WorkerTypeOK ==
    \/ /\ pc = "idle" /\ req = Nil /\ base = Nil /\ draft = Nil
       /\ creds = Nil /\ delay = 0
    \/ /\ pc \in Steps \ {"idle"} /\ req \in Integrations
       /\ base \in IntegrationObject
       /\ IF pc \in ProvisionSteps \cup {"status"} THEN draft \in IntegrationStatus
                                                   ELSE draft = Nil
       /\ creds \in Credentials \cup {Nil} /\ delay \in Int

\* Every variable has its type; the worker holds a request, the Integration
\* read and, while it provisions or reports, a status, exactly while it runs.
TypeOK ==
    /\ intgs \in [Integrations -> IntegrationObject \cup {Nil}]
    /\ icache \in [Integrations -> IntegrationObject \cup {Nil}]
    /\ secrets \in [Integrations -> SecretObject \cup {Nil}]
    /\ scache \in [Integrations -> SecretObject \cup {Nil}]
    /\ snew \in [Integrations -> BOOLEAN]
    /\ tenants \subseteq Tenants /\ reachable \subseteq Endpoints
    /\ auth \in [Homes -> [AuthSecrets -> Credentials \cup {Nil}]]
    /\ queue \subseteq Integrations /\ resync \subseteq Integrations
    /\ WorkerTypeOK
    /\ gauge \in [Integrations -> Phases]
    /\ uids \in Nat /\ upsets \in Nat

\* A pass publishes credentials and probes only for the Integration object that
\* was read: however stale the cache, that object still exists, with its
\* finalizer, so finalize will find what the pass leaves (reconcileIntegration).
WorksOnExisting ==
    pc \in ProvisionSteps =>
        intgs[req] # Nil /\ intgs[req].uid = base.uid /\ intgs[req].finalizer

\* "delete it explicitly so external credentials stop being mounted promptly":
\* when finalize drops the finalizer of an Integration whose status names a
\* connection Secret, that Secret is gone and nothing has brought it back.
CredentialsGoFirst ==
    pc = "release" /\ base.status.hasSecret => secrets[req] = Nil

\* What a status that says Ready says of a spec.
Coherent(spec, st) ==
    /\ ~spec.suspend
    /\ st.phase = "Connected" /\ st.retries = 0 /\ ~st.hasError
    /\ st.hasSecret /\ st.observedEndpoint = spec.endpoint
    /\ st.conditions["Progressing"] = "False"
    /\ st.conditions["Degraded"] = "Absent"
    /\ IsTrue(st.conditions, "Connected")
    /\ IsTrue(st.conditions, "SecretResolved")

\* A status that says Ready for the current generation comes from a pass that
\* went all the way to a successful probe of the endpoint in the spec: nothing
\* of an earlier failure, suspension or blocked pass is left in it.
ReadyStatusIsCoherent ==
    \A i \in Integrations :
        intgs[i] # Nil /\ IsTrue(intgs[i].status.conditions, "Ready")
                       /\ intgs[i].status.observedGeneration = intgs[i].gen
        => ~intgs[i].deleting /\ Coherent(intgs[i].spec, intgs[i].status)

\* Once an Integration is gone, its deletion observed and no request for it
\* left, no phase series is exported for it.
NoLeakedSeries ==
    \A i \in Integrations :
        intgs[i] = Nil /\ icache[i] = Nil /\ i \notin queue /\ req # i
        => gauge[i] = "None"

\* No request, reconcile or watch event is under way for i.
Quiet(i) == icache[i] = intgs[i] /\ i \notin queue /\ req # i

\* No lost wakeup, not even under a retry policy whose delay is zero and sets
\* no timer: an Integration that nothing will bring back is a suspended one
\* that says so.
NoLostWakeup ==
    \A i \in Integrations :
        intgs[i] # Nil /\ Quiet(i) /\ i \notin resync
        => /\ ~intgs[i].deleting /\ intgs[i].spec.suspend
           /\ intgs[i].status.phase = "Disabled"
           /\ intgs[i].status.observedGeneration = intgs[i].gen

\* The phases of a status written after a probe, or after fail().
ProbedPhases == {"Connected", "Degraded", "Failed"}

\* The connection Secret of i is the one of the Integration intg.
InPlace(i, intg) ==
    /\ secrets[i] # Nil /\ secrets[i].owner = intg.uid
    /\ secrets[i].data # Nil /\ secrets[i].data.endpoint = intg.spec.endpoint

\* Between two probes the connection Secret is in place: owned by this
\* Integration and naming the endpoint of its spec, whatever others did to it.
\* A change to it is noticed without waiting for a timer (Owns(Secret)).
ConnectionInPlace ==
    \A i \in Integrations :
        /\ intgs[i] # Nil /\ Quiet(i) /\ ~snew[i]
        /\ intgs[i].status.phase \in ProbedPhases
        => InPlace(i, intgs[i])

\* Every failed probe that is reported is counted once: the counter is read
\* from a cache that may be behind, changed in memory and written back, and an
\* accepted write is one more than what the API server had (Retries++).
EveryFailureCounted ==
    [][/\ pc = "status" /\ pc' = "idle" /\ upsets' = upsets /\ req \notin queue'
       /\ draft.phase \in {"Degraded", "Failed"}
       => intgs'[req].status.retries = Incremented(intgs[req].status.retries)]_vars

\* integration_types.go, "InitialDelay is the delay before the first retry":
\* an endpoint that failed a probe is not probed again, for the same spec,
\* while the delay computed for the retry is still running.
RetriesWaitForTimer ==
    /\ pc = "probe" /\ base.status.phase \in {"Degraded", "Failed"}
    /\ base.status.observedGeneration = base.gen
    => req \notin resync

Settled(i) ==
    LET intg == intgs[i]
        st   == intg.status
        spec == intg.spec
        found == Resolved(i, spec)
    IN  /\ ~intg.deleting
        /\ st.observedGeneration = intg.gen
        /\ IF spec.suspend THEN st.phase = "Disabled"
           ELSE IF spec.tenant \notin tenants \/ (spec.auth # Nil /\ found = Nil)
                THEN st.phase = "Pending"
           ELSE /\ secrets[i] = [owner |-> intg.uid, data |-> BuildConnectionData(spec, found)]
                /\ IF Connected(spec)
                   THEN st.phase = "Connected" /\ IsTrue(st.conditions, "Ready")
                   ELSE st.phase \in {"Degraded", "Failed"}

\* Once users, tenants, credentials and endpoints stop changing, every
\* Integration is gone with its Secret and its series, or Disabled, or Pending
\* on what is missing, or it publishes the current credentials and its status
\* says whether the endpoint answers.
EventuallySettled ==
    <>[](\A i \in Integrations :
            IF intgs[i] = Nil THEN gauge[i] = "None" /\ secrets[i] = Nil
                              ELSE Settled(i))

-----------------------------------------------------------------------------
\* The inductive invariant: what the API server, the cache and the worker agree
\* on of an Integration, and what a pass has established at each of its steps.

\* new is a version of the same object not older than old, or of a successor.
Follows(new, old) ==
    /\ old.uid <= new.uid
    /\ old.uid = new.uid => /\ old.gen <= new.gen
                            /\ old.finalizer => new.finalizer
                            /\ old.deleting => new.deleting

StoredOK ==
    \A i \in Integrations :
        intgs[i] # Nil => /\ intgs[i].uid <= uids
                          /\ intgs[i].status.observedGeneration <= intgs[i].gen
                          /\ intgs[i].deleting => intgs[i].finalizer

\* The cache is behind, never ahead; an Integration it shows alive exists.
CachedOK ==
    \A i \in Integrations :
        icache[i] # Nil =>
            /\ icache[i].uid <= uids
            /\ intgs[i] # Nil => Follows(intgs[i], icache[i])
            /\ icache[i].finalizer /\ ~icache[i].deleting =>
                intgs[i] # Nil /\ intgs[i].uid = icache[i].uid

\* So is the worker, and the cache is never behind the worker.
HeldOK ==
    pc # "idle" =>
        /\ base.uid <= uids
        /\ intgs[req] # Nil => Follows(intgs[req], base)
        /\ intgs[req] = base => icache[req] = base
        /\ pc = "addFinalizer" => ~base.finalizer
        /\ pc \in FinalizeSteps => base.deleting
        /\ pc \in ProvisionSteps \cup {"status"} =>
            /\ base.finalizer /\ ~base.deleting
            /\ intgs[req] # Nil /\ intgs[req].uid = base.uid

\* What the status in memory says by the time each step is reached.
DraftOK ==
    /\ pc \in {"tenant", "resolve", "connection", "probe"} =>
        /\ ~base.spec.suspend
        /\ draft.retries = base.status.retries
        /\ draft.observedEndpoint = base.spec.endpoint
    /\ pc \in {"connection", "probe"} => IsTrue(draft.conditions, "SecretResolved")
    /\ pc = "probe" => draft.hasSecret
    /\ pc = "status" =>
        /\ draft.observedGeneration = base.gen
        /\ IsTrue(draft.conditions, "Ready") => Coherent(base.spec, draft)
        /\ draft.phase \in {"Degraded", "Failed"} =>
                draft.retries = Incremented(base.status.retries)
        /\ \/ delay > 0
           \/ draft.phase = "Degraded"
           \/ draft.phase = "Disabled" /\ base.spec.suspend

\* From the write of the connection Secret on, it is in place unless an event
\* of it is on its way.
SecretsOK ==
    /\ \A i \in Integrations : ~snew[i] => scache[i] = secrets[i]
    /\ pc = "probe" \/ (pc = "status" /\ draft.phase \in ProbedPhases) =>
        snew[req] \/ req \in queue \/ InPlace(req, base)

\* A series is exported only for an Integration somebody still has to look at.
SeriesOK ==
    \A i \in Integrations :
        icache[i] = Nil /\ i \notin queue => req # i /\ gauge[i] = "None"

IndInv ==
    /\ TypeOK /\ StoredOK /\ CachedOK /\ HeldOK /\ DraftOK /\ SecretsOK /\ SeriesOK
    /\ CredentialsGoFirst /\ ReadyStatusIsCoherent /\ NoLostWakeup /\ ConnectionInPlace
==============================================================================
