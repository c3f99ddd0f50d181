------------------------------- MODULE Tenant -------------------------------
(***************************************************************************)
(* The Tenant reconciler (internal/controller/tenant_controller.go) with   *)
(* the platform primitives it drives, the admission rule on updates, the   *)
(* phase gauge, and the parts of Kubernetes it depends on: the API server, *)
(* the informer caches, the work queue, the garbage collector and the      *)
(* namespace controller.                                                   *)
(*                                                                         *)
(* A Tenant owns one namespace and up to four objects in it.  The          *)
(* controller has one worker (MaxConcurrentReconciles is left at 1); it    *)
(* reads every object from a cache that lags behind the API server, and    *)
(* every API call it makes is a step of its own, between which users, the  *)
(* caches and the other controllers move.                                  *)
(*                                                                         *)
(* Simplifications.  A cache that catches up jumps to the current object.  *)
(* Labels, events, timestamps and reasons are left out.  A request waiting *)
(* out its rate-limit delay is in the queue, since a queued request may    *)
(* wait arbitrarily long.  Names are sequences of dash-free segments, so   *)
(* that fmt.Sprintf("%s-%s") is concatenation and "a" + "b-c" is the same  *)
(* name as "a-b" + "c".                                                    *)
(***************************************************************************)
EXTENDS Integers, Sequences, FiniteSets, Conditions, KubeClient

CONSTANTS
    Tenants,       \* tenant names
    Specs,         \* the TenantSpecs users may store: defaulted and valid
    Nil,           \* no object, no request, no namespace name
    MaxUid,        \* bound: Tenant objects ever created
    MaxGen,        \* bound: the generation a spec edit may reach
    MaxInventory,  \* bound: Environments and Integrations of a tenant
    MaxUpsets      \* bound: API errors, restarts, out-of-band changes

\* The managed objects of a tenant namespace, and the kinds Owns() watches.
Kinds        == {"quota", "limits", "networkPolicy", "adminBinding"}
WatchedKinds == {"quota", "limits"}

Phases         == {"None", "Active", "Suspended", "Failed", "Terminating"}
ConditionTypes == {"Ready", "Progressing", "Degraded"}

\* The program counter names the next API call of the running reconcile.
ProvisionSteps == {"namespace", "status", "fail"} \cup Kinds
FinalizeSteps  == {"terminate", "teardown", "release"}
Steps          == {"idle", "addFinalizer"} \cup ProvisionSteps \cup FinalizeSteps

-----------------------------------------------------------------------------
\* What a spec asks for.

\* fmt.Sprintf("%s-%s", prefix, name), the prefix defaulting to "tenant".
NamespaceName(t, spec) ==
    (IF spec.prefix = <<>> THEN <<"tenant">> ELSE spec.prefix) \o t

Namespaces == {NamespaceName(t, s) : t \in Tenants, s \in Specs}

\* The hard limits of the managed ResourceQuota; suspension pins pods to 0.
QuotaHard(spec) ==
    [r \in DOMAIN spec.hard \cup (IF spec.suspended THEN {"pods"} ELSE {}) |->
        IF spec.suspended /\ r = "pods" THEN 0 ELSE spec.hard[r]]

ResourceQuota(spec) ==
    IF DOMAIN spec.hard = {} /\ ~spec.suspended THEN Nil ELSE QuotaHard(spec)

\* Three resource lists: default, defaultRequest and max.
LimitRange(spec) ==
    IF \A f \in DOMAIN spec.limits : DOMAIN spec.limits[f] = {}
    THEN Nil ELSE spec.limits

\* The flows the managed policy admits; everything else is denied.
NetworkPolicy(spec) ==
    CASE spec.isolation = "None"     -> Nil
      [] spec.isolation = "Strict"   -> [ingress |-> {}, egress |-> {}]
      [] spec.isolation = "Baseline" ->
            [ingress |-> {"sameNamespace"}, egress |-> {"sameNamespace", "dns"}]

AdminBinding(spec) == IF spec.admins = {} THEN Nil ELSE spec.admins

Desired(spec, k) ==
    CASE k = "quota"         -> ResourceQuota(spec)
      [] k = "limits"        -> LimitRange(spec)
      [] k = "networkPolicy" -> NetworkPolicy(spec)
      [] k = "adminBinding"  -> AdminBinding(spec)

\* The controller owner reference of Tenant object tenant, named t.
OwnerRef(t, tenant) == [name |-> t, uid |-> tenant.uid]

DesiredChild(t, tenant, k) ==
    IF Desired(tenant.spec, k) = Nil THEN Nil
    ELSE [owner |-> OwnerRef(t, tenant), value |-> Desired(tenant.spec, k)]

-----------------------------------------------------------------------------
\* The status each outcome of a reconcile writes, computed on the Tenant read.

NewStatus ==
    [phase |-> "None", conditions |-> [c \in ConditionTypes |-> "Absent"],
     observedGeneration |-> 0, namespace |-> Nil, children |-> 0]

\* Mutant: a Degraded condition survives the recovery.
DegradedSticks(t, tenant, count) ==
    [phase |-> "Active",
     conditions |-> MarkTrue(MarkFalse(tenant.status.conditions, "Progressing"), "Ready"),
     observedGeneration |-> tenant.gen,
     namespace |-> NamespaceName(t, tenant.spec), children |-> count]

ProvisionedStatus(t, tenant, count) ==
    LET c0 == MarkTrue(tenant.status.conditions, "Progressing")
        c1 == MarkFalse(Remove(c0, "Degraded"), "Progressing")
    IN  [phase      |-> IF tenant.spec.suspended THEN "Suspended" ELSE "Active",
         conditions |-> IF tenant.spec.suspended THEN MarkFalse(c1, "Ready")
                                                 ELSE MarkTrue(c1, "Ready"),
         observedGeneration |-> tenant.gen,
         namespace  |-> NamespaceName(t, tenant.spec),
         children   |-> count]

FailedStatus(t, tenant) ==
    LET c0 == MarkTrue(tenant.status.conditions, "Progressing")
    IN  [tenant.status EXCEPT
            !.phase = "Failed",
            !.conditions = MarkFalse(MarkTrue(c0, "Degraded"), "Ready"),
            !.observedGeneration = tenant.gen,
            !.namespace = NamespaceName(t, tenant.spec)]

TerminatingStatus(tenant) ==
    [tenant.status EXCEPT
        !.phase = "Terminating",
        !.conditions = MarkFalse(tenant.status.conditions, "Ready")]
-----------------------------------------------------------------------------
VARIABLES
    tenants,    \* Tenant objects in the API server
    namespaces, \* Namespace objects
    children,   \* the managed objects of each namespace, by kind
    inventory,  \* Environments and Integrations that reference each tenant
    tcache, nscache, kcache, icache,   \* the informer caches of those four
    nsnews, knews,  \* controllers named by the versions a cache has yet to see
    queue,      \* the work queue: requests to reconcile
    resync,     \* requests with a RequeueAfter timer running
    pc,         \* next API call of the worker, "idle" between reconciles
    req,        \* the request being reconciled
    base,       \* the Tenant that reconcile works on, as read from the cache
    gauge,      \* the phase series exported for each tenant
    uids,       \* Tenant objects created so far
    upsets      \* API errors, restarts and out-of-band changes so far

api    == <<tenants, namespaces, children, inventory>>
caches == <<tcache, nscache, kcache, icache>>
news   == <<nsnews, knews>>
worker == <<pc, req, base>>
bounds == <<uids, upsets>>
vars   == <<api, caches, news, queue, resync, worker, gauge, bounds>>

TenantStatus ==
    [phase : Phases, conditions : [ConditionTypes -> ConditionStatus],
     observedGeneration : Nat, namespace : Namespaces \cup {Nil}, children : Nat]

TenantObject ==
    [uid : Nat, gen : Nat, deleting : BOOLEAN, finalizer : BOOLEAN,
     spec : Specs, status : TenantStatus]

Owner           == [name : Tenants, uid : Nat]
NamespaceObject == [terminating : BOOLEAN, owner : Owner \cup {Nil}]
ChildObject(k)  == [owner : Owner, value : {Desired(s, k) : s \in Specs}]

ASSUME NilAssumption ==
    /\ Nil \notin Tenants
    /\ Nil \notin TenantObject
    /\ Nil \notin NamespaceObject
    /\ Nil \notin Owner
    /\ \A k \in Kinds : Nil \notin ChildObject(k)

ASSUME BoundsAssumption ==
    /\ MaxUid \in Nat /\ MaxGen \in Nat /\ MaxInventory \in Nat
    /\ MaxUpsets \in Nat

Init ==
    /\ tenants    = [t \in Tenants |-> Nil]
    /\ namespaces = [n \in Namespaces |-> Nil]
    /\ children   = [n \in Namespaces |-> [k \in Kinds |-> Nil]]
    /\ inventory  = [t \in Tenants |-> 0]
    /\ tcache = tenants /\ nscache = namespaces
    /\ kcache = children /\ icache = inventory
    /\ nsnews = [n \in Namespaces |-> {}]
    /\ knews  = [n \in Namespaces |-> [k \in Kinds |-> {}]]
    /\ queue = {} /\ resync = {}
    /\ pc = "idle" /\ req = Nil /\ base = Nil
    /\ gauge = [t \in Tenants |-> "None"]
    /\ uids = 0 /\ upsets = 0

-----------------------------------------------------------------------------
\* Writes to namespaces and managed objects.  Each new version is news to the
\* cache; what matters of it is the controller its watch event will name.

Controller(object) == IF object = Nil THEN Nil
                      ELSE IF object.owner = Nil THEN Nil ELSE object.owner.name

WriteNamespace(n, object) ==
    /\ namespaces' = [namespaces EXCEPT ![n] = object]
    /\ nsnews' = IF object = namespaces[n] THEN nsnews
                 ELSE [nsnews EXCEPT ![n] =
                        @ \cup {Controller(namespaces[n]), Controller(object)}]
    /\ UNCHANGED <<children, knews>>

WriteChild(n, k, object) ==
    /\ children' = [children EXCEPT ![n][k] = object]
    /\ knews' = IF object = children[n][k] THEN knews
                ELSE [knews EXCEPT ![n][k] =
                        @ \cup {Controller(children[n][k]), Controller(object)}]
    /\ UNCHANGED <<namespaces, nsnews>>

NoWrite == UNCHANGED <<namespaces, children, news>>

-----------------------------------------------------------------------------
\* Users.

NewTenant(spec, uid) ==
    [uid |-> uid, gen |-> 1, deleting |-> FALSE, finalizer |-> FALSE,
     spec |-> spec, status |-> NewStatus]

CreateTenant(t, spec) ==
    /\ tenants[t] = Nil
    /\ uids < MaxUid
    /\ uids' = uids + 1
    /\ tenants' = [tenants EXCEPT ![t] = NewTenant(spec, uids + 1)]
    /\ UNCHANGED <<namespaces, children, inventory, caches, news, queue,
                   resync, worker, gauge, upsets>>

\* The validating webhook forbids a change of the namespace prefix.
ValidateUpdate(old, new) == old.prefix = new.prefix

\* A spec change bumps the generation; it is legal on a deleting Tenant too.
WithSpec(tenant, spec) == [tenant EXCEPT !.spec = spec, !.gen = tenant.gen + 1]

UpdateTenant(t, spec) ==
    /\ tenants[t] # Nil
    /\ tenants[t].gen < MaxGen
    /\ spec # tenants[t].spec
    /\ ValidateUpdate(tenants[t].spec, spec)
    /\ tenants' = [tenants EXCEPT ![t] = WithSpec(tenants[t], spec)]
    /\ UNCHANGED <<namespaces, children, inventory, caches, news, queue,
                   resync, worker, gauge, bounds>>

\* With a finalizer the object stays, marked deleting; without it is removed.
MarkDeleting(tenant) == [tenant EXCEPT !.deleting = TRUE, !.gen = tenant.gen + 1]

DeleteTenant(t) ==
    /\ tenants[t] # Nil
    /\ ~tenants[t].deleting
    /\ tenants' = [tenants EXCEPT ![t] =
            IF tenants[t].finalizer THEN MarkDeleting(tenants[t]) ELSE Nil]
    /\ UNCHANGED <<namespaces, children, inventory, caches, news, queue,
                   resync, worker, gauge, bounds>>

\* Environments and Integrations come and go under other controllers.
ChangeInventory(t, count) ==
    /\ count # inventory[t]
    /\ upsets < MaxUpsets
    /\ upsets' = upsets + 1
    /\ inventory' = [inventory EXCEPT ![t] = count]
    /\ UNCHANGED <<tenants, namespaces, children, caches, news, queue, resync,
                   worker, gauge, uids>>

-----------------------------------------------------------------------------
\* The worker.

\* Reconcile returns: no request, or one retried after an error.
Idle   == pc' = "idle" /\ req' = Nil /\ base' = Nil
Return == Idle /\ UNCHANGED queue

Retry  == Idle /\ queue' = queue \cup {req}

\* The API server accepts a write of the Tenant iff base is its current version.
Fresh == tenants[req] = base

SetPhase(t, phase) == gauge' = [gauge EXCEPT ![t] = phase]
ClearPhase(t)      == gauge' = [gauge EXCEPT ![t] = "None"]

\* Mutant: NotFound returns without clearing the series.
KeepsSeries(t) == UNCHANGED gauge

\* Get returned NotFound: the Tenant is gone.
NotFound(t) == ClearPhase(t)

\* Mutant: a Tenant is provisioned without waiting for its finalizer.
SkipsFinalizer(tenant) == IF tenant.deleting THEN "terminate" ELSE "namespace"

\* Where a reconcile of the Tenant read goes after the Get.
FirstStep(tenant) ==
    CASE ~tenant.deleting /\ ~tenant.finalizer -> "addFinalizer"
      [] ~tenant.deleting /\ tenant.finalizer  -> "namespace"
      [] tenant.deleting /\ tenant.finalizer   -> "terminate"
      [] OTHER                                 -> "idle"

\* Dequeue a request and Get its Tenant from the cache.
Reconcile(t) ==
    /\ pc = "idle"
    /\ t \in queue
    /\ queue' = queue \ {t}
    /\ IF tcache[t] = Nil
       THEN NotFound(t) /\ UNCHANGED worker
       ELSE /\ pc' = FirstStep(tcache[t])
            /\ IF pc' = "idle" THEN UNCHANGED <<req, base>>
                               ELSE req' = t /\ base' = tcache[t]
            /\ UNCHANGED gauge
    /\ UNCHANGED <<api, caches, news, resync, bounds>>

WithFinalizer(tenant)      == [tenant EXCEPT !.finalizer = TRUE]
WithStatus(tenant, status) == [tenant EXCEPT !.status = status]

\* Mutant: the result of the Update is ignored and provisioning goes on.
IgnoresUpdateError(up) ==
    /\ pc = "addFinalizer"
    /\ tenants' = IF up /\ Fresh THEN [tenants EXCEPT ![req] = WithFinalizer(base)]
                                 ELSE tenants
    /\ pc' = "namespace"
    /\ NoWrite
    /\ UNCHANGED <<inventory, queue, resync, req, base, gauge>>

AddFinalizer(up) ==
    /\ pc = "addFinalizer"
    /\ IF up /\ Fresh
       THEN /\ tenants' = [tenants EXCEPT ![req] = WithFinalizer(base)]
            /\ Return
       ELSE UNCHANGED tenants /\ Retry
    /\ NoWrite
    /\ UNCHANGED <<inventory, resync, gauge>>

TargetNamespace == NamespaceName(req, base.spec)

\* SetControllerReference refuses an object another name controls; an owner
\* reference of the same name with an older UID is replaced.
OwnedByOther(object, t) ==
    object # Nil /\ object.owner # Nil /\ object.owner.name # t

ReconcileNamespace(up) ==
    LET n       == TargetNamespace
        owner   == OwnerRef(req, base)
        desired == IF nscache[n] = Nil
                   THEN [terminating |-> FALSE, owner |-> owner]
                   ELSE [nscache[n] EXCEPT !.owner = owner]
        result  == CreateOrUpdate(nscache[n], namespaces[n], nsnews[n] = {},
                                  Nil, desired)
    IN  /\ pc = "namespace"
        /\ IF up /\ ~OwnedByOther(nscache[n], req) /\ result.ok
           THEN WriteNamespace(n, result.object) /\ pc' = "quota"
           ELSE NoWrite /\ pc' = "fail"
        /\ UNCHANGED <<tenants, inventory, queue, resync, req, base, gauge>>

StepAfter(k) ==
    CASE k = "quota"         -> "limits"
      [] k = "limits"        -> "networkPolicy"
      [] k = "networkPolicy" -> "adminBinding"
      [] k = "adminBinding"  -> "status"

\* Objects are created in a namespace only while it is not terminating.
Admits(n) == namespaces[n] # Nil /\ ~namespaces[n].terminating

\* Mutant: an object the spec no longer asks for is left in place.
LeftInPlace(object) == Ok(object)

\* Delete, NotFound being success.
Removed(object) == Ok(Nil)

\* One of the four managed objects: Delete when the spec asks for none,
\* otherwise CreateOrUpdate on the cached object.
ApplyChild(n, k) ==
    LET desired == DesiredChild(req, base, k)
        result  == CreateOrUpdate(kcache[n][k], children[n][k], knews[n][k] = {},
                                  Nil, desired)
    IN  CASE desired = Nil -> Removed(children[n][k])
          [] desired # Nil /\ OwnedByOther(kcache[n][k], req)
                         -> Failed(children[n][k])
          [] desired # Nil /\ kcache[n][k] = Nil /\ ~Admits(n)
                         -> Failed(children[n][k])
          [] OTHER       -> result

ReconcileChild(k, up) ==
    LET n      == TargetNamespace
        result == ApplyChild(n, k)
    IN  /\ pc = k
        /\ IF up /\ result.ok
           THEN WriteChild(n, k, result.object) /\ pc' = StepAfter(k)
           ELSE NoWrite /\ pc' = "fail"
        /\ UNCHANGED <<tenants, inventory, queue, resync, req, base, gauge>>

\* Mutant: success returns an empty Result.
NoRequeue(t) == UNCHANGED resync

RequeueAfter(t) == resync' = resync \cup {t}

\* countChildren, then the success status and the periodic requeue.
WriteStatus(up) ==
    LET status == ProvisionedStatus(req, base, icache[req])
    IN  /\ pc = "status"
        /\ SetPhase(req, status.phase)
        /\ IF up /\ Fresh
           THEN /\ tenants' = [tenants EXCEPT ![req] = WithStatus(base, status)]
                /\ RequeueAfter(req)
                /\ Return
           ELSE UNCHANGED <<tenants, resync>> /\ Retry
        /\ NoWrite
        /\ UNCHANGED inventory

\* A List of countChildren fails (InventoryError).
CountFails(up) ==
    /\ pc = "status" /\ ~up
    /\ pc' = "fail"
    /\ UNCHANGED <<api, news, queue, resync, req, base, gauge>>

\* EnsureNamespaceDeleted: the cached namespace decides whether to Delete; a
\* deletion that has started is enough.
DeleteNamespace(n) ==
    IF nscache[n] # Nil /\ ~nscache[n].terminating /\ namespaces[n] # Nil
    THEN WriteNamespace(n, [namespaces[n] EXCEPT !.terminating = TRUE])
    ELSE NoWrite

\* Mutant: a failed provisioning is rolled back.
RollsBack(up) ==
    /\ pc = "fail"
    /\ SetPhase(req, "Failed")
    /\ DeleteNamespace(TargetNamespace)
    /\ Retry
    /\ UNCHANGED <<tenants, inventory, resync>>

\* fail(): report the failed step, best effort, and return its error.
Fail(up) ==
    /\ pc = "fail"
    /\ SetPhase(req, "Failed")
    /\ IF up /\ Fresh
       THEN tenants' = [tenants EXCEPT ![req] =
                            WithStatus(base, FailedStatus(req, base))]
       ELSE UNCHANGED tenants
    /\ Retry
    /\ NoWrite
    /\ UNCHANGED <<inventory, resync>>

\* Mutant: the namespace is deleted although the status names none.
TearsDownAnyway(tenant) == tenant.spec.policy # "Orphan"

TearsDown(tenant) == tenant.spec.policy # "Orphan" /\ tenant.status.namespace # Nil

\* finalize(): a best-effort status update.  A successful one refreshes the
\* Tenant in memory, a failed one leaves it at the version read.
Terminate(up) ==
    LET new == WithStatus(base, TerminatingStatus(base))
    IN  /\ pc = "terminate"
        /\ SetPhase(req, "Terminating")
        /\ IF up /\ Fresh
           THEN tenants' = [tenants EXCEPT ![req] = new] /\ base' = new
           ELSE UNCHANGED <<tenants, base>>
        /\ pc' = IF TearsDown(base) THEN "teardown" ELSE "release"
        /\ NoWrite
        /\ UNCHANGED <<inventory, queue, resync, req>>

Teardown(up) ==
    /\ pc = "teardown"
    /\ IF up
       THEN /\ DeleteNamespace(base.status.namespace)
            /\ pc' = "release"
            /\ UNCHANGED <<queue, req, base>>
       ELSE NoWrite /\ Retry
    /\ UNCHANGED <<tenants, inventory, resync, gauge>>

\* Remove the finalizer, and with it the deleting object.
Release(up) ==
    /\ pc = "release"
    /\ ClearPhase(req)
    /\ IF up /\ Fresh
       THEN tenants' = [tenants EXCEPT ![req] = Nil] /\ Return
       ELSE UNCHANGED tenants /\ Retry
    /\ NoWrite
    /\ UNCHANGED <<inventory, resync>>

\* The next API call of the running reconcile; up is false when it errors.
WorkerStep(up) ==
    /\ \/ AddFinalizer(up)
       \/ ReconcileNamespace(up)
       \/ \E k \in Kinds : ReconcileChild(k, up)
       \/ WriteStatus(up)
       \/ CountFails(up)
       \/ Fail(up)
       \/ Terminate(up)
       \/ Teardown(up)
       \/ Release(up)
    /\ UNCHANGED <<caches, uids>>
    /\ IF up THEN UNCHANGED upsets
             ELSE upsets < MaxUpsets /\ upsets' = upsets + 1

-----------------------------------------------------------------------------
\* Informer caches: catching up is what raises the watch events.

CacheTenant(t) ==
    /\ tcache[t] # tenants[t]
    /\ tcache' = [tcache EXCEPT ![t] = tenants[t]]
    /\ queue' = queue \cup {t}
    /\ UNCHANGED <<api, nscache, kcache, icache, news, resync, worker, gauge,
                   bounds>>

CacheNamespace(n) ==
    /\ nsnews[n] # {}
    /\ nscache' = [nscache EXCEPT ![n] = namespaces[n]]
    /\ nsnews' = [nsnews EXCEPT ![n] = {}]
    /\ queue' = queue \cup (nsnews[n] \ {Nil})
    /\ UNCHANGED <<api, tcache, kcache, icache, knews, resync, worker, gauge,
                   bounds>>

\* NetworkPolicies and RoleBindings are cached for reads but not watched.
Watched(k) == k \in WatchedKinds

CacheChild(n, k) ==
    /\ knews[n][k] # {}
    /\ kcache' = [kcache EXCEPT ![n][k] = children[n][k]]
    /\ knews' = [knews EXCEPT ![n][k] = {}]
    /\ queue' = IF Watched(k) THEN queue \cup (knews[n][k] \ {Nil}) ELSE queue
    /\ UNCHANGED <<api, tcache, nscache, icache, nsnews, resync, worker, gauge,
                   bounds>>

CacheInventory(t) ==
    /\ icache[t] # inventory[t]
    /\ icache' = [icache EXCEPT ![t] = inventory[t]]
    /\ queue' = queue \cup {t}
    /\ UNCHANGED <<api, tcache, nscache, kcache, news, resync, worker, gauge,
                   bounds>>

\* A RequeueAfter timer fires.
Resync(t) ==
    /\ t \in resync
    /\ resync' = resync \ {t}
    /\ queue' = queue \cup {t}
    /\ UNCHANGED <<api, caches, news, worker, gauge, bounds>>

-----------------------------------------------------------------------------
\* The other controllers of the cluster.

OwnerExists(owner) ==
    tenants[owner.name] # Nil /\ tenants[owner.name].uid = owner.uid

\* The garbage collector deletes a namespace whose owning Tenant is gone.
CollectNamespace(n) ==
    /\ namespaces[n] # Nil
    /\ ~namespaces[n].terminating
    /\ namespaces[n].owner # Nil
    /\ ~OwnerExists(namespaces[n].owner)
    /\ WriteNamespace(n, [namespaces[n] EXCEPT !.terminating = TRUE])
    /\ UNCHANGED <<tenants, inventory, caches, queue, resync, worker, gauge,
                   bounds>>

\* The namespace controller drains a terminating namespace, the garbage
\* collector an object whose owner is gone.
CollectChild(n, k) ==
    /\ children[n][k] # Nil
    /\ ~(Admits(n) /\ OwnerExists(children[n][k].owner))
    /\ WriteChild(n, k, Nil)
    /\ UNCHANGED <<tenants, inventory, caches, queue, resync, worker, gauge,
                   bounds>>

NamespaceGone(n) ==
    /\ namespaces[n] # Nil
    /\ namespaces[n].terminating
    /\ \A k \in Kinds : children[n][k] = Nil
    /\ WriteNamespace(n, Nil)
    /\ UNCHANGED <<tenants, inventory, caches, queue, resync, worker, gauge,
                   bounds>>

-----------------------------------------------------------------------------
\* Upsets: what the operator neither does nor expects, a bounded number of times.

Upset == upsets < MaxUpsets /\ upsets' = upsets + 1

\* A cluster administrator creates the namespace first, or deletes it.
AdminCreatesNamespace(n) ==
    /\ Upset
    /\ namespaces[n] = Nil
    /\ WriteNamespace(n, [terminating |-> FALSE, owner |-> Nil])
    /\ UNCHANGED <<tenants, inventory, caches, queue, resync, worker, gauge,
                   uids>>

AdminDeletesNamespace(n) ==
    /\ Upset
    /\ Admits(n)
    /\ WriteNamespace(n, [namespaces[n] EXCEPT !.terminating = TRUE])
    /\ UNCHANGED <<tenants, inventory, caches, queue, resync, worker, gauge,
                   uids>>

AdminDeletesChild(n, k) ==
    /\ Upset
    /\ children[n][k] # Nil
    /\ WriteChild(n, k, Nil)
    /\ UNCHANGED <<tenants, inventory, caches, queue, resync, worker, gauge,
                   uids>>

\* The operator restarts: the queue, the timers, the worker and the exported
\* series are lost; the initial List fills the caches and raises an event for
\* every object it finds.
InitialEvents ==
    {t \in Tenants :
        \/ tenants[t] # Nil
        \/ inventory[t] > 0
        \/ \E n \in Namespaces : Controller(namespaces[n]) = t
        \/ \E n \in Namespaces, k \in WatchedKinds : Controller(children[n][k]) = t}

Restart ==
    /\ Upset
    /\ tcache' = tenants /\ nscache' = namespaces
    /\ kcache' = children /\ icache' = inventory
    /\ nsnews' = [n \in Namespaces |-> {}]
    /\ knews' = [n \in Namespaces |-> [k \in Kinds |-> {}]]
    /\ queue' = InitialEvents
    /\ resync' = {}
    /\ Idle
    /\ gauge' = [t \in Tenants |-> "None"]
    /\ UNCHANGED <<api, uids>>

-----------------------------------------------------------------------------
Users ==
    \E t \in Tenants :
        \/ \E s \in Specs : CreateTenant(t, s) \/ UpdateTenant(t, s)
        \/ DeleteTenant(t)
        \/ \E c \in 0..MaxInventory : ChangeInventory(t, c)

Informers ==
    \/ \E t \in Tenants : CacheTenant(t) \/ CacheInventory(t)
    \/ \E n \in Namespaces : CacheNamespace(n) \/ \E k \in Kinds : CacheChild(n, k)

ClusterControllers ==
    \E n \in Namespaces :
        \/ CollectNamespace(n)
        \/ \E k \in Kinds : CollectChild(n, k)
        \/ NamespaceGone(n)

Upsets ==
    \/ \E n \in Namespaces :
        \/ AdminCreatesNamespace(n)
        \/ AdminDeletesNamespace(n)
        \/ \E k \in Kinds : AdminDeletesChild(n, k)
    \/ Restart

Next ==
    \/ Users
    \/ \E t \in Tenants : Reconcile(t) \/ Resync(t)
    \/ \E up \in BOOLEAN : WorkerStep(up)
    \/ Informers
    \/ ClusterControllers
    \/ Upsets

\* The worker, the timers, the informers as a whole and the cluster's own
\* controllers as a whole keep running; a queued request is dequeued in turn.
\* Users and upsets are free.
Fairness ==
    /\ WF_vars(WorkerStep(TRUE))
    /\ \A t \in Tenants : SF_vars(Reconcile(t)) /\ WF_vars(Resync(t))
    /\ WF_vars(Informers)
    /\ WF_vars(ClusterControllers)

Spec == Init /\ [][Next]_vars /\ Fairness

-----------------------------------------------------------------------------
\* Properties.

ChildTypeOK(m) ==
    /\ m = [n \in Namespaces |-> [k \in Kinds |-> m[n][k]]]
    /\ \A n \in Namespaces, k \in Kinds : m[n][k] \in ChildObject(k) \cup {Nil}

ApiTypeOK ==
    /\ tenants \in [Tenants -> TenantObject \cup {Nil}]
    /\ namespaces \in [Namespaces -> NamespaceObject \cup {Nil}]
    /\ ChildTypeOK(children)
    /\ inventory \in [Tenants -> Nat]

CacheTypeOK ==
    /\ tcache \in [Tenants -> TenantObject \cup {Nil}]
    /\ nscache \in [Namespaces -> NamespaceObject \cup {Nil}]
    /\ ChildTypeOK(kcache)
    /\ icache \in [Tenants -> Nat]
    /\ nsnews \in [Namespaces -> SUBSET (Tenants \cup {Nil})]
    /\ knews \in [Namespaces -> [Kinds -> SUBSET (Tenants \cup {Nil})]]

WorkerTypeOK ==
    \/ pc = "idle" /\ req = Nil /\ base = Nil
    \/ /\ pc \in Steps \ {"idle"} /\ req \in Tenants /\ base \in TenantObject
       /\ pc = "teardown" => base.status.namespace # Nil

\* Every variable has its type: stored Tenants, owner references and child
\* values are ones the API accepts, and the worker holds a request and a Tenant
\* exactly while a reconcile runs.
TypeOK ==
    /\ ApiTypeOK
    /\ CacheTypeOK
    /\ WorkerTypeOK
    /\ queue \subseteq Tenants
    /\ resync \subseteq Tenants
    /\ gauge \in [Tenants -> Phases]
    /\ uids \in Nat
    /\ upsets \in Nat

Live(t) == tenants[t] # Nil /\ ~tenants[t].deleting

OwnsNamespace(t, n) ==
    namespaces[n] # Nil /\ tenants[t] # Nil
        /\ namespaces[n].owner = OwnerRef(t, tenants[t])

\* A namespace or a managed object never carries an owner reference to an
\* existing Tenant whose finalizer is not in the API server: "ensure our
\* finalizer is present" comes before anything is provisioned, so no deletion
\* can escape finalize() (tenant_controller.go, Reconcile).
FinalizerGuard ==
    \A t \in Tenants, n \in Namespaces :
        /\ OwnsNamespace(t, n) => tenants[t].finalizer
        /\ \A k \in Kinds :
            children[n][k] # Nil /\ tenants[t] # Nil
                /\ children[n][k].owner = OwnerRef(t, tenants[t])
                => tenants[t].finalizer

\* The worker never provisions, or reports on, a Tenant object that no longer
\* exists, however stale its cache: a finalizing Tenant is never seen alive
\* again, and only the worker removes its finalizer.
ProvisionsOnlyExisting ==
    pc \in ProvisionSteps =>
        tenants[req] # Nil /\ tenants[req].uid = base.uid /\ tenants[req].finalizer

\* A namespace of a live Tenant starts terminating only when somebody deletes
\* it out of band: neither a teardown running on a stale Tenant or a recycled
\* name, nor the garbage collector, takes it (finalize, EnsureNamespaceDeleted).
SparesLive ==
    \A n \in Namespaces :
        Admits(n) /\ ~Admits(n)' /\ upsets' = upsets
            => \A t \in Tenants : OwnsNamespace(t, n) => tenants[t].deleting

TeardownSparesLiveTenants == [][SparesLive]_vars

\* A Ready Tenant whose status is of its current generation is not suspended,
\* reports phase Active, and has neither Degraded nor Progressing standing.
ReadyStatusIsCoherent ==
    \A t \in Tenants :
        tenants[t] # Nil /\ IsTrue(tenants[t].status.conditions, "Ready")
                         /\ tenants[t].status.observedGeneration = tenants[t].gen
        => /\ Live(t)
           /\ ~tenants[t].spec.suspended
           /\ tenants[t].status.phase = "Active"
           /\ tenants[t].status.conditions["Degraded"] = "Absent"
           /\ tenants[t].status.conditions["Progressing"] = "False"

\* Once a Tenant is gone, its deletion observed and no request for it left, no
\* phase series is exported for it (metrics.ClearPhase on both exits).
NoLeakedSeries ==
    \A t \in Tenants :
        tenants[t] = Nil /\ tcache[t] = Nil /\ t \notin queue /\ req # t
        => gauge[t] = "None"

\* The managed objects of the given kinds are what the spec of t asks for.
Provisioned(t, kinds) ==
    LET n == NamespaceName(t, tenants[t].spec)
    IN  /\ OwnsNamespace(t, n)
        /\ ~namespaces[n].terminating
        /\ \A k \in kinds : children[n][k] = DesiredChild(t, tenants[t], k)

StatusCurrent(t) ==
    tenants[t].status = ProvisionedStatus(t, tenants[t], inventory[t])

\* Nothing that would wake the controller for t is under way: no request, no
\* reconcile, no cache of a watched object behind, no namespace on its way out.
Quiescent(t) ==
    LET n == NamespaceName(t, tenants[t].spec)
    IN  /\ t \notin queue /\ req # t
        /\ tcache[t] = tenants[t] /\ icache[t] = inventory[t]
        /\ nsnews[n] = {}
        /\ \A k \in WatchedKinds : knews[n][k] = {}
        /\ namespaces[n] # Nil => ~namespaces[n].terminating

\* No lost wakeup: a Tenant with nothing pending but the resync timer has been
\* brought to its spec, as far as the watched kinds go, and says so.
NoLostWakeup ==
    \A t \in Tenants :
        tenants[t] # Nil /\ Quiescent(t)
        => Live(t) /\ Provisioned(t, WatchedKinds) /\ StatusCurrent(t)

\* shared_types.go, DeletionPolicyOrphan: the provisioned resources are left in
\* place.  With only Orphan specs and no upsets, no namespace ever terminates.
OrphanKeepsNamespace ==
    \A n \in Namespaces : namespaces[n] # Nil => ~namespaces[n].terminating

\* Level-triggered convergence: once users and upsets stop, every Tenant is
\* either provisioned and reported as its spec says, or gone together with the
\* namespace it owned.
Converged(t) ==
    IF Live(t) THEN Provisioned(t, Kinds) /\ StatusCurrent(t)
    ELSE /\ tenants[t] = Nil
         /\ gauge[t] = "None"
         /\ \A n \in Namespaces : Controller(namespaces[n]) # t

EventuallyConverged == <>[](\A t \in Tenants : Converged(t))

-----------------------------------------------------------------------------
\* The inductive invariant behind FinalizerGuard, ProvisionsOnlyExisting,
\* TeardownSparesLiveTenants and NoLeakedSeries.  It says what a version of a
\* Tenant that somebody holds (the cache, the worker) still tells about the
\* Tenant in the API server.

NameOf(n, t) == \E s \in Specs : n = NamespaceName(t, s)

\* held is a version of Tenant t.  A version with the finalizer that is not
\* deleting is of a Tenant that still exists; deletion is never undone.
VersionOK(t, held) ==
    held # Nil =>
        /\ held.uid <= uids
        /\ held.status.namespace # Nil => NameOf(held.status.namespace, t)
        /\ held.finalizer /\ ~held.deleting =>
            tenants[t] # Nil /\ tenants[t].uid = held.uid /\ tenants[t].finalizer
        /\ held.deleting /\ tenants[t] # Nil /\ tenants[t].uid = held.uid =>
            tenants[t].deleting

VersionsOK ==
    /\ \A t \in Tenants : VersionOK(t, tenants[t]) /\ VersionOK(t, tcache[t])
    /\ pc # "idle" => VersionOK(req, base)

\* The cache is never behind the worker: it has seen the object the worker
\* holds, and sees it deleting once the worker does.  While a Tenant is being
\* finalized no namespace belongs to a successor of the same name.
WorkerOK ==
    /\ pc # "idle" /\ tenants[req] # Nil /\ tenants[req].uid = base.uid =>
        tcache[req] # Nil /\ tcache[req].uid = base.uid
    /\ pc \in ProvisionSteps => base.finalizer /\ ~base.deleting
    /\ pc \in FinalizeSteps =>
        /\ base.deleting
        /\ tcache[req] # Nil /\ tcache[req].uid = base.uid => tcache[req].deleting
        /\ \A n \in Namespaces : OwnsNamespace(req, n) => tenants[req].uid = base.uid

NamespacesOK ==
    \A n \in Namespaces :
        /\ nsnews[n] = {} => nscache[n] = namespaces[n]
        /\ namespaces[n] # Nil /\ namespaces[n].owner # Nil =>
            /\ namespaces[n].owner.uid <= uids
            /\ NameOf(n, namespaces[n].owner.name)
        /\ \A t \in Tenants : OwnsNamespace(t, n) =>
            tcache[t] # Nil /\ tcache[t].uid = tenants[t].uid

ChildrenOK ==
    \A n \in Namespaces, k \in Kinds :
        children[n][k] # Nil => children[n][k].owner.uid <= uids

\* A series is exported only for a Tenant somebody still has to look at.
SeriesOK ==
    \A t \in Tenants :
        tcache[t] = Nil /\ t \notin queue => req # t /\ gauge[t] = "None"

IndInv ==
    TypeOK /\ VersionsOK /\ WorkerOK /\ NamespacesOK /\ ChildrenOK
        /\ FinalizerGuard /\ SeriesOK

-----------------------------------------------------------------------------
\* The inductive invariant behind ReadyStatusIsCoherent and NoLostWakeup: what
\* a pass put in place still stands, or an event that wakes its Tenant is due.

\* Generations only grow, so a version that was overwritten never comes back:
\* if the worker's Tenant is the current one, the cache has no other.
GenerationsOK ==
    /\ \A t \in Tenants : tenants[t] # Nil =>
        /\ tenants[t].status.observedGeneration <= tenants[t].gen
        /\ tenants[t].deleting => tenants[t].finalizer
        /\ tcache[t] # Nil /\ tcache[t].uid = tenants[t].uid =>
            tcache[t].gen <= tenants[t].gen
    /\ pc # "idle" /\ tenants[req] # Nil /\ tenants[req].uid = base.uid =>
        base.gen <= tenants[req].gen
    /\ pc = "addFinalizer" => ~base.finalizer /\ ~base.deleting
    /\ pc \in ProvisionSteps \cup {"addFinalizer"} /\ tenants[req] = base =>
        tcache[req] = base

\* The events due for an object name the controller of the version cached, and
\* for a namespace that of the current one too.
NewsOK ==
    \A n \in Namespaces :
        /\ nsnews[n] # {} =>
            {Controller(nscache[n]), Controller(namespaces[n])} \subseteq nsnews[n]
        /\ \A k \in Kinds :
            IF knews[n][k] = {} THEN kcache[n][k] = children[n][k]
                                ELSE Controller(kcache[n][k]) \in knews[n][k]

\* The namespace and the objects of these kinds are what the Tenant asks for,
\* or an event that wakes t is due.
InPlace(t, tenant, kinds) ==
    LET n == NamespaceName(t, tenant.spec)
    IN  \/ t \in nsnews[n]
        \/ /\ namespaces[n] # Nil
           /\ namespaces[n].owner = OwnerRef(t, tenant)
           /\ \A k \in kinds :
                children[n][k] = DesiredChild(t, tenant, k) \/ t \in knews[n][k]

\* The watched kinds a pass has dealt with when it comes to step p.
DealtWith(p) == CASE p = "quota"  -> {}
                  [] p = "limits" -> {"quota"}
                  [] OTHER        -> WatchedKinds

PassOK ==
    pc \in Kinds \cup {"status"} =>
        /\ Controller(namespaces[TargetNamespace])
                \in {req, Nil} \cup nsnews[TargetNamespace] \cup queue
        /\ req \in queue \/ InPlace(req, base, DealtWith(pc))

QuietOK ==
    \A t \in Tenants :
        tenants[t] # Nil /\ tcache[t] = tenants[t] /\ t \notin queue /\ req # t
        => /\ Live(t)
           /\ InPlace(t, tenants[t], WatchedKinds)
           /\ tenants[t].status = ProvisionedStatus(t, tenants[t], icache[t])

WakeInv == GenerationsOK /\ NewsOK /\ PassOK /\ QuietOK /\ ReadyStatusIsCoherent
=============================================================================
