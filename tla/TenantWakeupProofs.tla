------------------------- MODULE TenantWakeupProofs -------------------------
(***************************************************************************)
(* Machine-checked proofs that the Tenant reconciler never sleeps on work  *)
(* left undone and never reports Ready what is not, for any tenants (ones  *)
(* that share a namespace name too), specs and upsets.                     *)
(***************************************************************************)
EXTENDS TenantProofs

-----------------------------------------------------------------------------
\* What any step but a restart does to an object, its cached version and the
\* events due for it: nothing, a write that adds to the events, or a catch-up
\* of the cache that delivers them.

NamespaceSignal(n) ==
    \/ UNCHANGED <<namespaces[n], nscache[n], nsnews[n]>>
    \/ /\ nscache'[n] = nscache[n]
       /\ nsnews'[n] = nsnews[n] \cup {Controller(namespaces[n]),
                                       Controller(namespaces'[n])}
    \/ /\ namespaces'[n] = namespaces[n] /\ nscache'[n] = namespaces[n]
       /\ nsnews'[n] = {} /\ nsnews[n] \ {Nil} \subseteq queue'

ChildSignal(n, k) ==
    \/ UNCHANGED <<children[n][k], kcache[n][k], knews[n][k]>>
    \/ /\ kcache'[n][k] = kcache[n][k]
       /\ knews'[n][k] = knews[n][k] \cup {Controller(children[n][k]),
                                           Controller(children'[n][k])}
       /\ \/ children'[n][k] = Nil
          \/ pc = k /\ pc' # pc /\ n = TargetNamespace
    \/ /\ children'[n][k] = children[n][k] /\ kcache'[n][k] = children[n][k]
       /\ knews'[n][k] = {}
       /\ Watched(k) => knews[n][k] \ {Nil} \subseteq queue'

Signals ==
    \A n \in Namespaces : NamespaceSignal(n) /\ \A k \in Kinds : ChildSignal(n, k)

\* The two kinds of write, and none, in those terms.
LEMMA WriteNamespaceSignals ==
    ASSUME TypeOK, NEW n \in Namespaces, NEW o,
           WriteNamespace(n, o), UNCHANGED <<nscache, kcache>>
    PROVE  Signals
<1>1. namespaces \in [Namespaces -> NamespaceObject \cup {Nil}]
        /\ nsnews \in [Namespaces -> SUBSET (Tenants \cup {Nil})]
      BY DEF TypeOK, ApiTypeOK, CacheTypeOK
<1>2. \A m \in Namespaces : NamespaceSignal(m)
      BY <1>1 DEF WriteNamespace, NamespaceSignal
<1>3. \A m \in Namespaces, k \in Kinds : ChildSignal(m, k)
      BY DEF WriteNamespace, ChildSignal
<1> QED BY <1>2, <1>3 DEF Signals

LEMMA WriteChildSignals ==
    ASSUME TypeOK, NEW n \in Namespaces, NEW k \in Kinds, NEW o,
           WriteChild(n, k, o), UNCHANGED <<nscache, kcache>>,
           o = Nil \/ (pc = k /\ pc' # pc /\ n = TargetNamespace)
    PROVE  Signals
<1>1. knews \in [Namespaces -> [Kinds -> SUBSET (Tenants \cup {Nil})]]
      BY DEF TypeOK, CacheTypeOK
<1>2. \A m \in Namespaces : NamespaceSignal(m)
      BY DEF WriteChild, NamespaceSignal
<1>3. \A m \in Namespaces, j \in Kinds :
        children'[m][j] = IF m = n /\ j = k THEN o ELSE children[m][j]
      BY WriteChildMove
<1>4. CASE o = children[n][k]
      BY <1>2, <1>3, <1>4 DEF WriteChild, ChildSignal, Signals
<1>5. CASE o # children[n][k]
  <2>1. \A m \in Namespaces, j \in Kinds :
            knews'[m][j] = IF m = n /\ j = k
                           THEN knews[n][k] \cup {Controller(children[n][k]), Controller(o)}
                           ELSE knews[m][j]
        BY <1>1, <1>5 DEF WriteChild
  <2>2. \A m \in Namespaces, j \in Kinds : ChildSignal(m, j)
    <3> SUFFICES ASSUME NEW m \in Namespaces, NEW j \in Kinds PROVE ChildSignal(m, j)
        OBVIOUS
    <3>1. CASE m = n /\ j = k
          BY <1>3, <2>1, <3>1 DEF ChildSignal
    <3>2. CASE ~(m = n /\ j = k)
          BY <1>3, <2>1, <3>2 DEF ChildSignal
    <3> QED BY <3>1, <3>2
  <2> QED BY <1>2, <2>2 DEF Signals
<1> QED BY <1>4, <1>5

LEMMA NoWriteSignals == NoWrite /\ UNCHANGED <<nscache, kcache>> => Signals
BY DEF NoWrite, news, Signals, NamespaceSignal, ChildSignal

\* Every step but a restart raises the events it should.
LEMMA SignalStep == TypeOK /\ [Next]_vars => Signals \/ Restart
<1> SUFFICES ASSUME TypeOK, [Next]_vars, ~Restart PROVE Signals
    OBVIOUS
<1>1. CASE Users \/ \E t \in Tenants : Reconcile(t) \/ Resync(t)
      BY <1>1, NoWriteSignals DEF Users, CreateTenant, UpdateTenant, DeleteTenant,
         ChangeInventory, Reconcile, Resync, NoWrite, api, caches, news
<1>2. ASSUME NEW up \in BOOLEAN, WorkerStep(up) PROVE Signals
  <2>1. UNCHANGED <<nscache, kcache>>
        BY <1>2 DEF WorkerStep, caches
  <2>2. CASE ReconcileNamespace(up)
    <3>1. TargetNamespace \in Namespaces
          BY <2>2, NamespaceNameType
          DEF ReconcileNamespace, TargetNamespace, TypeOK, WorkerTypeOK, TenantObject
    <3>2. NoWrite \/ \E o : WriteNamespace(TargetNamespace, o)
          BY <2>2 DEF ReconcileNamespace
    <3> QED BY <2>1, <3>1, <3>2, NoWriteSignals, WriteNamespaceSignals
  <2>3. ASSUME NEW k \in Kinds, ReconcileChild(k, up) PROVE Signals
    <3>1. TargetNamespace \in Namespaces
          BY <2>3, NamespaceNameType
          DEF ReconcileChild, TargetNamespace, TypeOK, WorkerTypeOK, TenantObject, Kinds
    <3>2. pc = k /\ pc' # pc
          BY <2>3 DEF ReconcileChild, StepAfter, Kinds
    <3>3. NoWrite \/ \E o : WriteChild(TargetNamespace, k, o)
          BY <2>3 DEF ReconcileChild
    <3> QED BY <2>1, <3>1, <3>2, <3>3, NoWriteSignals, WriteChildSignals
  <2>4. CASE Teardown(up)
    <3>1. pc = "teardown"
          BY <2>4 DEF Teardown
    <3>2. base.status.namespace \in Namespaces
          BY <3>1 DEF TypeOK, WorkerTypeOK, TenantObject, TenantStatus
    <3>3. NoWrite \/ \E o : WriteNamespace(base.status.namespace, o)
          BY <2>4 DEF Teardown, DeleteNamespace
    <3> QED BY <2>1, <3>2, <3>3, NoWriteSignals, WriteNamespaceSignals
  <2>5. CASE \/ AddFinalizer(up) \/ WriteStatus(up) \/ CountFails(up)
             \/ Fail(up) \/ Terminate(up) \/ Release(up)
    <3>1. NoWrite
          BY <2>5 DEF AddFinalizer, WriteStatus, CountFails, Fail, Terminate, Release,
             NoWrite, api
    <3> QED BY <2>1, <3>1, NoWriteSignals
  <2> QED BY <1>2, <2>2, <2>3, <2>4, <2>5 DEF WorkerStep
<1>3. CASE Informers
  <2>1. CASE \E t \in Tenants : CacheTenant(t) \/ CacheInventory(t)
        BY <2>1, NoWriteSignals DEF CacheTenant, CacheInventory, NoWrite, api, news
  <2>2. ASSUME NEW n \in Namespaces, CacheNamespace(n) PROVE Signals
    <3>1. nscache \in [Namespaces -> NamespaceObject \cup {Nil}]
            /\ nsnews \in [Namespaces -> SUBSET (Tenants \cup {Nil})]
          BY DEF TypeOK, CacheTypeOK
    <3>2. \A m \in Namespaces : NamespaceSignal(m)
          BY <2>2, <3>1 DEF CacheNamespace, NamespaceSignal, api
    <3>3. \A m \in Namespaces, k \in Kinds : ChildSignal(m, k)
          BY <2>2 DEF CacheNamespace, ChildSignal, api
    <3> QED BY <3>2, <3>3 DEF Signals
  <2>3. ASSUME NEW n \in Namespaces, NEW k \in Kinds, CacheChild(n, k) PROVE Signals
    <3>1. /\ kcache = [m \in Namespaces |-> [j \in Kinds |-> kcache[m][j]]]
          /\ knews \in [Namespaces -> [Kinds -> SUBSET (Tenants \cup {Nil})]]
          BY DEF TypeOK, CacheTypeOK, ChildTypeOK
    <3>2. \A m \in Namespaces, j \in Kinds :
            /\ kcache'[m][j] = IF m = n /\ j = k THEN children[m][j] ELSE kcache[m][j]
            /\ knews'[m][j] = IF m = n /\ j = k THEN {} ELSE knews[m][j]
          BY <2>3, <3>1 DEF CacheChild
    <3>3. \A m \in Namespaces : NamespaceSignal(m)
          BY <2>3 DEF CacheChild, NamespaceSignal, api
    <3>4. \A m \in Namespaces, j \in Kinds : ChildSignal(m, j)
          BY <2>3, <3>2 DEF CacheChild, ChildSignal, api
    <3> QED BY <3>3, <3>4 DEF Signals
  <2> QED BY <1>3, <2>1, <2>2, <2>3 DEF Informers
<1>4. CASE ClusterControllers
  <2>1. ASSUME NEW n \in Namespaces, CollectNamespace(n) \/ NamespaceGone(n)
        PROVE  Signals
        BY <2>1, WriteNamespaceSignals DEF CollectNamespace, NamespaceGone, caches
  <2>2. ASSUME NEW n \in Namespaces, NEW k \in Kinds, CollectChild(n, k) PROVE Signals
        BY <2>2, WriteChildSignals DEF CollectChild, caches
  <2> QED BY <1>4, <2>1, <2>2 DEF ClusterControllers
<1>5. CASE Upsets
  <2>1. ASSUME NEW n \in Namespaces, AdminCreatesNamespace(n) \/ AdminDeletesNamespace(n)
        PROVE  Signals
        BY <2>1, WriteNamespaceSignals
        DEF AdminCreatesNamespace, AdminDeletesNamespace, caches
  <2>2. ASSUME NEW n \in Namespaces, NEW k \in Kinds, AdminDeletesChild(n, k)
        PROVE  Signals
        BY <2>2, WriteChildSignals DEF AdminDeletesChild, caches
  <2> QED BY <1>5, <2>1, <2>2 DEF Upsets
<1>6. CASE UNCHANGED vars
      BY <1>6, NoWriteSignals DEF vars, NoWrite, api, caches, news
<1> QED BY <1>1, <1>2, <1>3, <1>4, <1>5, <1>6 DEF Next

\* Nobody is removed from the queue, and the worker stands still, in any step
\* that is neither a dequeue, a step of the worker nor a restart.
LEMMA Bystanders ==
    ASSUME [Next]_vars
    PROVE  \/ UNCHANGED worker /\ queue \subseteq queue'
           \/ \E t \in Tenants : Reconcile(t)
           \/ \E up \in BOOLEAN : WorkerStep(up)
           \/ Restart
<1>1. CASE Users
      BY <1>1 DEF Users, CreateTenant, UpdateTenant, DeleteTenant, ChangeInventory
<1>2. ASSUME NEW t \in Tenants, Resync(t) PROVE UNCHANGED worker /\ queue \subseteq queue'
      BY <1>2 DEF Resync
<1>3. CASE Informers
      BY <1>3 DEF Informers, CacheTenant, CacheInventory, CacheNamespace, CacheChild
<1>4. CASE ClusterControllers
      BY <1>4 DEF ClusterControllers, CollectNamespace, CollectChild, NamespaceGone
<1>5. CASE Upsets
      BY <1>5 DEF Upsets, AdminCreatesNamespace, AdminDeletesNamespace, AdminDeletesChild
<1>6. CASE UNCHANGED vars
      BY <1>6 DEF vars
<1> QED BY <1>1, <1>2, <1>3, <1>4, <1>5, <1>6 DEF Next

\* A step of the worker removes nobody from the queue.
LEMMA WorkerQueues ==
    ASSUME NEW up, WorkerStep(up)
    PROVE  queue \subseteq queue' /\ UNCHANGED <<tcache, nscache, kcache, icache, uids>>
BY DEF WorkerStep, AddFinalizer, ReconcileNamespace, ReconcileChild, WriteStatus,
       CountFails, Fail, Terminate, Teardown, Release, Return, Retry, Idle, caches

-----------------------------------------------------------------------------
\* The events due name the controllers they should.

LEMMA NewsStep == IndInv /\ NewsOK /\ [Next]_vars => NewsOK'
<1> SUFFICES ASSUME IndInv, NewsOK, [Next]_vars PROVE NewsOK'
    OBVIOUS
<1>1. CASE Restart
      BY <1>1 DEF Restart, NewsOK, api
<1>2. CASE Signals
  <2> SUFFICES ASSUME NEW n \in Namespaces
               PROVE  /\ nsnews'[n] # {} =>
                            {Controller(nscache'[n]), Controller(namespaces'[n])}
                                \subseteq nsnews'[n]
                      /\ \A k \in Kinds :
                            IF knews'[n][k] = {} THEN kcache'[n][k] = children'[n][k]
                            ELSE Controller(kcache'[n][k]) \in knews'[n][k]
      BY DEF NewsOK, Controller
  <2>1. nsnews[n] = {} => nscache[n] = namespaces[n]
        BY DEF IndInv, NamespacesOK
  <2>2. nsnews'[n] # {} => {Controller(nscache'[n]), Controller(namespaces'[n])}
                                \subseteq nsnews'[n]
        BY <1>2, <2>1 DEF NewsOK, Signals, NamespaceSignal
  <2>3. ASSUME NEW k \in Kinds
        PROVE  IF knews'[n][k] = {} THEN kcache'[n][k] = children'[n][k]
               ELSE Controller(kcache'[n][k]) \in knews'[n][k]
        BY <1>2 DEF NewsOK, Signals, ChildSignal
  <2> QED BY <2>2, <2>3
<1>3. TypeOK
      BY DEF IndInv
<1> QED BY <1>1, <1>2, <1>3, SignalStep

-----------------------------------------------------------------------------
\* What was put in place.

\* An object of t names t as its controller.
LEMMA ControllerOfOwned ==
    ASSUME NEW t \in Tenants, NEW o \in TenantObject, NEW x, x # Nil,
           x.owner = OwnerRef(t, o)
    PROVE  Controller(x) = t
<1>1. OwnerRef(t, o) \in Owner /\ OwnerRef(t, o).name = t
      BY DEF OwnerRef, Owner, TenantObject
<1> QED BY <1>1, NilAssumption DEF Controller

LEMMA DesiredChildOwner ==
    ASSUME NEW t \in Tenants, NEW o \in TenantObject, NEW k \in Kinds,
           DesiredChild(t, o, k) # Nil
    PROVE  Controller(DesiredChild(t, o, k)) = t
<1>1. DesiredChild(t, o, k).owner = OwnerRef(t, o)
      BY DEF DesiredChild
<1> QED BY <1>1, ControllerOfOwned

\* What is in place stays so, or t is woken, unless the worker applies one of
\* these kinds to the namespace.
LEMMA InPlaceKept ==
    ASSUME Signals, queue \subseteq queue', NEW t \in Tenants, NEW o \in TenantObject,
           NEW kinds \in SUBSET WatchedKinds, InPlace(t, o, kinds),
           \/ pc' = pc \/ pc \notin kinds \/ TargetNamespace # NamespaceName(t, o.spec)
           \/ t \in nsnews[NamespaceName(t, o.spec)]
    PROVE  InPlace(t, o, kinds)' \/ t \in queue'
<1> DEFINE n == NamespaceName(t, o.spec)
<1>1. n \in Namespaces
      BY NamespaceNameType DEF TenantObject
<1>2. NamespaceSignal(n) /\ \A k \in Kinds : ChildSignal(n, k)
      BY <1>1 DEF Signals
<1>3. t # Nil
      BY NilAssumption
<1>4. CASE t \in nsnews[n]
      BY <1>2, <1>3, <1>4 DEF NamespaceSignal, InPlace
<1>5. CASE t \notin nsnews[n] /\ t \notin nsnews'[n] /\ t \notin queue'
  <2>1. namespaces[n] # Nil /\ namespaces[n].owner = OwnerRef(t, o)
        BY <1>5 DEF InPlace
  <2>2. Controller(namespaces[n]) = t
        BY <2>1, ControllerOfOwned
  <2>3. namespaces'[n] = namespaces[n]
        BY <1>2, <1>5, <2>2 DEF NamespaceSignal
  <2>4. ASSUME NEW k \in kinds
        PROVE  children'[n][k] = DesiredChild(t, o, k) \/ t \in knews'[n][k]
    <3>1. k \in Kinds /\ Watched(k)
          BY DEF Watched, WatchedKinds, Kinds
    <3>2. ChildSignal(n, k)
          BY <1>2, <3>1
    <3>3. CASE t \in knews[n][k]
          BY <1>3, <1>5, <3>1, <3>2, <3>3 DEF ChildSignal
    <3>4. CASE children[n][k] = DesiredChild(t, o, k)
      <4>1. ~(pc = k /\ pc' # pc /\ n = TargetNamespace)
            BY <1>5
      <4>2. CASE DesiredChild(t, o, k) = Nil
            BY <3>2, <3>4, <4>1, <4>2 DEF ChildSignal
      <4>3. CASE DesiredChild(t, o, k) # Nil
        <5>1. Controller(children[n][k]) = t
              BY <3>1, <3>4, <4>3, DesiredChildOwner
        <5> QED BY <3>2, <3>4, <5>1 DEF ChildSignal
      <4> QED BY <4>2, <4>3
    <3> QED BY <1>5, <3>3, <3>4 DEF InPlace
  <2> QED BY <2>1, <2>3, <2>4 DEF InPlace
<1> QED BY <1>4, <1>5 DEF InPlace

-----------------------------------------------------------------------------
\* Generations and the statuses that name them.

\* What an edit of a Tenant changes and keeps.
LEMMA EditFacts ==
    ASSUME NEW o \in TenantObject, NEW s \in Specs, NEW st \in TenantStatus
    PROVE  /\ LET x == WithSpec(o, s)
              IN  /\ x.uid = o.uid /\ x.gen = o.gen + 1 /\ x.status = o.status
                  /\ x.deleting = o.deleting /\ x.finalizer = o.finalizer
           /\ LET x == MarkDeleting(o)
              IN  /\ x.uid = o.uid /\ x.gen = o.gen + 1 /\ x.status = o.status
                  /\ x.deleting /\ x.finalizer = o.finalizer
           /\ LET x == WithFinalizer(o)
              IN  /\ x.uid = o.uid /\ x.gen = o.gen /\ x.status = o.status
                  /\ x.deleting = o.deleting /\ x.finalizer /\ x.spec = o.spec
           /\ LET x == WithStatus(o, st)
              IN  /\ x.uid = o.uid /\ x.gen = o.gen /\ x.status = st
                  /\ x.deleting = o.deleting /\ x.finalizer = o.finalizer
                  /\ x.spec = o.spec
BY DEF WithSpec, MarkDeleting, WithFinalizer, WithStatus, TenantObject

\* What a status says of a Tenant that is Ready at the generation it names.
Coherent(tenant) ==
    IsTrue(tenant.status.conditions, "Ready")
        /\ tenant.status.observedGeneration = tenant.gen
    => /\ ~tenant.deleting /\ ~tenant.spec.suspended
       /\ tenant.status.phase = "Active"
       /\ tenant.status.conditions["Degraded"] = "Absent"
       /\ tenant.status.conditions["Progressing"] = "False"

\* The three reports name no later generation, and only a complete pass over a
\* Tenant that is neither deleting nor suspended says Ready.
LEMMA ReportFacts ==
    ASSUME NEW t \in Tenants, NEW o \in TenantObject, NEW c \in Nat,
           o.status.observedGeneration <= o.gen
    PROVE  /\ LET x == WithStatus(o, ProvisionedStatus(t, o, c))
              IN  /\ x.status.observedGeneration <= x.gen
                  /\ ~o.deleting => Coherent(x)
           /\ LET x == WithStatus(o, FailedStatus(t, o))
              IN  x.status.observedGeneration <= x.gen /\ Coherent(x)
           /\ LET x == WithStatus(o, TerminatingStatus(o))
              IN  x.status.observedGeneration <= x.gen /\ Coherent(x)
<1> DEFINE P == ProvisionedStatus(t, o, c)
           F == FailedStatus(t, o)
           T == TerminatingStatus(o)
<1>1. P \in TenantStatus /\ F \in TenantStatus /\ T \in TenantStatus
      BY StatusTypes
<1>2. o.status \in TenantStatus /\ o.gen \in Nat /\ o.spec \in Specs
      BY DEF TenantObject
<1>3. o.status.conditions \in [ConditionTypes -> ConditionStatus]
      BY <1>2 DEF TenantStatus
<1>4. /\ P.observedGeneration = o.gen
      /\ P.phase = IF o.spec.suspended THEN "Suspended" ELSE "Active"
      /\ P.conditions["Ready"] = IF o.spec.suspended THEN "False" ELSE "True"
      /\ P.conditions["Degraded"] = "Absent"
      /\ P.conditions["Progressing"] = "False"
      BY <1>3 DEF ProvisionedStatus, MarkTrue, MarkFalse, Remove, ConditionTypes
<1>5. F.observedGeneration = o.gen /\ F.conditions["Ready"] = "False"
      BY <1>2, <1>3 DEF FailedStatus, MarkTrue, MarkFalse, ConditionTypes, TenantStatus
<1>6. /\ T.observedGeneration = o.status.observedGeneration
      /\ T.conditions["Ready"] = "False"
      BY <1>2, <1>3 DEF TerminatingStatus, MarkFalse, ConditionTypes, TenantStatus
<1> HIDE DEF P, F, T
<1>7. /\ WithStatus(o, P).status = P /\ WithStatus(o, P).gen = o.gen
      /\ WithStatus(o, P).spec = o.spec /\ WithStatus(o, P).deleting = o.deleting
      /\ WithStatus(o, F).status = F /\ WithStatus(o, F).gen = o.gen
      /\ WithStatus(o, T).status = T /\ WithStatus(o, T).gen = o.gen
      BY <1>1, EditFacts DEF WithStatus, TenantObject
<1>8. /\ WithStatus(o, P).status.observedGeneration <= WithStatus(o, P).gen
      /\ ~o.deleting => Coherent(WithStatus(o, P))
      BY <1>2, <1>4, <1>7 DEF Coherent, IsTrue
<1>9. /\ WithStatus(o, F).status.observedGeneration <= WithStatus(o, F).gen
      /\ Coherent(WithStatus(o, F))
      BY <1>2, <1>5, <1>7 DEF Coherent, IsTrue
<1>10. /\ WithStatus(o, T).status.observedGeneration <= WithStatus(o, T).gen
       /\ Coherent(WithStatus(o, T))
      BY <1>2, <1>6, <1>7 DEF Coherent, IsTrue
<1> QED BY <1>8, <1>9, <1>10 DEF P, F, T

\* How users change a Tenant: gone, new, or the same at the next generation.
UserEdit(t) ==
    \/ tenants'[t] = Nil
    \/ /\ tenants[t] = Nil /\ tenants'[t] # Nil
       /\ tenants'[t].uid = uids + 1 /\ tenants'[t].gen = 1
       /\ ~tenants'[t].deleting /\ tenants'[t].status = NewStatus
    \/ /\ tenants[t] # Nil /\ tenants'[t] # Nil
       /\ tenants'[t].uid = tenants[t].uid
       /\ tenants'[t].gen = tenants[t].gen + 1
       /\ tenants'[t].status = tenants[t].status
       /\ tenants'[t].finalizer = tenants[t].finalizer
       /\ tenants'[t].deleting => tenants[t].deleting \/ tenants[t].finalizer

LEMMA UserEdits ==
    ASSUME TypeOK, Users
    PROVE  /\ UNCHANGED <<tcache, icache, worker, queue, namespaces, children, news>>
           /\ \A t \in Tenants : tenants'[t] = tenants[t] \/ UserEdit(t)
<1>1. tenants \in [Tenants -> TenantObject \cup {Nil}]
      BY DEF TypeOK, ApiTypeOK
<1>2. UNCHANGED <<tcache, icache, worker, queue, namespaces, children, news>>
      BY DEF Users, CreateTenant, UpdateTenant, DeleteTenant, ChangeInventory, caches
<1>3. ASSUME NEW t \in Tenants, NEW s \in Specs, CreateTenant(t, s)
      PROVE  \A u \in Tenants : tenants'[u] = tenants[u] \/ UserEdit(u)
  <2>1. uids + 1 \in Nat
        BY DEF TypeOK
  <2>2. NewTenant(s, uids + 1) # Nil
        BY <2>1, NewTenantType, NilAssumption
  <2> QED BY <1>1, <1>3, <2>2 DEF CreateTenant, UserEdit, NewTenant
<1>4. ASSUME NEW t \in Tenants, NEW s \in Specs, UpdateTenant(t, s)
      PROVE  \A u \in Tenants : tenants'[u] = tenants[u] \/ UserEdit(u)
  <2>1. tenants[t] \in TenantObject
        BY <1>1, <1>4 DEF UpdateTenant
  <2>2. PICK x : x = WithSpec(tenants[t], s)
        OBVIOUS
  <2>3. /\ x # Nil /\ x.uid = tenants[t].uid /\ x.gen = tenants[t].gen + 1
        /\ x.status = tenants[t].status /\ x.finalizer = tenants[t].finalizer
        /\ x.deleting = tenants[t].deleting
    <3>1. tenants[t].status \in TenantStatus
          BY <2>1 DEF TenantObject
    <3> QED BY <2>1, <2>2, <3>1, EditTypes, EditFacts, NilAssumption
  <2>4. tenants' = [tenants EXCEPT ![t] = x]
        BY <1>4, <2>2 DEF UpdateTenant
  <2>5. tenants[t] # Nil
        BY <1>4 DEF UpdateTenant
  <2> QED BY <1>1, <2>3, <2>4, <2>5 DEF UserEdit
<1>5. ASSUME NEW t \in Tenants, DeleteTenant(t)
      PROVE  \A u \in Tenants : tenants'[u] = tenants[u] \/ UserEdit(u)
  <2>1. tenants[t] \in TenantObject /\ tenants[t] # Nil
        BY <1>1, <1>5 DEF DeleteTenant
  <2>2. PICK x : x = MarkDeleting(tenants[t])
        OBVIOUS
  <2>3. /\ x # Nil /\ x.uid = tenants[t].uid /\ x.gen = tenants[t].gen + 1
        /\ x.status = tenants[t].status /\ x.finalizer = tenants[t].finalizer
    <3>1. tenants[t].status \in TenantStatus /\ tenants[t].spec \in Specs
          BY <2>1 DEF TenantObject
    <3> QED BY <2>1, <2>2, <3>1, EditTypes, EditFacts, NilAssumption
  <2>4. tenants' = [tenants EXCEPT ![t] = IF tenants[t].finalizer THEN x ELSE Nil]
        BY <1>5, <2>2 DEF DeleteTenant
  <2> QED BY <1>1, <2>1, <2>3, <2>4 DEF UserEdit
<1>6. ASSUME NEW t \in Tenants, NEW c, ChangeInventory(t, c)
      PROVE  \A u \in Tenants : tenants'[u] = tenants[u] \/ UserEdit(u)
      BY <1>6 DEF ChangeInventory
<1> QED BY <1>2, <1>3, <1>4, <1>5, <1>6 DEF Users

\* How the worker changes the Tenant it holds, and where it goes then.
Reports(x) ==
    \/ /\ pc = "addFinalizer" /\ x = WithFinalizer(base)
       /\ pc' = "idle" /\ req' = Nil
    \/ /\ pc = "status" /\ x = WithStatus(base, ProvisionedStatus(req, base, icache[req]))
       /\ pc' = "idle" /\ req' = Nil
    \/ /\ pc = "fail" /\ x = WithStatus(base, FailedStatus(req, base))
       /\ pc' = "idle" /\ req' = Nil /\ req \in queue'
    \/ /\ pc = "terminate" /\ x = WithStatus(base, TerminatingStatus(base))
       /\ pc' \in {"teardown", "release"} /\ req' = req /\ base' = x
    \/ /\ pc = "release" /\ x = Nil
       /\ pc' = "idle" /\ req' = Nil

\* Where it goes when it leaves the Tenant alone.
GoesOn ==
    \/ pc' = "idle" /\ req' = Nil /\ req \in queue'
    \/ /\ UNCHANGED <<req, base>> /\ pc' # "addFinalizer"
       /\ pc' \in ProvisionSteps => pc \in ProvisionSteps
       /\ pc' \in Kinds \cup {"status"} => pc \in Kinds \cup {"namespace"}

LEMMA WorkerReports ==
    ASSUME NEW up \in BOOLEAN, WorkerStep(up)
    PROVE  \/ tenants' = tenants /\ GoesOn
           \/ /\ tenants[req] = base
              /\ \E x : Reports(x) /\ tenants' = [tenants EXCEPT ![req] = x]
<1> DEFINE Goal == \/ tenants' = tenants /\ GoesOn
                   \/ /\ tenants[req] = base
                      /\ \E x : Reports(x) /\ tenants' = [tenants EXCEPT ![req] = x]
<1>1. CASE AddFinalizer(up)
      BY <1>1 DEF AddFinalizer, Return, Retry, Idle, Fresh, GoesOn, Reports
<1>2. CASE ReconcileNamespace(up)
      BY <1>2 DEF ReconcileNamespace, GoesOn, ProvisionSteps, Kinds
<1>3. ASSUME NEW k \in Kinds, ReconcileChild(k, up) PROVE Goal
      BY <1>3 DEF ReconcileChild, GoesOn, ProvisionSteps, Kinds, StepAfter
<1>4. CASE WriteStatus(up)
      BY <1>4 DEF WriteStatus, Return, Retry, Idle, Fresh, GoesOn, Reports
<1>5. CASE CountFails(up)
      BY <1>5 DEF CountFails, GoesOn, ProvisionSteps, Kinds, api
<1>6. CASE Fail(up)
      BY <1>6 DEF Fail, Retry, Idle, Fresh, GoesOn, Reports
<1>7. CASE Terminate(up)
      BY <1>7 DEF Terminate, Fresh, GoesOn, Reports, ProvisionSteps, Kinds
<1>8. CASE Teardown(up)
      BY <1>8 DEF Teardown, Retry, Idle, GoesOn, ProvisionSteps, Kinds
<1>9. CASE Release(up)
      BY <1>9 DEF Release, Return, Retry, Idle, Fresh, GoesOn, Reports
<1> QED BY <1>1, <1>2, <1>3, <1>4, <1>5, <1>6, <1>7, <1>8, <1>9 DEF WorkerStep

\* Nobody else writes Tenants.
LEMMA OnlyWriters ==
    ASSUME [Next]_vars
    PROVE  tenants' = tenants \/ Users \/ \E up \in BOOLEAN : WorkerStep(up)
<1>1. CASE \E t \in Tenants : Reconcile(t) \/ Resync(t)
      BY <1>1 DEF Reconcile, Resync, api
<1>2. CASE Informers
      BY <1>2 DEF Informers, CacheTenant, CacheInventory, CacheNamespace, CacheChild, api
<1>3. CASE ClusterControllers
      BY <1>3 DEF ClusterControllers, CollectNamespace, CollectChild, NamespaceGone
<1>4. CASE Upsets
      BY <1>4 DEF Upsets, AdminCreatesNamespace, AdminDeletesNamespace, AdminDeletesChild,
         Restart, api
<1>5. CASE UNCHANGED vars
      BY <1>5 DEF vars, api
<1> QED BY <1>1, <1>2, <1>3, <1>4, <1>5 DEF Next

\* A stored Tenant: its status names no later generation, deletion needs the
\* finalizer, and a Ready status is coherent.
Sound(tenant) ==
    /\ tenant.status.observedGeneration <= tenant.gen
    /\ tenant.deleting => tenant.finalizer
    /\ Coherent(tenant)

LEMMA SoundStep ==
    ASSUME IndInv, [Next]_vars, \A t \in Tenants : tenants[t] # Nil => Sound(tenants[t])
    PROVE  \A t \in Tenants : tenants'[t] # Nil => Sound(tenants'[t])
<1> SUFFICES ASSUME NEW t \in Tenants, tenants'[t] # Nil, tenants'[t] # tenants[t]
             PROVE  Sound(tenants'[t])
    OBVIOUS
<1>1. TypeOK /\ tenants \in [Tenants -> TenantObject \cup {Nil}]
      BY DEF IndInv, TypeOK, ApiTypeOK
<1>2. CASE Users
  <2>1. UserEdit(t)
        BY <1>1, <1>2, UserEdits
  <2>2. CASE tenants[t] = Nil
    <3>1. /\ tenants'[t].gen = 1 /\ ~tenants'[t].deleting
          /\ tenants'[t].status = NewStatus
          BY <2>1, <2>2 DEF UserEdit
    <3>2. NewStatus.observedGeneration = 0 /\ NewStatus.conditions["Ready"] = "Absent"
          BY DEF NewStatus, ConditionTypes
    <3> QED BY <3>1, <3>2 DEF Sound, Coherent, IsTrue
  <2>3. CASE tenants[t] # Nil
    <3>1. Sound(tenants[t]) /\ tenants[t] \in TenantObject
          BY <1>1, <2>3
    <3>2. /\ tenants[t].gen \in Nat /\ tenants[t].status.observedGeneration \in Nat
          /\ tenants[t].status.observedGeneration <= tenants[t].gen
          BY <3>1 DEF Sound, TenantObject, TenantStatus
    <3>3. /\ tenants'[t].gen = tenants[t].gen + 1
          /\ tenants'[t].status = tenants[t].status
          /\ tenants'[t].finalizer = tenants[t].finalizer
          /\ tenants'[t].deleting => tenants[t].deleting \/ tenants[t].finalizer
          BY <2>1, <2>3 DEF UserEdit
    <3>4. tenants'[t].status.observedGeneration < tenants'[t].gen
          BY <3>2, <3>3
    <3>5. tenants'[t].deleting => tenants'[t].finalizer
          BY <3>1, <3>3 DEF Sound
    <3>6. /\ tenants'[t].status.observedGeneration <= tenants'[t].gen
          /\ tenants'[t].status.observedGeneration # tenants'[t].gen
          BY <3>2, <3>3
    <3> QED BY <3>5, <3>6 DEF Sound, Coherent
  <2> QED BY <2>2, <2>3
<1>3. ASSUME NEW up \in BOOLEAN, WorkerStep(up) PROVE Sound(tenants'[t])
  <2>1. PICK x : /\ tenants[req] = base /\ Reports(x)
                 /\ tenants' = [tenants EXCEPT ![req] = x]
        BY <1>3, WorkerReports
  <2>2. t = req /\ tenants'[t] = x
        BY <1>1, <2>1
  <2>3. pc # "idle" /\ base \in TenantObject /\ base # Nil
        BY <1>1, <2>1, NilAssumption DEF Reports, TypeOK, WorkerTypeOK
  <2>4. Sound(base)
        BY <2>1, <2>2, <2>3
  <2>5. icache[req] \in Nat
        BY <1>1, <2>2 DEF TypeOK, CacheTypeOK
  <2>6. base.status.observedGeneration <= base.gen
        BY <2>4 DEF Sound
  <2>7. PICK c \in Nat : c = icache[req]
        BY <2>5
  <2>8. PICK o \in TenantObject : o = base
        BY <2>3
  <2>9. /\ o.status \in TenantStatus /\ o.spec \in Specs
        /\ ProvisionedStatus(t, o, c) \in TenantStatus
        /\ FailedStatus(t, o) \in TenantStatus
        /\ TerminatingStatus(o) \in TenantStatus
        BY StatusTypes DEF TenantObject
  <2>10. ASSUME NEW st \in TenantStatus
         PROVE  WithStatus(o, st).deleting => WithStatus(o, st).finalizer
         BY <2>4, <2>8, <2>9, EditFacts DEF Sound
  <2>11. CASE pc = "addFinalizer"
    <3>1. x = WithFinalizer(o)
          BY <2>1, <2>8, <2>11 DEF Reports
    <3>2. /\ x.gen = o.gen /\ x.status = o.status /\ x.spec = o.spec
          /\ x.deleting = o.deleting /\ x.finalizer
          BY <2>9, <3>1, EditFacts
    <3> QED BY <2>2, <2>4, <2>8, <3>2 DEF Sound, Coherent
  <2>12. CASE pc = "status"
    <3>1. x = WithStatus(o, ProvisionedStatus(t, o, c))
          BY <2>1, <2>2, <2>7, <2>8, <2>12 DEF Reports
    <3>2. ~o.deleting
          BY <2>8, <2>12 DEF IndInv, WorkerOK, ProvisionSteps
    <3>3. x.status.observedGeneration <= x.gen /\ Coherent(x)
          BY <2>6, <2>8, <3>1, <3>2, ReportFacts
    <3> QED BY <2>2, <2>9, <2>10, <3>1, <3>3 DEF Sound
  <2>13. CASE pc = "fail"
    <3>1. x = WithStatus(o, FailedStatus(t, o))
          BY <2>1, <2>2, <2>8, <2>13 DEF Reports
    <3>2. x.status.observedGeneration <= x.gen /\ Coherent(x)
          BY <2>6, <2>8, <3>1, ReportFacts
    <3> QED BY <2>2, <2>9, <2>10, <3>1, <3>2 DEF Sound
  <2>14. CASE pc = "terminate"
    <3>1. x = WithStatus(o, TerminatingStatus(o))
          BY <2>1, <2>2, <2>8, <2>14 DEF Reports
    <3>2. x.status.observedGeneration <= x.gen /\ Coherent(x)
          BY <2>6, <2>8, <3>1, ReportFacts
    <3> QED BY <2>2, <2>9, <2>10, <3>1, <3>2 DEF Sound
  <2> QED BY <2>1, <2>2, <2>11, <2>12, <2>13, <2>14 DEF Reports
<1> QED BY <1>2, <1>3, OnlyWriters

\* A version held of a Tenant, by the cache or the worker, is never younger than
\* the Tenant, and never again the current one once a user changed it.
NotYounger(t, held) ==
    tenants[t] # Nil /\ held # Nil /\ tenants[t].uid = held.uid
        => held.gen <= tenants[t].gen

LEMMA UserOvertakes ==
    ASSUME TypeOK, Users, NEW t \in Tenants, NEW held \in TenantObject,
           held.uid <= uids, NotYounger(t, held)
    PROVE  NotYounger(t, held)' /\ (tenants'[t] = held => tenants'[t] = tenants[t])
<1>1. CASE tenants'[t] = tenants[t]
      BY <1>1 DEF NotYounger
<1>2. CASE UserEdit(t)
  <2>1. held.uid \in Nat /\ held.gen \in Nat /\ uids \in Nat /\ held # Nil
        BY NilAssumption DEF TenantObject, TypeOK
  <2>2. tenants[t] # Nil => tenants[t].gen \in Nat
        BY DEF TypeOK, ApiTypeOK, TenantObject
  <2>3. CASE tenants'[t] = Nil
        BY <2>1, <2>3 DEF NotYounger
  <2>4. CASE tenants[t] = Nil /\ tenants'[t] # Nil
    <3>1. tenants'[t].uid = uids + 1
          BY <1>2, <2>4 DEF UserEdit
    <3>2. tenants'[t].uid # held.uid
          BY <2>1, <3>1
    <3> QED BY <3>2 DEF NotYounger
  <2>5. CASE tenants[t] # Nil /\ tenants'[t] # Nil
    <3>1. tenants'[t].uid = tenants[t].uid /\ tenants'[t].gen = tenants[t].gen + 1
          BY <1>2, <2>5 DEF UserEdit
    <3>2. tenants'[t].uid = held.uid => held.gen <= tenants[t].gen
          BY <2>1, <2>5, <3>1 DEF NotYounger
    <3>3. tenants'[t].uid = held.uid =>
            held.gen <= tenants'[t].gen /\ held.gen # tenants'[t].gen
          BY <2>1, <2>2, <2>5, <3>1, <3>2
    <3> QED BY <3>3 DEF NotYounger
  <2> QED BY <2>3, <2>4, <2>5
<1> QED BY <1>1, <1>2, UserEdits

LEMMA NotYoungerStep ==
    ASSUME TypeOK, TypeOK', [Next]_vars, NEW t \in Tenants, NEW held \in TenantObject,
           held.uid <= uids, NotYounger(t, held)
    PROVE  NotYounger(t, held)'
<1>1. CASE tenants'[t] = tenants[t]
      BY <1>1 DEF NotYounger
<1>2. CASE Users
      BY <1>2, UserOvertakes
<1>3. ASSUME NEW up \in BOOLEAN, WorkerStep(up), tenants'[t] # tenants[t]
      PROVE  NotYounger(t, held)'
  <2>1. PICK x : /\ tenants[req] = base /\ Reports(x)
                 /\ tenants' = [tenants EXCEPT ![req] = x]
        BY <1>3, WorkerReports
  <2>2. t = req /\ tenants'[t] = x
        BY <1>3, <2>1 DEF TypeOK, ApiTypeOK
  <2>3. CASE x = Nil
        BY <2>2, <2>3 DEF NotYounger
  <2>4. CASE x # Nil
    <3>1. base \in TenantObject /\ base # Nil
          BY <2>1, NilAssumption DEF Reports, TypeOK, WorkerTypeOK
    <3>2. \E st : x = WithStatus(base, st) \/ x = WithFinalizer(base)
          BY <2>1, <2>4 DEF Reports
    <3>3. x.uid = base.uid /\ x.gen = base.gen
          BY <3>1, <3>2 DEF WithStatus, WithFinalizer, TenantObject
    <3> QED BY <2>1, <2>2, <3>1, <3>3 DEF NotYounger
  <2> QED BY <2>3, <2>4
<1> QED BY <1>1, <1>2, <1>3, OnlyWriters

LEMMA GenerationsStep ==
    IndInv /\ GenerationsOK /\ ReadyStatusIsCoherent /\ [Next]_vars
        => GenerationsOK' /\ ReadyStatusIsCoherent'
<1> SUFFICES ASSUME IndInv, GenerationsOK, ReadyStatusIsCoherent, [Next]_vars
             PROVE  GenerationsOK' /\ ReadyStatusIsCoherent'
    OBVIOUS
<1>1. TypeOK /\ TypeOK' /\ IndInv' /\ Moves
      BY TypeStep, IndStep, StepMoves DEF IndInv
<1>2. \A t \in Tenants : tenants[t] # Nil => Sound(tenants[t])
      BY DEF GenerationsOK, ReadyStatusIsCoherent, Sound, Coherent, Live
<1>3. \A t \in Tenants : tenants'[t] # Nil => Sound(tenants'[t])
      BY <1>2, SoundStep
<1>4. ReadyStatusIsCoherent'
      BY <1>3 DEF ReadyStatusIsCoherent, Sound, Coherent, Live
<1>5. ASSUME NEW t \in Tenants, tenants'[t] # Nil, tcache'[t] # Nil,
             tcache'[t].uid = tenants'[t].uid
      PROVE  tcache'[t].gen <= tenants'[t].gen
  <2>1. CASE tcache'[t] = tenants[t] /\ tenants' = tenants
    <3>1. tenants[t] \in TenantObject
          BY <1>1, <1>5, <2>1 DEF TypeOK, ApiTypeOK
    <3> QED BY <2>1, <3>1 DEF TenantObject
  <2>2. CASE tcache'[t] = tcache[t]
    <3>1. PICK held \in TenantObject : held = tcache[t]
          BY <1>1, <1>5, <2>2 DEF TypeOK, CacheTypeOK
    <3>2. held.uid <= uids
          BY <1>5, <2>2, <3>1 DEF IndInv, VersionsOK, VersionOK
    <3>3. NotYounger(t, held)
          BY <3>1 DEF GenerationsOK, NotYounger
    <3>4. NotYounger(t, held)'
          BY <1>1, <3>2, <3>3, NotYoungerStep
    <3> QED BY <1>5, <2>2, <3>1, <3>4 DEF NotYounger
  <2> QED BY <1>1, <2>1, <2>2 DEF Moves, CacheMove
<1>6. CASE Restart
  <2>1. pc' = "idle"
        BY <1>6 DEF Restart, Idle
  <2> QED BY <1>3, <1>4, <1>5, <2>1 DEF GenerationsOK, Sound, ProvisionSteps, Kinds
<1>7. CASE \E t \in Tenants : Reconcile(t)
  <2>1. PICK t \in Tenants : Reconcile(t)
        BY <1>7
  <2>2. UNCHANGED <<tenants, tcache>>
        BY <2>1 DEF Reconcile, api, caches
  <2>3. pc' = "idle" \/ (/\ tcache[t] # Nil /\ req' = t /\ base' = tcache[t]
                         /\ pc' = FirstStep(tcache[t]))
        BY <2>1 DEF Reconcile, worker
  <2>4. pc' = "addFinalizer" => ~base'.finalizer /\ ~base'.deleting
        BY <2>3 DEF FirstStep
  <2>5. pc' # "idle" /\ tenants'[req'] # Nil /\ tenants'[req'].uid = base'.uid =>
            base'.gen <= tenants'[req'].gen
        BY <2>2, <2>3 DEF GenerationsOK
  <2>6. pc' \in ProvisionSteps \cup {"addFinalizer"} => tcache'[req'] = base'
        BY <2>2, <2>3 DEF ProvisionSteps, Kinds
  <2> QED BY <1>3, <1>4, <1>5, <2>4, <2>5, <2>6 DEF GenerationsOK, Sound
<1>8. ASSUME NEW up \in BOOLEAN, WorkerStep(up)
      PROVE  GenerationsOK' /\ ReadyStatusIsCoherent'
  <2>1. tcache' = tcache
        BY <1>8, WorkerQueues
  <2>2. CASE tenants' = tenants /\ GoesOn
    <3>1. CASE pc' = "idle"
          BY <1>3, <1>4, <1>5, <3>1 DEF GenerationsOK, Sound, ProvisionSteps, Kinds
    <3>2. CASE pc' # "idle"
      <4>1. /\ UNCHANGED <<tenants, tcache, req, base>> /\ pc' # "addFinalizer"
            /\ pc' \in ProvisionSteps => pc \in ProvisionSteps
            BY <2>1, <2>2, <3>2 DEF GoesOn
      <4>2. pc # "idle"
            BY <1>8 DEF WorkerStep, AddFinalizer, ReconcileNamespace, ReconcileChild, Kinds,
               WriteStatus, CountFails, Fail, Terminate, Teardown, Release
      <4> QED BY <1>3, <1>4, <1>5, <4>1, <4>2 DEF GenerationsOK, Sound
    <3> QED BY <3>1, <3>2
  <2>3. CASE \E x : Reports(x) /\ tenants' = [tenants EXCEPT ![req] = x]
    <3>1. PICK x : Reports(x) /\ tenants' = [tenants EXCEPT ![req] = x]
          BY <2>3
    <3>2. CASE pc' = "idle"
          BY <1>3, <1>4, <1>5, <3>2 DEF GenerationsOK, Sound, ProvisionSteps, Kinds
    <3>3. CASE pc' # "idle"
      <4>1. pc = "terminate" /\ pc' \in {"teardown", "release"} /\ req' = req /\ base' = x
            BY <3>1, <3>3 DEF Reports
      <4>2. req \in Tenants
            BY <1>1, <4>1 DEF TypeOK, WorkerTypeOK
      <4>3. tenants'[req'] = base'
            BY <1>1, <3>1, <4>1, <4>2 DEF TypeOK, ApiTypeOK
      <4>4. base' # Nil => base'.gen \in Nat
            BY <1>1, <4>2, <4>1, <4>3 DEF TypeOK, ApiTypeOK, TenantObject
      <4> QED BY <1>3, <1>4, <1>5, <4>1, <4>3, <4>4
              DEF GenerationsOK, Sound, ProvisionSteps, Kinds
    <3> QED BY <3>2, <3>3
  <2> QED BY <1>8, <2>2, <2>3, WorkerReports
<1>9. CASE UNCHANGED worker /\ ~\E up \in BOOLEAN : WorkerStep(up)
  <2>1. UNCHANGED <<pc, req, base>>
        BY <1>9 DEF worker
  <2>2. CASE pc = "idle"
        BY <1>3, <1>4, <1>5, <2>1, <2>2 DEF GenerationsOK, Sound, ProvisionSteps, Kinds
  <2>3. CASE pc # "idle"
    <3>1. req \in Tenants /\ base \in TenantObject /\ base # Nil
          BY <1>1, <2>3, NilAssumption DEF TypeOK, WorkerTypeOK
    <3>2. PICK held \in TenantObject : held = base
          BY <3>1
    <3>3. PICK t \in Tenants : t = req
          BY <3>1
    <3>4. held.uid <= uids /\ held # Nil
          BY <2>3, <3>1, <3>2 DEF IndInv, VersionsOK, VersionOK
    <3>5. NotYounger(t, held)
          BY <2>3, <3>2, <3>3 DEF GenerationsOK, NotYounger
    <3>6. NotYounger(t, held)'
          BY <1>1, <3>4, <3>5, NotYoungerStep
    <3>7. tenants'[req'] # Nil /\ tenants'[req'].uid = base'.uid =>
            base'.gen <= tenants'[req'].gen
          BY <2>1, <3>2, <3>3, <3>4, <3>6 DEF NotYounger
    <3>8. ASSUME pc \in ProvisionSteps \cup {"addFinalizer"}, tenants'[t] = held
          PROVE  tcache'[t] = held
      <4>1. \/ tcache'[t] = tcache[t]
            \/ tcache'[t] = tenants[t] /\ tenants' = tenants
            BY <1>1 DEF Moves, CacheMove
      <4>2. tenants'[t] = tenants[t]
        <5>1. CASE Users
              BY <1>1, <3>4, <3>5, <3>8, <5>1, UserOvertakes
        <5> QED BY <1>9, <5>1, OnlyWriters
      <4> QED BY <3>2, <3>3, <3>8, <4>1, <4>2 DEF GenerationsOK
    <3> QED BY <1>3, <1>4, <1>5, <2>1, <3>2, <3>3, <3>7, <3>8 DEF GenerationsOK, Sound
  <2> QED BY <2>2, <2>3
<1> QED BY <1>6, <1>7, <1>8, <1>9, Bystanders

-----------------------------------------------------------------------------
\* A pass.

\* A managed object that was applied is the desired one, or it changed since it
\* was cached and an event that wakes the Tenant is due.
LEMMA ChildApplied ==
    ASSUME TypeOK, NewsOK, NEW n \in Namespaces, NEW k \in Kinds,
           req \in Tenants, base \in TenantObject, ApplyChild(n, k).ok
    PROVE  LET x == ApplyChild(n, k).object
           IN  \/ x = DesiredChild(req, base, k)
               \/ x = children[n][k] /\ req \in knews[n][k]
<1> DEFINE d == DesiredChild(req, base, k)
<1>1. CASE d = Nil
      BY <1>1 DEF ApplyChild, Removed, Ok
<1>2. CASE d # Nil
  <2>1. Controller(d) = req
        BY <1>2, DesiredChildOwner
  <2> HIDE DEF d
  <2>2. ApplyChild(n, k) = CreateOrUpdate(kcache[n][k], children[n][k],
                                          knews[n][k] = {}, Nil, d)
        BY <1>2 DEF ApplyChild, Failed, d
  <2>3. \/ ApplyChild(n, k).object = d
        \/ kcache[n][k] = d /\ ApplyChild(n, k).object = children[n][k]
        BY <2>2 DEF CreateOrUpdate, Ok, Failed
  <2>4. IF knews[n][k] = {} THEN kcache[n][k] = children[n][k]
                            ELSE Controller(kcache[n][k]) \in knews[n][k]
        BY DEF NewsOK
  <2>5. ApplyChild(n, k).object = d
            \/ (ApplyChild(n, k).object = children[n][k] /\ req \in knews[n][k])
        BY <2>1, <2>3, <2>4
  <2> QED BY <2>5 DEF d
<1> QED BY <1>1, <1>2

LEMMA NamespaceApplied ==
    ASSUME IndInv, NewsOK, NEW up, ReconcileNamespace(up), pc' # "fail"
    PROVE  /\ pc' = "quota"
           /\ Controller(namespaces'[TargetNamespace])
                \in {req, Nil} \cup nsnews'[TargetNamespace]
           /\ InPlace(req, base, {})'
<1> DEFINE n == TargetNamespace
           own == OwnerRef(req, base)
           des == IF nscache[n] = Nil
                  THEN [terminating |-> FALSE, owner |-> own]
                  ELSE [nscache[n] EXCEPT !.owner = own]
           res == CreateOrUpdate(nscache[n], namespaces[n], nsnews[n] = {}, Nil, des)
<1>1. /\ pc' = "quota" /\ res.ok /\ WriteNamespace(n, res.object)
      /\ UNCHANGED <<req, base>>
      BY DEF ReconcileNamespace
<1>2. TypeOK /\ pc = "namespace"
      BY DEF IndInv, ReconcileNamespace
<1>3. req \in Tenants /\ base \in TenantObject
      BY <1>2 DEF TypeOK, WorkerTypeOK
<1>4. n \in Namespaces /\ n = NamespaceName(req, base.spec)
      BY <1>3, NamespaceNameType DEF TargetNamespace, TenantObject
<1>5. own \in Owner /\ own.name = req
      BY <1>3 DEF OwnerRef, Owner, TenantObject
<1>6. nscache[n] \in NamespaceObject \cup {Nil}
      BY <1>2, <1>4 DEF TypeOK, CacheTypeOK
<1>7. des \in NamespaceObject /\ des.owner = own
  <2> HIDE DEF own, n
  <2> QED BY <1>5, <1>6 DEF NamespaceObject
<1>8. des # Nil /\ Controller(des) = req
      BY <1>5, <1>7, NilAssumption DEF Controller
<1>9. \/ res.object = des
      \/ nscache[n] = des /\ res.object = namespaces[n]
  <2> HIDE DEF des, n
  <2> QED BY <1>1 DEF CreateOrUpdate, Ok, Failed
<1>10. /\ nsnews[n] = {} => nscache[n] = namespaces[n]
       /\ nsnews[n] # {} => {Controller(nscache[n]), Controller(namespaces[n])}
                                \subseteq nsnews[n]
       BY <1>4 DEF IndInv, NamespacesOK, NewsOK
<1>11. namespaces'[n] = res.object
       BY <1>1, <1>4 DEF WriteNamespace, IndInv, TypeOK, ApiTypeOK
<1>12. res.object = namespaces[n] => nsnews' = nsnews
       BY <1>1 DEF WriteNamespace
<1> HIDE DEF des, res
<1>13. \/ namespaces'[n] = des
       \/ req \in nsnews'[n] /\ Controller(namespaces'[n]) \in nsnews'[n]
       BY <1>8, <1>9, <1>10, <1>11, <1>12
<1>14. InPlace(req, base, {})'
       BY <1>1, <1>4, <1>7, <1>8, <1>13 DEF InPlace, OwnerRef
<1> QED BY <1>1, <1>8, <1>13, <1>14

LEMMA PassStep == IndInv /\ NewsOK /\ PassOK /\ [Next]_vars => PassOK'
<1> SUFFICES ASSUME IndInv, NewsOK, PassOK, [Next]_vars, pc' \in Kinds \cup {"status"}
             PROVE  /\ Controller(namespaces'[TargetNamespace'])
                        \in {req', Nil} \cup nsnews'[TargetNamespace'] \cup queue'
                    /\ req' \in queue' \/ InPlace(req, base, DealtWith(pc))'
    BY DEF PassOK, Controller
<1>1. TypeOK
      BY DEF IndInv
<1>2. ASSUME NEW up \in BOOLEAN, ReconcileNamespace(up), WorkerStep(up)
      PROVE  /\ Controller(namespaces'[TargetNamespace'])
                \in {req', Nil} \cup nsnews'[TargetNamespace'] \cup queue'
             /\ req' \in queue' \/ InPlace(req, base, DealtWith(pc))'
  <2>1. /\ pc' = "quota"
        /\ Controller(namespaces'[TargetNamespace])
                \in {req, Nil} \cup nsnews'[TargetNamespace]
        /\ InPlace(req, base, {})'
    <3>1. pc' # "fail"
          BY DEF Kinds
    <3> QED BY <1>2, <3>1, NamespaceApplied
  <2>2. UNCHANGED <<req, base>>
        BY <1>2 DEF ReconcileNamespace
  <2>3. TargetNamespace' = TargetNamespace
        BY <2>2 DEF TargetNamespace
  <2>4. DealtWith(pc)' = {}
        BY <2>1 DEF DealtWith
  <2>5. InPlace(req, base, DealtWith(pc))'
        BY <2>1, <2>4 DEF InPlace
  <2> QED BY <2>1, <2>2, <2>3, <2>5
<1>3. ASSUME NEW up \in BOOLEAN, NEW k \in Kinds, ReconcileChild(k, up), WorkerStep(up)
      PROVE  /\ Controller(namespaces'[TargetNamespace'])
                \in {req', Nil} \cup nsnews'[TargetNamespace'] \cup queue'
             /\ req' \in queue' \/ InPlace(req, base, DealtWith(pc))'
  <2> DEFINE n == TargetNamespace
             x == ApplyChild(n, k).object
  <2>1. /\ pc = k /\ pc' = StepAfter(k) /\ ApplyChild(n, k).ok /\ WriteChild(n, k, x)
        /\ UNCHANGED <<req, base, queue>>
        BY <1>3 DEF ReconcileChild, Kinds
  <2>2. pc # "idle" /\ req \in Tenants /\ base \in TenantObject
        BY <1>1, <2>1 DEF TypeOK, WorkerTypeOK, Kinds
  <2>3. n \in Namespaces /\ n = NamespaceName(req, base.spec)
        BY <2>2, NamespaceNameType DEF TargetNamespace, TenantObject
  <2>4. TargetNamespace' = n
        BY <2>1 DEF TargetNamespace
  <2>5. UNCHANGED <<namespaces, nsnews>>
        BY <2>1 DEF WriteChild
  <2>6. Controller(namespaces[n]) \in {req, Nil} \cup nsnews[n] \cup queue
        BY <2>1 DEF PassOK
  <2>7. Controller(namespaces'[n]) \in {req', Nil} \cup nsnews'[n] \cup queue'
        BY <2>1, <2>5, <2>6
  <2>8. ASSUME req \notin queue PROVE InPlace(req, base, DealtWith(pc))'
    <3>1. InPlace(req, base, DealtWith(k))
          BY <2>1, <2>8 DEF PassOK
    <3>2. CASE req \in nsnews[n]
          BY <2>1, <2>3, <2>5, <3>2 DEF InPlace
    <3>3. CASE req \notin nsnews[n]
      <4>1. namespaces[n] # Nil /\ namespaces[n].owner = OwnerRef(req, base)
            BY <2>3, <3>1, <3>3 DEF InPlace
      <4>2. \A j \in DealtWith(k) :
                children[n][j] = DesiredChild(req, base, j) \/ req \in knews[n][j]
            BY <2>3, <3>1, <3>3 DEF InPlace
      <4>3. \A j \in Kinds : children'[n][j] = IF j = k THEN x ELSE children[n][j]
        <5> HIDE DEF n, x
        <5> QED BY <1>1, <2>1, <2>3, WriteChildMove
      <4>4. /\ \A j \in Kinds : j # k => knews'[n][j] = knews[n][j]
            /\ x = children[n][k] => knews' = knews
        <5>1. knews \in [Namespaces -> [Kinds -> SUBSET (Tenants \cup {Nil})]]
              BY <1>1 DEF TypeOK, CacheTypeOK
        <5> HIDE DEF n, x
        <5> QED BY <2>1, <2>3, <5>1 DEF WriteChild
      <4>5. \/ x = DesiredChild(req, base, k)
            \/ x = children[n][k] /\ req \in knews[n][k]
            BY <1>1, <2>1, <2>2, <2>3, ChildApplied
      <4>6. DealtWith(pc)' \subseteq DealtWith(k) \cup {k}
            BY <2>1 DEF DealtWith, StepAfter, Kinds, WatchedKinds
      <4>7. DealtWith(k) \subseteq Kinds /\ k \notin DealtWith(k)
            BY DEF DealtWith, WatchedKinds, Kinds
      <4> HIDE DEF n, x
      <4>8. \A j \in DealtWith(pc)' :
                children'[n][j] = DesiredChild(req, base, j) \/ req \in knews'[n][j]
            BY <4>2, <4>3, <4>4, <4>5, <4>6, <4>7
      <4> QED BY <2>1, <2>3, <2>5, <4>1, <4>8 DEF InPlace, OwnerRef, DesiredChild
    <3> QED BY <3>2, <3>3
  <2> QED BY <2>1, <2>4, <2>7, <2>8
<1>4. CASE UNCHANGED worker /\ queue \subseteq queue' /\ Signals
  <2>1. UNCHANGED <<pc, req, base>>
        BY <1>4 DEF worker
  <2>2. pc # "idle" /\ req \in Tenants /\ base \in TenantObject
        BY <1>1, <2>1 DEF TypeOK, WorkerTypeOK, Kinds
  <2>3. PICK t \in Tenants : t = req
        BY <2>2
  <2>4. PICK o \in TenantObject : o = base
        BY <2>2
  <2>5. PICK n \in Namespaces : n = NamespaceName(t, o.spec)
        BY NamespaceNameType DEF TenantObject
  <2>6. TargetNamespace = n /\ TargetNamespace' = n
        BY <2>1, <2>3, <2>4, <2>5 DEF TargetNamespace
  <2>7. Controller(namespaces[n]) \in {req, Nil} \cup nsnews[n] \cup queue
        BY <2>1, <2>6 DEF PassOK
  <2>8. NamespaceSignal(n)
        BY <1>4 DEF Signals
  <2>9. Controller(namespaces'[n]) \in {req, Nil} \cup nsnews'[n] \cup queue'
        BY <1>4, <2>7, <2>8 DEF NamespaceSignal
  <2>10. PICK kinds \in SUBSET WatchedKinds : kinds = DealtWith(pc)
         BY DEF DealtWith, WatchedKinds
  <2>11. t \in queue \/ InPlace(t, o, kinds)
         BY <2>1, <2>3, <2>4, <2>10 DEF PassOK
  <2>12. t \in queue' \/ InPlace(t, o, kinds)'
         BY <1>4, <2>1, <2>11, InPlaceKept
  <2>13. DealtWith(pc)' = kinds
         BY <2>1, <2>10 DEF DealtWith
  <2>14. req' \in queue' \/ InPlace(req, base, DealtWith(pc))'
         BY <2>1, <2>3, <2>4, <2>12, <2>13 DEF InPlace
  <2> QED BY <2>1, <2>6, <2>9, <2>14
<1>5. ~Restart
      BY DEF Restart, Idle, Kinds
<1>6. ~\E t \in Tenants : Reconcile(t)
  <2> SUFFICES ASSUME NEW t \in Tenants, Reconcile(t) PROVE FALSE
      OBVIOUS
  <2>1. pc' = "idle" \/ pc' = FirstStep(tcache[t])
        BY DEF Reconcile, worker
  <2> QED BY <2>1 DEF FirstStep, Kinds
<1>7. ASSUME NEW up \in BOOLEAN, WorkerStep(up)
      PROVE  ReconcileNamespace(up) \/ \E k \in Kinds : ReconcileChild(k, up)
      BY <1>7 DEF WorkerStep, AddFinalizer, WriteStatus, CountFails, Fail, Terminate,
         Teardown, Release, Return, Retry, Idle, Kinds
<1> QED BY <1>1, <1>2, <1>3, <1>4, <1>5, <1>6, <1>7, Bystanders, SignalStep

-----------------------------------------------------------------------------
\* A Tenant nobody works on and nobody asked for.

\* A cache that moves wakes its Tenant.
LEMMA CachesWake ==
    ASSUME TypeOK, [Next]_vars, ~Restart, NEW t \in Tenants, t \notin queue'
    PROVE  tcache'[t] = tcache[t] /\ icache'[t] = icache[t]
<1>1. CASE Users
      BY <1>1, UserEdits
<1>2. ASSUME NEW u \in Tenants, Reconcile(u) \/ Resync(u)
      PROVE  tcache'[t] = tcache[t] /\ icache'[t] = icache[t]
      BY <1>2 DEF Reconcile, Resync, caches
<1>3. ASSUME NEW up \in BOOLEAN, WorkerStep(up)
      PROVE  tcache'[t] = tcache[t] /\ icache'[t] = icache[t]
      BY <1>3, WorkerQueues
<1>4. CASE Informers
      BY <1>4 DEF Informers, CacheTenant, CacheInventory, CacheNamespace, CacheChild,
         TypeOK, CacheTypeOK
<1>5. CASE ClusterControllers
      BY <1>5 DEF ClusterControllers, CollectNamespace, CollectChild, NamespaceGone, caches
<1>6. CASE Upsets
      BY <1>6 DEF Upsets, AdminCreatesNamespace, AdminDeletesNamespace, AdminDeletesChild,
         caches
<1>7. CASE UNCHANGED vars
      BY <1>7 DEF vars, caches
<1> QED BY <1>1, <1>2, <1>3, <1>4, <1>5, <1>6, <1>7 DEF Next

LEMMA QuietStep ==
    IndInv /\ GenerationsOK /\ NewsOK /\ PassOK /\ QuietOK /\ [Next]_vars => QuietOK'
<1> SUFFICES ASSUME IndInv, GenerationsOK, NewsOK, PassOK, QuietOK, [Next]_vars,
                    NEW t \in Tenants, tenants'[t] # Nil, tcache'[t] = tenants'[t],
                    t \notin queue', req' # t
             PROVE  /\ ~tenants'[t].deleting
                    /\ InPlace(t, tenants[t], WatchedKinds)'
                    /\ tenants'[t].status = ProvisionedStatus(t, tenants[t], icache[t])'
    BY DEF QuietOK, Live
<1>1. TypeOK
      BY DEF IndInv
<1>2. ~Restart
      BY DEF Restart, InitialEvents, api
<1>3. Signals /\ tcache'[t] = tcache[t] /\ icache'[t] = icache[t]
      BY <1>1, <1>2, SignalStep, CachesWake
<1>4. PICK o \in TenantObject : o = tenants'[t]
  <2>1. TypeOK'
        BY <1>1, TypeStep
  <2> QED BY <2>1 DEF TypeOK, ApiTypeOK
<1>5. o # Nil /\ tcache[t] = o
      BY <1>3, <1>4
<1> DEFINE Goal == /\ ~o.deleting
                   /\ InPlace(t, o, WatchedKinds)'
                   /\ o.status = ProvisionedStatus(t, o, icache[t])
<1>6. SUFFICES Goal
      BY <1>3, <1>4 DEF InPlace, ProvisionedStatus
\* If it was quiet before, it still is.
<1>7. ASSUME tenants[t] = o, t \notin queue, req # t, queue \subseteq queue',
             \/ pc' = pc \/ pc \notin WatchedKinds
             \/ TargetNamespace # NamespaceName(t, o.spec)
             \/ t \in nsnews[NamespaceName(t, o.spec)]
      PROVE  Goal
  <2>1. /\ ~o.deleting /\ InPlace(t, o, WatchedKinds)
        /\ o.status = ProvisionedStatus(t, o, icache[t])
        BY <1>5, <1>7 DEF QuietOK, Live
  <2>2. PICK kinds \in SUBSET WatchedKinds : kinds = WatchedKinds
        OBVIOUS
  <2>3. InPlace(t, o, kinds)' \/ t \in queue'
        BY <1>3, <1>7, <2>1, <2>2, InPlaceKept
  <2> QED BY <2>1, <2>2, <2>3
<1>8. CASE \E u \in Tenants : Reconcile(u)
  <2>1. PICK u \in Tenants : Reconcile(u)
        BY <1>8
  <2>2. /\ UNCHANGED <<tenants, namespaces, children, nsnews, knews>>
        /\ queue' = queue \ {u} /\ pc = "idle"
        BY <2>1 DEF Reconcile, api, news
  <2>3. u # t
    <3> SUFFICES ASSUME u = t PROVE FALSE
        OBVIOUS
    <3>1. tcache[t] # Nil
          BY <1>5
    <3>2. FirstStep(tcache[t]) = "idle"
          BY <2>1, <3>1 DEF Reconcile
    <3>3. o.deleting /\ ~o.finalizer
          BY <1>5, <3>2 DEF FirstStep
    <3> QED BY <1>4, <1>5, <2>2, <3>3 DEF GenerationsOK
  <2>4. t \notin queue /\ req # t
        BY <1>1, <2>2, <2>3, NilAssumption DEF TypeOK, WorkerTypeOK
  <2>5. /\ ~o.deleting /\ InPlace(t, o, WatchedKinds)
        /\ o.status = ProvisionedStatus(t, o, icache[t])
        BY <1>4, <1>5, <2>2, <2>4 DEF QuietOK, Live
  <2> QED BY <2>2, <2>5 DEF InPlace
<1>9. ASSUME NEW up \in BOOLEAN, WorkerStep(up) PROVE Goal
  <2>1. queue \subseteq queue' /\ t \notin queue
        BY <1>9, WorkerQueues
  <2>2. tenants \in [Tenants -> TenantObject \cup {Nil}]
        BY <1>1 DEF TypeOK, ApiTypeOK
  <2>3. CASE req # t
    <3>1. tenants[t] = o
          BY <1>4, <1>9, <2>2, <2>3, WorkerReports
    <3>2. ASSUME pc \in WatchedKinds, TargetNamespace = NamespaceName(t, o.spec)
          PROVE  t \in nsnews[NamespaceName(t, o.spec)]
      <4> DEFINE n == NamespaceName(t, o.spec)
      <4>1. InPlace(t, o, WatchedKinds)
            BY <1>5, <2>1, <2>3, <3>1 DEF QuietOK
      <4>2. Controller(namespaces[n]) \in {req, Nil} \cup nsnews[n] \cup queue
            BY <3>2 DEF PassOK, WatchedKinds, Kinds
      <4>3. CASE namespaces[n] # Nil /\ namespaces[n].owner = OwnerRef(t, o)
        <5>1. Controller(namespaces[n]) = t
              BY <4>3, ControllerOfOwned
        <5> QED BY <2>1, <2>3, <4>2, <5>1, NilAssumption
      <4> QED BY <4>1, <4>3 DEF InPlace
    <3> QED BY <1>7, <2>1, <2>3, <3>1, <3>2
  <2>4. CASE req = t
    <3>1. ~GoesOn
          BY <2>4 DEF GoesOn
    <3>2. PICK x : /\ tenants[req] = base /\ Reports(x)
                   /\ tenants' = [tenants EXCEPT ![req] = x]
          BY <1>9, <3>1, WorkerReports
    <3>3. x = o
          BY <1>4, <2>2, <2>4, <3>2
    <3>4. pc \in {"addFinalizer", "status"}
          BY <1>5, <2>4, <3>2, <3>3 DEF Reports
    <3>5. o = base /\ (pc = "addFinalizer" => ~base.finalizer)
          BY <1>5, <2>4, <3>2, <3>4 DEF GenerationsOK, ProvisionSteps
    <3>6. pc # "addFinalizer"
      <4> SUFFICES ASSUME pc = "addFinalizer" PROVE FALSE
          OBVIOUS
      <4>1. o = WithFinalizer(o)
            BY <3>2, <3>3, <3>5 DEF Reports
      <4>2. o.finalizer
            BY <4>1 DEF WithFinalizer, TenantObject
      <4> QED BY <3>5, <4>2
    <3>7. pc = "status" /\ o = WithStatus(o, ProvisionedStatus(t, o, icache[t]))
          BY <2>4, <3>2, <3>3, <3>4, <3>5, <3>6 DEF Reports
    <3>8. o.status = ProvisionedStatus(t, o, icache[t])
          BY <3>7 DEF WithStatus, TenantObject
    <3>9. ~o.deleting
          BY <3>5, <3>7 DEF IndInv, WorkerOK, ProvisionSteps
    <3>10. PICK kinds \in SUBSET WatchedKinds : kinds = WatchedKinds
           OBVIOUS
    <3>11. InPlace(t, o, kinds)
           BY <2>1, <2>4, <3>5, <3>7, <3>10 DEF PassOK, DealtWith
    <3>12. InPlace(t, o, kinds)' \/ t \in queue'
           BY <1>3, <2>1, <3>7, <3>10, <3>11, InPlaceKept DEF WatchedKinds
    <3> QED BY <3>8, <3>9, <3>10, <3>12
  <2> QED BY <2>3, <2>4
<1>10. CASE /\ UNCHANGED worker /\ queue \subseteq queue'
            /\ ~\E up \in BOOLEAN : WorkerStep(up)
  <2>1. pc' = pc /\ req # t /\ t \notin queue
        BY <1>10 DEF worker
  <2>2. tenants[t] = o
    <3>1. CASE Users
      <4>1. o.uid <= uids
            BY <1>5 DEF IndInv, VersionsOK, VersionOK
      <4>2. NotYounger(t, o)
            BY <1>5 DEF NotYounger, GenerationsOK
      <4> QED BY <1>1, <1>4, <3>1, <4>1, <4>2, UserOvertakes
    <3> QED BY <1>4, <1>10, <3>1, OnlyWriters
  <2> QED BY <1>7, <1>10, <2>1, <2>2
<1> QED BY <1>2, <1>8, <1>9, <1>10, Bystanders

-----------------------------------------------------------------------------
\* The theorems.

LEMMA WakeInit == Init => WakeInv
<1> SUFFICES ASSUME Init PROVE WakeInv
    OBVIOUS
<1>1. /\ \A t \in Tenants : tenants[t] = Nil
      /\ \A n \in Namespaces : nsnews[n] = {}
      /\ \A n \in Namespaces, k \in Kinds : knews[n][k] = {}
      /\ kcache = children
      /\ pc = "idle"
      BY DEF Init
<1>2. GenerationsOK
      BY <1>1 DEF GenerationsOK, ProvisionSteps, Kinds
<1>3. NewsOK
      BY <1>1 DEF NewsOK
<1>4. PassOK /\ QuietOK
      BY <1>1 DEF PassOK, QuietOK, Kinds
<1>5. ReadyStatusIsCoherent
      BY <1>1 DEF ReadyStatusIsCoherent
<1> QED BY <1>2, <1>3, <1>4, <1>5 DEF WakeInv

\* What a finished pass of the reconciler put in place stands, or an event that
\* wakes its Tenant is due, in every reachable state: Owns() on the namespace,
\* the quota and the limit range, and For(), miss nothing.
THEOREM WakeupInvariant == Spec => []WakeInv
<1>1. Init => WakeInv
      BY WakeInit
<1>2. IndInv /\ WakeInv /\ [Next]_vars => WakeInv'
      BY GenerationsStep, NewsStep, PassStep, QuietStep DEF WakeInv
<1> QED BY <1>1, <1>2, InductiveInvariant, PTL DEF Spec

\* A Ready status of the current generation comes from a complete pass over a
\* Tenant that is neither deleting nor suspended (reconcileTenant, fail,
\* finalize).
THEOREM ReadyStatusIsCoherentHolds == Spec => []ReadyStatusIsCoherent
<1>1. WakeInv => ReadyStatusIsCoherent
      BY DEF WakeInv
<1> QED BY <1>1, WakeupInvariant, PTL

\* A Tenant with nothing pending but the resync timer has its namespace and
\* watched objects as its spec asks and says so (SetupWithManager's watches).
THEOREM NoLostWakeupHolds == Spec => []NoLostWakeup
<1>1. IndInv /\ WakeInv => NoLostWakeup
  <2> SUFFICES ASSUME IndInv, WakeInv, NEW t \in Tenants, tenants[t] # Nil, Quiescent(t)
               PROVE  Live(t) /\ Provisioned(t, WatchedKinds) /\ StatusCurrent(t)
      BY DEF NoLostWakeup
  <2> DEFINE n == NamespaceName(t, tenants[t].spec)
  <2>1. /\ t \notin queue /\ req # t /\ tcache[t] = tenants[t]
        /\ icache[t] = inventory[t] /\ nsnews[n] = {}
        /\ \A k \in WatchedKinds : knews[n][k] = {}
        /\ namespaces[n] # Nil => ~namespaces[n].terminating
        BY DEF Quiescent
  <2>2. /\ Live(t) /\ InPlace(t, tenants[t], WatchedKinds)
        /\ tenants[t].status = ProvisionedStatus(t, tenants[t], icache[t])
        BY <2>1 DEF WakeInv, QuietOK
  <2>3. Provisioned(t, WatchedKinds)
        BY <2>1, <2>2 DEF InPlace, Provisioned, OwnsNamespace
  <2>4. StatusCurrent(t)
        BY <2>1, <2>2 DEF StatusCurrent
  <2> QED BY <2>2, <2>3, <2>4
<1> QED BY <1>1, InductiveInvariant, WakeupInvariant, PTL
=============================================================================
