----------------------- MODULE TenantRefinementProofs -----------------------
(***************************************************************************)
(* The proof that the Tenant reconciler implements TenantLifecycle: what a *)
(* write does to the abstract state, the step of the lifecycle that each   *)
(* action of the reconciler is, and the theorem.                           *)
(***************************************************************************)
EXTENDS TenantRefinement, TenantProofs

-----------------------------------------------------------------------------
\* The abstract state, and what the two kinds of write do to it.

Life  == [t \in Tenants |-> LifeOf(tenants[t])]
Place == [n \in Namespaces |-> PlaceOf(namespaces[n])]

\* A write of one Tenant changes one life.
LEMMA LifeWrite ==
    ASSUME TypeOK, NEW t \in Tenants, NEW o, tenants' = [tenants EXCEPT ![t] = o]
    PROVE  Life' = [Life EXCEPT ![t] = LifeOf(o)]
<1>1. tenants \in [Tenants -> TenantObject \cup {Nil}]
      BY DEF TypeOK, ApiTypeOK
<1>2. \A u \in Tenants : tenants'[u] = IF u = t THEN o ELSE tenants[u]
      BY <1>1
<1>3. Life' = [u \in Tenants |-> LifeOf(tenants'[u])]
      BY DEF Life
<1>4. \A u \in Tenants : LifeOf(tenants'[u]) = IF u = t THEN LifeOf(o)
                                                      ELSE LifeOf(tenants[u])
      BY <1>2
<1>5. [Life EXCEPT ![t] = LifeOf(o)] =
        [u \in Tenants |-> IF u = t THEN LifeOf(o) ELSE LifeOf(tenants[u])]
      BY DEF Life
<1> QED BY <1>3, <1>4, <1>5

\* A write of one namespace changes one place.
LEMMA PlaceWrite ==
    ASSUME TypeOK, NEW n \in Namespaces, NEW o,
           namespaces' = [namespaces EXCEPT ![n] = o]
    PROVE  Place' = [Place EXCEPT ![n] = PlaceOf(o)]
<1>1. namespaces \in [Namespaces -> NamespaceObject \cup {Nil}]
      BY DEF TypeOK, ApiTypeOK
<1>2. \A m \in Namespaces : namespaces'[m] = IF m = n THEN o ELSE namespaces[m]
      BY <1>1
<1>3. Place' = [m \in Namespaces |-> PlaceOf(namespaces'[m])]
      BY DEF Place
<1>4. \A m \in Namespaces : PlaceOf(namespaces'[m]) = IF m = n THEN PlaceOf(o)
                                                      ELSE PlaceOf(namespaces[m])
      BY <1>2
<1>5. [Place EXCEPT ![n] = PlaceOf(o)] =
        [m \in Namespaces |-> IF m = n THEN PlaceOf(o) ELSE PlaceOf(namespaces[m])]
      BY DEF Place
<1> QED BY <1>3, <1>4, <1>5

\* A stored Tenant and a stored namespace, read as life and place.
LEMMA LifeFields ==
    ASSUME NEW o \in TenantObject
    PROVE  /\ LifeOf(o).uid = o.uid
           /\ LifeOf(o).published = o.status.namespace
           /\ LifeOf(o).stage = IF o.deleting THEN "deleting"
                                ELSE IF o.finalizer THEN "managed" ELSE "new"
           /\ LifeOf(o) = [uid |-> o.uid, stage |-> LifeOf(o).stage,
                           published |-> o.status.namespace]
<1>1. o # Nil /\ o.deleting \in BOOLEAN /\ o.finalizer \in BOOLEAN
      BY NilAssumption DEF TenantObject
<1> QED BY <1>1 DEF LifeOf, StageOf

LEMMA LifeOfNil == LifeOf(Nil) = Lifecycle!NoTenant
BY DEF LifeOf, StageOf, Lifecycle!NoTenant

LEMMA PlaceFields ==
    ASSUME NEW o \in NamespaceObject
    PROVE  /\ PlaceOf(o).owner = o.owner
           /\ PlaceOf(o).state = IF o.terminating THEN "terminating" ELSE "active"
           /\ PlaceOf(o) = [state |-> PlaceOf(o).state, owner |-> o.owner]
<1>1. o # Nil /\ o.terminating \in BOOLEAN
      BY NilAssumption DEF NamespaceObject
<1> QED BY <1>1 DEF PlaceOf

LEMMA PlaceOfNil == PlaceOf(Nil) = Lifecycle!NoPlace
BY DEF PlaceOf, Lifecycle!NoPlace

\* What changes neither Tenants, namespaces nor the two counters is a stutter.
LEMMA Stutter ==
    ASSUME UNCHANGED <<tenants, namespaces, uids, upsets>>
    PROVE  UNCHANGED Lifecycle!vars
BY DEF Lifecycle!vars

\* What only counts as an upset is a disturbance.
LEMMA Disturbs ==
    ASSUME UNCHANGED <<tenants, namespaces, uids>>, upsets' = upsets + 1
    PROVE  Lifecycle!Next
BY DEF Lifecycle!Next, Lifecycle!Disturb

-----------------------------------------------------------------------------
\* Users.

LEMMA CreateIsCreate ==
    ASSUME TypeOK, NEW t \in Tenants, NEW s \in Specs, CreateTenant(t, s)
    PROVE  Lifecycle!Next
<1>1. NewTenant(s, uids + 1) \in TenantObject
      BY NewTenantType DEF TypeOK
<1>2. LifeOf(NewTenant(s, uids + 1)) =
        [uid |-> uids + 1, stage |-> "new", published |-> Nil]
      BY <1>1, LifeFields DEF NewTenant, NewStatus
<1>3. Life' = [Life EXCEPT ![t] = LifeOf(NewTenant(s, uids + 1))]
      BY LifeWrite DEF CreateTenant
<1>4. Life[t].stage = "absent"
      BY LifeOfNil DEF Life, CreateTenant, Lifecycle!NoTenant
<1>5. Lifecycle!Create(t)
      BY <1>2, <1>3, <1>4 DEF Life, Place, CreateTenant, Lifecycle!Create
<1> QED BY <1>5 DEF Lifecycle!Next

\* The spec is not part of the abstract state.
LEMMA UpdateIsStutter ==
    ASSUME TypeOK, NEW t \in Tenants, NEW s \in Specs, UpdateTenant(t, s)
    PROVE  UNCHANGED Lifecycle!vars
<1> DEFINE o == tenants[t]
           new == WithSpec(o, s)
<1>1. o \in TenantObject
      BY DEF TypeOK, ApiTypeOK, UpdateTenant
<1>2. /\ new \in TenantObject /\ new.uid = o.uid /\ new.deleting = o.deleting
      /\ new.finalizer = o.finalizer /\ new.status = o.status
  <2>1. \E st : st \in TenantStatus
        BY <1>1 DEF TenantObject
  <2>2. new \in TenantObject
        BY <1>1, <2>1, EditTypes
  <2> QED BY <1>1, <2>2 DEF WithSpec, TenantObject
<1>3. LifeOf(new) = LifeOf(o)
  <2> HIDE DEF new, o
  <2> QED BY <1>1, <1>2, LifeFields
<1>4. Life' = [Life EXCEPT ![t] = LifeOf(new)]
      BY LifeWrite DEF UpdateTenant
<1>5. Life' = Life
  <2>1. Life[t] = LifeOf(o)
        BY DEF Life
  <2> QED BY <1>3, <1>4, <2>1 DEF Life
<1>6. UNCHANGED <<namespaces, uids, upsets>>
      BY DEF UpdateTenant, bounds
<1> QED BY <1>5, <1>6 DEF Life, Lifecycle!vars

LEMMA DeleteIsDelete ==
    ASSUME TypeOK, NEW t \in Tenants, DeleteTenant(t)
    PROVE  Lifecycle!Next
<1> DEFINE o == tenants[t]
           new == IF o.finalizer THEN MarkDeleting(o) ELSE Nil
<1>1. o \in TenantObject /\ ~o.deleting /\ o.finalizer \in BOOLEAN
      BY DEF TypeOK, ApiTypeOK, DeleteTenant, TenantObject
<1>2. Life[t] = LifeOf(o)
      BY DEF Life
<1>3. Life[t].stage = IF o.finalizer THEN "managed" ELSE "new"
      BY <1>1, <1>2, LifeFields
<1>4. LifeOf(new) = IF Life[t].stage = "new" THEN Lifecycle!NoTenant
                    ELSE [Life[t] EXCEPT !.stage = "deleting"]
  <2>1. CASE ~o.finalizer
        BY <1>3, <2>1, LifeOfNil
  <2>2. CASE o.finalizer
    <3>1. \E st, s : st \in TenantStatus /\ s \in Specs
          BY <1>1 DEF TenantObject
    <3>2. MarkDeleting(o) \in TenantObject
          BY <1>1, <3>1, EditTypes
    <3>3. /\ MarkDeleting(o).uid = o.uid /\ MarkDeleting(o).deleting
          /\ MarkDeleting(o).status = o.status
          BY <1>1 DEF MarkDeleting, TenantObject
    <3>4. LifeOf(MarkDeleting(o)) =
            [uid |-> o.uid, stage |-> "deleting", published |-> o.status.namespace]
      <4> HIDE DEF o
      <4> QED BY <3>2, <3>3, LifeFields
    <3>5. LifeOf(o) =
            [uid |-> o.uid, stage |-> "managed", published |-> o.status.namespace]
      <4> HIDE DEF o
      <4> QED BY <1>1, <2>2, LifeFields
    <3> QED BY <1>2, <1>3, <2>2, <3>4, <3>5
  <2> QED BY <2>1, <2>2
<1>5. Life' = [Life EXCEPT ![t] = LifeOf(new)]
  <2>1. tenants' = [tenants EXCEPT ![t] = new]
        BY DEF DeleteTenant
  <2> HIDE DEF new
  <2> QED BY <2>1, LifeWrite
<1>6. UNCHANGED <<namespaces, uids, upsets>>
      BY DEF DeleteTenant, bounds
<1>7. Lifecycle!Delete(t)
  <2> HIDE DEF new
  <2>1. Life[t].stage \in {"new", "managed"}
        BY <1>3
  <2> QED BY <1>4, <1>5, <1>6, <2>1 DEF Life, Lifecycle!Delete
<1> QED BY <1>7 DEF Lifecycle!Next

-----------------------------------------------------------------------------
\* The worker.

\* A failed call is a disturbance unless it changes Tenants or namespaces; it
\* changes neither.
LEMMA FailedCallIsDisturbance ==
    ASSUME TypeOK, WorkerStep(FALSE)
    PROVE  Lifecycle!Next
<1>1. UNCHANGED <<tenants, namespaces>>
      BY DEF WorkerStep, AddFinalizer, ReconcileNamespace, ReconcileChild, WriteStatus,
         CountFails, Fail, Terminate, Teardown, Release, NoWrite, api
<1>2. UNCHANGED uids /\ upsets' = upsets + 1
      BY DEF WorkerStep
<1> QED BY <1>1, <1>2, Disturbs

LEMMA AddFinalizerIsGuard ==
    ASSUME TypeOK, AddFinalizer(TRUE), UNCHANGED <<uids, upsets>>
    PROVE  [Lifecycle!Next]_(Lifecycle!vars)
<1>0. UNCHANGED namespaces
      BY DEF AddFinalizer, NoWrite
<1>1. CASE ~Fresh
      BY <1>0, <1>1, Stutter DEF AddFinalizer
<1>2. CASE Fresh
  <2> DEFINE new == WithFinalizer(base)
  <2>1. req \in Tenants /\ base \in TenantObject /\ tenants[req] = base
        BY <1>2 DEF TypeOK, WorkerTypeOK, AddFinalizer, Fresh
  <2>2. new \in TenantObject /\ new = [base EXCEPT !.finalizer = TRUE]
        BY <2>1 DEF WithFinalizer, TenantObject
  <2>3. /\ new.uid = base.uid /\ new.deleting = base.deleting
        /\ new.finalizer = TRUE /\ new.status = base.status
        BY <2>1, <2>2 DEF TenantObject
  <2>4. Life' = [Life EXCEPT ![req] = LifeOf(new)]
        BY <1>2, <2>1, LifeWrite DEF AddFinalizer
  <2>5. Life[req] = LifeOf(base)
        BY <2>1 DEF Life
  <2> HIDE DEF new
  <2>6. CASE base.deleting \/ base.finalizer
    <3>1. LifeOf(new).stage = LifeOf(base).stage
          BY <2>1, <2>2, <2>3, <2>6, LifeFields
    <3>2. /\ LifeOf(new) = [uid |-> new.uid, stage |-> LifeOf(new).stage,
                             published |-> new.status.namespace]
          /\ LifeOf(base) = [uid |-> base.uid, stage |-> LifeOf(base).stage,
                              published |-> base.status.namespace]
          BY <2>1, <2>2, LifeFields
    <3>3. LifeOf(new) = LifeOf(base)
          BY <2>3, <3>1, <3>2
    <3>4. Life' = Life
          BY <2>4, <2>5, <3>3 DEF Life
    <3> QED BY <1>0, <3>4 DEF Life, Lifecycle!vars
  <2>7. CASE ~base.deleting /\ ~base.finalizer
    <3>1. LifeOf(new) =
            [uid |-> base.uid, stage |-> "managed", published |-> base.status.namespace]
          BY <2>2, <2>3, <2>7, LifeFields
    <3>2. LifeOf(base) =
            [uid |-> base.uid, stage |-> "new", published |-> base.status.namespace]
          BY <2>1, <2>7, LifeFields
    <3>3. Life[req].stage = "new" /\ LifeOf(new) = [Life[req] EXCEPT !.stage = "managed"]
          BY <2>5, <3>1, <3>2
    <3>4. Life' = [Life EXCEPT ![req].stage = "managed"]
          BY <2>4, <3>3
    <3>5. Lifecycle!Guard(req)
          BY <1>0, <3>3, <3>4, Zenon DEF Life, Lifecycle!Guard
    <3> QED BY <2>1, <3>5 DEF Lifecycle!Next
  <2> QED BY <2>6, <2>7
<1> QED BY <1>1, <1>2

\* Two versions of a Tenant that agree on what shows of them.
LEMMA SameLife ==
    ASSUME NEW o \in TenantObject, NEW p \in TenantObject,
           o.uid = p.uid, o.deleting = p.deleting, o.finalizer = p.finalizer,
           o.status.namespace = p.status.namespace
    PROVE  LifeOf(o) = LifeOf(p)
<1>1. /\ LifeOf(o) = [uid |-> o.uid, stage |-> LifeOf(o).stage,
                      published |-> o.status.namespace]
      /\ LifeOf(p) = [uid |-> p.uid, stage |-> LifeOf(p).stage,
                      published |-> p.status.namespace]
      BY LifeFields
<1>2. LifeOf(o).stage = LifeOf(p).stage
      BY LifeFields
<1> QED BY <1>1, <1>2

\* A Tenant's status names its namespace or none: the prefix cannot change.
PublishedOK ==
    \A t \in Tenants : tenants[t] # Nil =>
        tenants[t].status.namespace \in {Nil, NamespaceName(t, tenants[t].spec)}

\* A status written by a provisioning, whatever else it says.
LEMMA StatusIsPublish ==
    ASSUME TypeOK, WorkerOK, PublishedOK, pc \in ProvisionSteps, Fresh,
           NEW st \in TenantStatus, st.namespace = NamespaceName(req, base.spec),
           tenants' = [tenants EXCEPT ![req] = WithStatus(base, st)],
           UNCHANGED <<namespaces, uids, upsets>>
    PROVE  [Lifecycle!Next]_(Lifecycle!vars)
<1> DEFINE new == WithStatus(base, st)
           n == NamespaceName(req, base.spec)
<1>1. req \in Tenants /\ base \in TenantObject /\ tenants[req] = base /\ base # Nil
      BY NilAssumption DEF TypeOK, WorkerTypeOK, Fresh, ProvisionSteps, Kinds
<1>2. base.finalizer /\ ~base.deleting
      BY DEF WorkerOK
<1>3. /\ new \in TenantObject /\ new.uid = base.uid /\ new.deleting = base.deleting
      /\ new.finalizer = base.finalizer /\ new.status = st
      BY <1>1 DEF WithStatus, TenantObject
<1>4. n \in Namespaces /\ NameOf(n, req)
      BY <1>1, NamespaceNameType DEF NameOf, TenantObject
<1>5. Life' = [Life EXCEPT ![req] = LifeOf(new)] /\ Life[req] = LifeOf(base)
      BY <1>1, LifeWrite DEF Life
<1> HIDE DEF new, n
<1>6. CASE base.status.namespace = n
  <2>1. LifeOf(new) = LifeOf(base)
        BY <1>1, <1>3, <1>6, SameLife DEF n
  <2>2. Life' = Life
        BY <1>5, <2>1 DEF Life
  <2> QED BY <2>2 DEF Life, Lifecycle!vars
<1>7. CASE base.status.namespace = Nil
  <2>1. LifeOf(base) = [uid |-> base.uid, stage |-> "managed", published |-> Nil]
        BY <1>1, <1>2, <1>7, LifeFields
  <2>2. LifeOf(new) = [uid |-> base.uid, stage |-> "managed", published |-> n]
        BY <1>2, <1>3, LifeFields DEF n
  <2>3. /\ Life[req].stage = "managed" /\ Life[req].published = Nil
        /\ LifeOf(new) = [Life[req] EXCEPT !.published = n]
        BY <1>5, <2>1, <2>2
  <2>4. Life' = [Life EXCEPT ![req].published = n]
        BY <1>5, <2>3
  <2>5. \E s \in Specs : n = NamespaceName(req, s)
        BY <1>4 DEF NameOf
  <2>6. Lifecycle!Publish(req, n)
        BY <2>3, <2>4, <2>5, Zenon DEF Life, Lifecycle!Publish
  <2> QED BY <1>1, <1>4, <2>6 DEF Lifecycle!Next
<1> QED BY <1>1, <1>6, <1>7 DEF PublishedOK, n

LEMMA WriteStatusIsPublish ==
    ASSUME TypeOK, WorkerOK, PublishedOK, WriteStatus(TRUE) \/ Fail(TRUE),
           UNCHANGED <<uids, upsets>>
    PROVE  [Lifecycle!Next]_(Lifecycle!vars)
<1>1. UNCHANGED namespaces /\ pc \in ProvisionSteps
      BY DEF WriteStatus, Fail, NoWrite, ProvisionSteps
<1>2. req \in Tenants /\ base \in TenantObject /\ icache[req] \in Nat
      BY <1>1 DEF TypeOK, WorkerTypeOK, CacheTypeOK, ProvisionSteps, Kinds
<1>3. CASE ~Fresh
      BY <1>1, <1>3, Stutter DEF WriteStatus, Fail
<1>4. CASE Fresh /\ WriteStatus(TRUE)
  <2> DEFINE st == ProvisionedStatus(req, base, icache[req])
  <2>1. st \in TenantStatus /\ st.namespace = NamespaceName(req, base.spec)
        BY <1>2, StatusTypes DEF ProvisionedStatus
  <2>2. tenants' = [tenants EXCEPT ![req] = WithStatus(base, st)]
        BY <1>4 DEF WriteStatus
  <2> HIDE DEF st
  <2> QED BY <1>1, <1>4, <2>1, <2>2, StatusIsPublish
<1>5. CASE Fresh /\ Fail(TRUE)
  <2> DEFINE st == FailedStatus(req, base)
  <2>1. st \in TenantStatus
        BY <1>2, StatusTypes
  <2>2. st.namespace = NamespaceName(req, base.spec)
        BY <1>2 DEF FailedStatus, TenantObject, TenantStatus
  <2>3. tenants' = [tenants EXCEPT ![req] = WithStatus(base, st)]
        BY <1>5 DEF Fail
  <2> HIDE DEF st
  <2> QED BY <1>1, <1>5, <2>1, <2>2, <2>3, StatusIsPublish
<1> QED BY <1>3, <1>4, <1>5

LEMMA TerminateIsStutter ==
    ASSUME TypeOK, Terminate(TRUE), UNCHANGED <<uids, upsets>>
    PROVE  UNCHANGED Lifecycle!vars
<1>0. UNCHANGED namespaces
      BY DEF Terminate, NoWrite
<1>1. CASE ~Fresh
      BY <1>0, <1>1, Stutter DEF Terminate
<1>2. CASE Fresh
  <2> DEFINE st == TerminatingStatus(base)
             new == WithStatus(base, st)
  <2>1. req \in Tenants /\ base \in TenantObject /\ tenants[req] = base
        BY <1>2 DEF TypeOK, WorkerTypeOK, Terminate, Fresh
  <2>2. st \in TenantStatus /\ st.namespace = base.status.namespace
    <3>1. icache[req] \in Nat
          BY <2>1 DEF TypeOK, CacheTypeOK
    <3>2. st \in TenantStatus
          BY <2>1, <3>1, StatusTypes
    <3> QED BY <2>1, <3>2 DEF TerminatingStatus, TenantObject, TenantStatus
  <2> HIDE DEF st
  <2>3. /\ new \in TenantObject /\ new.uid = base.uid /\ new.deleting = base.deleting
        /\ new.finalizer = base.finalizer /\ new.status = st
        BY <2>1, <2>2 DEF WithStatus, TenantObject
  <2>4. tenants' = [tenants EXCEPT ![req] = new]
        BY <1>2 DEF Terminate, st
  <2> HIDE DEF new
  <2>5. LifeOf(new) = LifeOf(base)
        BY <2>1, <2>2, <2>3, SameLife
  <2>6. Life' = Life
        BY <2>1, <2>4, <2>5, LifeWrite DEF Life
  <2> QED BY <1>0, <2>6 DEF Life, Lifecycle!vars
<1> QED BY <1>1, <1>2

LEMMA ReleaseIsRelease ==
    ASSUME TypeOK, WorkerOK, Release(TRUE), UNCHANGED <<uids, upsets>>
    PROVE  [Lifecycle!Next]_(Lifecycle!vars)
<1>0. UNCHANGED namespaces
      BY DEF Release, NoWrite
<1>1. CASE ~Fresh
      BY <1>0, <1>1, Stutter DEF Release
<1>2. CASE Fresh
  <2>1. /\ req \in Tenants /\ base \in TenantObject /\ tenants[req] = base
        /\ base.deleting
        BY <1>2 DEF TypeOK, WorkerTypeOK, WorkerOK, Release, Fresh, FinalizeSteps
  <2>2. Life' = [Life EXCEPT ![req] = Lifecycle!NoTenant]
        BY <1>2, <2>1, LifeWrite, LifeOfNil DEF Release
  <2>3. Life[req].stage = "deleting"
        BY <2>1, LifeFields DEF Life
  <2>4. Lifecycle!Release(req)
        BY <1>0, <2>2, <2>3 DEF Life, Lifecycle!Release
  <2> QED BY <2>1, <2>4 DEF Lifecycle!Next
<1> QED BY <1>1, <1>2

\* A CreateOrUpdate of the namespace that wrote something provisioned it.
LEMMA NamespaceIsProvision ==
    ASSUME IndInv, ReconcileNamespace(TRUE), UNCHANGED <<uids, upsets>>
    PROVE  [Lifecycle!Next]_(Lifecycle!vars)
<1> DEFINE n == TargetNamespace
           owner == OwnerRef(req, base)
           desired == IF nscache[n] = Nil THEN [terminating |-> FALSE, owner |-> owner]
                      ELSE [nscache[n] EXCEPT !.owner = owner]
           result == CreateOrUpdate(nscache[n], namespaces[n], nsnews[n] = {}, Nil, desired)
<1>0. /\ pc = "namespace" /\ UNCHANGED tenants
      /\ \/ ~OwnedByOther(nscache[n], req) /\ WriteNamespace(n, result.object)
         \/ UNCHANGED namespaces
      BY DEF ReconcileNamespace, NoWrite
<1>1. /\ TypeOK /\ NamespacesOK /\ ProvisionsOnlyExisting
      /\ namespaces \in [Namespaces -> NamespaceObject \cup {Nil}]
      BY IndProvisions DEF IndInv, TypeOK, ApiTypeOK
<1>2. req \in Tenants /\ base \in TenantObject
      BY <1>0, <1>1 DEF TypeOK, WorkerTypeOK
<1>3. /\ n \in Namespaces /\ owner \in Owner
      /\ \E s \in Specs : n = NamespaceName(req, s)
  <2>1. base.spec \in Specs /\ base.uid \in Nat
        BY <1>2 DEF TenantObject
  <2> QED BY <1>2, <2>1, NamespaceNameType DEF TargetNamespace, OwnerRef, Owner
<1>4. /\ Life[req].stage \in {"managed", "deleting"}
      /\ owner = [name |-> req, uid |-> Life[req].uid]
  <2>1. /\ tenants[req] \in TenantObject /\ tenants[req].uid = base.uid
        /\ tenants[req].finalizer
        BY <1>0, <1>1, <1>2
        DEF ProvisionsOnlyExisting, ProvisionSteps, TypeOK, ApiTypeOK
  <2>2. Life[req] = LifeOf(tenants[req])
        BY <1>2 DEF Life
  <2> QED BY <2>1, <2>2, LifeFields DEF OwnerRef
<1> HIDE DEF n, owner
<1>5. CASE UNCHANGED namespaces
      BY <1>0, <1>5, Stutter
<1>6. CASE ~OwnedByOther(nscache[n], req) /\ WriteNamespace(n, result.object)
  <2>1. namespaces' = [namespaces EXCEPT ![n] = result.object]
        BY <1>6 DEF WriteNamespace
  <2>2. /\ result.object = namespaces[n] \/ result.object = desired
        /\ result.object # namespaces[n] =>
            (nscache[n] = Nil /\ namespaces[n] = Nil)
                \/ (nscache[n] # Nil /\ nsnews[n] = {})
    <3> HIDE DEF desired
    <3> QED BY DEF CreateOrUpdate, Ok, Failed
  <2> HIDE DEF result
  <2>3. CASE result.object = namespaces[n]
    <3>1. UNCHANGED namespaces
          BY <1>1, <2>1, <2>3
    <3> QED BY <1>5, <3>1
  <2>4. CASE result.object # namespaces[n]
    <3>1. /\ nscache[n] = namespaces[n] /\ result.object = desired
          /\ namespaces[n] \in NamespaceObject \cup {Nil}
          BY <1>1, <1>3, <2>2, <2>4 DEF NamespacesOK
    <3>2. /\ Place[n].owner = Nil \/ Place[n].owner.name = req
          /\ PlaceOf(desired) =
                [state |-> IF Place[n].state = "absent" THEN "active" ELSE Place[n].state,
                 owner |-> owner]
      <4>0. Place[n] = PlaceOf(namespaces[n])
            BY <1>3 DEF Place
      <4>1. CASE namespaces[n] = Nil
        <5>1. Place[n].owner = Nil /\ Place[n].state = "absent"
              BY <4>0, <4>1, PlaceOfNil DEF Lifecycle!NoPlace
        <5>2. desired = [terminating |-> FALSE, owner |-> owner]
              BY <3>1, <4>1
        <5>3. desired \in NamespaceObject /\ desired.owner = owner /\ ~desired.terminating
              BY <1>3, <5>2 DEF NamespaceObject
        <5> HIDE DEF desired
        <5> QED BY <5>1, <5>3, PlaceFields
      <4>2. CASE namespaces[n] # Nil
        <5>1. namespaces[n] \in NamespaceObject
              BY <3>1, <4>2
        <5>2. desired = [namespaces[n] EXCEPT !.owner = owner]
              BY <3>1, <4>2
        <5>3. /\ desired \in NamespaceObject /\ desired.owner = owner
              /\ desired.terminating = namespaces[n].terminating
              BY <1>3, <5>1, <5>2 DEF NamespaceObject
        <5>4. namespaces[n].owner = Nil \/ namespaces[n].owner.name = req
              BY <1>6, <3>1, <4>2 DEF OwnedByOther
        <5> HIDE DEF desired
        <5>5. Place[n].owner = namespaces[n].owner
              BY <4>0, <5>1, PlaceFields
        <5>6. Place[n].state = PlaceOf(desired).state /\ Place[n].state # "absent"
              BY <4>0, <5>1, <5>3, PlaceFields
        <5> QED BY <5>3, <5>4, <5>5, <5>6, PlaceFields
      <4> QED BY <4>1, <4>2
    <3> HIDE DEF desired
    <3>3. Place' = [Place EXCEPT ![n] = PlaceOf(desired)]
          BY <1>1, <1>3, <2>1, <3>1, PlaceWrite
    <3>4. Lifecycle!Provision(req, n)
          BY <1>0, <1>3, <1>4, <3>2, <3>3, Zenon DEF Life, Place, Lifecycle!Provision
    <3> QED BY <1>2, <1>3, <3>4 DEF Lifecycle!Next
  <2> QED BY <2>3, <2>4
<1> QED BY <1>0, <1>5, <1>6

\* A namespace that starts terminating while no live Tenant owns it is evicted.
LEMMA TerminationIsEvict ==
    ASSUME IndInv, NEW n \in Namespaces, namespaces[n] # Nil,
           \A t \in Tenants : ~namespaces[n].terminating /\ OwnsNamespace(t, n)
                                => tenants[t].deleting,
           namespaces' = [namespaces EXCEPT ![n] =
                            [namespaces[n] EXCEPT !.terminating = TRUE]],
           UNCHANGED <<tenants, uids, upsets>>
    PROVE  [Lifecycle!Next]_(Lifecycle!vars)
<1> DEFINE old == namespaces[n]
           new == [old EXCEPT !.terminating = TRUE]
<1>1. /\ TypeOK /\ old \in NamespaceObject /\ Place[n] = PlaceOf(old)
      /\ namespaces \in [Namespaces -> NamespaceObject \cup {Nil}]
      BY DEF IndInv, TypeOK, ApiTypeOK, Place
<1>2. new \in NamespaceObject /\ new.owner = old.owner /\ new.terminating = TRUE
      BY <1>1 DEF NamespaceObject
<1>3. Place' = [Place EXCEPT ![n] = PlaceOf(new)]
      BY <1>1, PlaceWrite
<1>4. CASE old.terminating
  <2>1. PlaceOf(new) = Place[n]
    <3> HIDE DEF new, old
    <3>1. /\ PlaceOf(new) = [state |-> "terminating", owner |-> old.owner]
          /\ PlaceOf(old) = [state |-> "terminating", owner |-> old.owner]
          BY <1>1, <1>2, <1>4, PlaceFields
    <3> QED BY <1>1, <3>1
  <2>2. Place' = Place
        BY <1>3, <2>1 DEF Place
  <2> QED BY <2>2 DEF Place, Lifecycle!vars
<1>5. CASE ~old.terminating
  <2>1. /\ Place[n].state = "active" /\ Place[n].owner = old.owner
        /\ PlaceOf(new) = [Place[n] EXCEPT !.state = "terminating"]
    <3> HIDE DEF new, old
    <3>1. /\ PlaceOf(new) = [state |-> "terminating", owner |-> old.owner]
          /\ PlaceOf(old) = [state |-> "active", owner |-> old.owner]
          BY <1>1, <1>2, <1>5, PlaceFields
    <3> QED BY <1>1, <3>1
  <2>2. Place' = [Place EXCEPT ![n].state = "terminating"]
        BY <1>3, <2>1
  <2>3. ASSUME Place[n].owner # Nil,
               Life[Place[n].owner.name].stage \in {"new", "managed"},
               Life[Place[n].owner.name].uid = Place[n].owner.uid
        PROVE  FALSE
    <3> DEFINE t == old.owner.name
    <3>1. /\ old.owner \in Owner /\ t \in Tenants
          /\ old.owner = [name |-> t, uid |-> old.owner.uid]
          BY <1>1, <2>1, <2>3 DEF NamespaceObject, Owner
    <3>2. Life[t] = LifeOf(tenants[t]) /\ tenants[t] \in TenantObject \cup {Nil}
          BY <1>1, <3>1 DEF Life, TypeOK, ApiTypeOK
    <3>3. Life[t].stage \in {"new", "managed"} /\ Life[t].uid = old.owner.uid
          BY <2>1, <2>3
    <3>4. tenants[t] \in TenantObject
          BY <3>2, <3>3, LifeOfNil DEF Lifecycle!NoTenant
    <3>5. ~tenants[t].deleting /\ tenants[t].uid = old.owner.uid
          BY <3>2, <3>3, <3>4, LifeFields
    <3>6. OwnsNamespace(t, n)
          BY <3>1, <3>4, <3>5, NilAssumption DEF OwnsNamespace, OwnerRef
    <3> QED BY <1>5, <3>1, <3>5, <3>6
  <2>4. ~Lifecycle!ControlledByLive(n)
        BY <2>3, Zenon DEF Life, Place, Lifecycle!ControlledByLive
  <2>5. Lifecycle!Evict(n)
        BY <2>1, <2>2, <2>4, Zenon DEF Life, Place, Lifecycle!Evict
  <2> QED BY <2>5 DEF Lifecycle!Next
<1> QED BY <1>4, <1>5

\* Teardown, where no two tenants can want one namespace.
LEMMA TeardownIsEvict ==
    ASSUME NamesDistinct, IndInv, Teardown(TRUE), UNCHANGED <<uids, upsets>>
    PROVE  [Lifecycle!Next]_(Lifecycle!vars)
<1>0. pc = "teardown" /\ UNCHANGED tenants
      BY DEF Teardown
<1>1. CASE UNCHANGED namespaces
      BY <1>0, <1>1, Stutter
<1>2. CASE namespaces' # namespaces
  <2>1. PICK n \in Namespaces : n = base.status.namespace
        BY <1>0 DEF IndInv, TypeOK, WorkerTypeOK, TenantObject, TenantStatus
  <2>2. /\ namespaces[n] # Nil
        /\ namespaces' = [namespaces EXCEPT ![n] =
                            [namespaces[n] EXCEPT !.terminating = TRUE]]
        BY <1>2, <2>1 DEF Teardown, DeleteNamespace, WriteNamespace, NoWrite
  <2>3. namespaces \in [Namespaces -> NamespaceObject \cup {Nil}]
        BY DEF IndInv, TypeOK, ApiTypeOK
  <2>4. ASSUME NEW t \in Tenants, ~namespaces[n].terminating, OwnsNamespace(t, n)
        PROVE  tenants[t].deleting
    <3>1. namespaces'[n].terminating
          BY <2>2, <2>3 DEF NamespaceObject
    <3>2. Admits(n) /\ ~Admits(n)'
          BY <2>2, <2>4, <3>1 DEF Admits
    <3> QED BY <2>4, <3>2, TeardownSpares
  <2> QED BY <1>0, <2>2, <2>4, TerminationIsEvict
<1> QED BY <1>1, <1>2

\* Every call of the worker that does not fail.
LEMMA WorkerImplements ==
    ASSUME NamesDistinct, IndInv, PublishedOK, WorkerStep(TRUE)
    PROVE  [Lifecycle!Next]_(Lifecycle!vars)
<1>1. UNCHANGED <<uids, upsets>> /\ TypeOK /\ WorkerOK
      BY DEF WorkerStep, IndInv
<1>2. ASSUME NEW k \in Kinds, ReconcileChild(k, TRUE)
      PROVE  UNCHANGED Lifecycle!vars
  <2>1. UNCHANGED <<tenants, namespaces>>
        BY <1>2 DEF ReconcileChild, WriteChild, NoWrite
  <2> QED BY <1>1, <2>1, Stutter
<1>3. ~CountFails(TRUE)
      BY DEF CountFails
<1> QED BY <1>1, <1>2, <1>3, AddFinalizerIsGuard, NamespaceIsProvision,
        WriteStatusIsPublish, TerminateIsStutter, TeardownIsEvict, ReleaseIsRelease
        DEF WorkerStep

-----------------------------------------------------------------------------
\* The other controllers, and upsets.

LEMMA ClusterImplements ==
    ASSUME IndInv, ClusterControllers
    PROVE  [Lifecycle!Next]_(Lifecycle!vars)
<1>0. PICK n \in Namespaces : \/ CollectNamespace(n)
                              \/ \E k \in Kinds : CollectChild(n, k)
                              \/ NamespaceGone(n)
      BY DEF ClusterControllers
<1>1. UNCHANGED <<tenants, uids, upsets>>
      BY <1>0 DEF CollectNamespace, CollectChild, NamespaceGone, bounds
<1>2. CASE \E k \in Kinds : CollectChild(n, k)
  <2>1. UNCHANGED namespaces
        BY <1>2 DEF CollectChild, WriteChild
  <2> QED BY <1>1, <2>1, Stutter
<1>3. CASE CollectNamespace(n)
  <2>1. \A t \in Tenants : ~OwnsNamespace(t, n)
        BY <1>3 DEF CollectNamespace, OwnsNamespace, OwnerRef, OwnerExists
  <2> QED BY <1>1, <1>3, <2>1, TerminationIsEvict DEF CollectNamespace, WriteNamespace
<1>4. CASE NamespaceGone(n)
  <2>1. TypeOK /\ namespaces[n] \in NamespaceObject /\ namespaces[n].terminating
        BY <1>4 DEF IndInv, TypeOK, ApiTypeOK, NamespaceGone
  <2>2. Place' = [Place EXCEPT ![n] = Lifecycle!NoPlace]
        BY <1>4, <2>1, PlaceWrite, PlaceOfNil DEF NamespaceGone, WriteNamespace
  <2>3. Place[n].state = "terminating"
        BY <2>1, PlaceFields DEF Place
  <2>4. Lifecycle!Gone(n)
        BY <1>1, <2>2, <2>3 DEF Place, Lifecycle!Gone
  <2> QED BY <2>4 DEF Lifecycle!Next
<1> QED BY <1>0, <1>2, <1>3, <1>4

\* A namespace somebody creates or deletes is meddled with.
LEMMA AdminIsMeddle ==
    ASSUME TypeOK, NEW n \in Namespaces,
           AdminCreatesNamespace(n) \/ AdminDeletesNamespace(n)
    PROVE  Lifecycle!Next
<1> DEFINE new == IF namespaces[n] = Nil THEN [terminating |-> FALSE, owner |-> Nil]
                  ELSE [namespaces[n] EXCEPT !.terminating = TRUE]
<1>1. /\ namespaces' = [namespaces EXCEPT ![n] = new]
      /\ namespaces[n] # Nil => ~namespaces[n].terminating
      BY DEF AdminCreatesNamespace, AdminDeletesNamespace, WriteNamespace, Admits
<1>2. UNCHANGED <<tenants, uids>> /\ upsets' = upsets + 1
      BY DEF AdminCreatesNamespace, AdminDeletesNamespace, Upset
<1>3. /\ namespaces[n] \in NamespaceObject \cup {Nil}
      /\ Place[n] = PlaceOf(namespaces[n])
      BY DEF TypeOK, ApiTypeOK, Place
<1>4. PlaceOf(new) = [Place[n] EXCEPT !.state = IF Place[n].state = "absent"
                                                THEN "active" ELSE "terminating"]
  <2>1. CASE namespaces[n] = Nil
    <3>1. Place[n] = [state |-> "absent", owner |-> Nil]
          BY <1>3, <2>1, PlaceOfNil DEF Lifecycle!NoPlace
    <3>2. new = [terminating |-> FALSE, owner |-> Nil]
          BY <2>1
    <3>3. new \in NamespaceObject /\ new.owner = Nil /\ ~new.terminating
          BY <3>2 DEF NamespaceObject
    <3> HIDE DEF new
    <3>4. PlaceOf(new) = [state |-> "active", owner |-> Nil]
          BY <3>3, PlaceFields
    <3> QED BY <3>1, <3>4
  <2>2. CASE namespaces[n] # Nil
    <3> DEFINE old == namespaces[n]
    <3>1. old \in NamespaceObject /\ ~old.terminating
          BY <1>1, <1>3, <2>2
    <3>2. new = [old EXCEPT !.terminating = TRUE]
          BY <2>2
    <3>3. new \in NamespaceObject /\ new.owner = old.owner /\ new.terminating
          BY <3>1, <3>2 DEF NamespaceObject
    <3> HIDE DEF new, old
    <3>4. /\ PlaceOf(new) = [state |-> "terminating", owner |-> old.owner]
          /\ PlaceOf(old) = [state |-> "active", owner |-> old.owner]
          BY <3>1, <3>3, PlaceFields
    <3> QED BY <1>3, <3>4 DEF old
  <2> QED BY <2>1, <2>2
<1> HIDE DEF new
<1>5. Place' = [Place EXCEPT ![n].state = IF Place[n].state = "absent"
                                          THEN "active" ELSE "terminating"]
  <2>1. Place' = [Place EXCEPT ![n] = PlaceOf(new)]
        BY <1>1, PlaceWrite
  <2> QED BY <1>4, <2>1, Zenon
<1>6. Lifecycle!Meddle(n)
      BY <1>2, <1>5, Zenon DEF Place, Lifecycle!Meddle
<1> QED BY <1>6 DEF Lifecycle!Next

LEMMA UpsetsImplement ==
    ASSUME TypeOK, Upsets
    PROVE  Lifecycle!Next
<1>1. ASSUME NEW n \in Namespaces, NEW k \in Kinds, AdminDeletesChild(n, k)
      PROVE  Lifecycle!Next
      BY <1>1, Disturbs DEF AdminDeletesChild, WriteChild, Upset
<1>2. CASE Restart
      BY <1>2, Disturbs DEF Restart, Upset, api
<1> QED BY <1>1, <1>2, AdminIsMeddle DEF Upsets

-----------------------------------------------------------------------------
\* The published name.

\* No step makes the status name another namespace than the spec does.
LEMMA PublishedStep == TypeOK /\ PublishedOK /\ [Next]_vars => PublishedOK'
<1> SUFFICES ASSUME TypeOK, PublishedOK, [Next]_vars, NEW t \in Tenants,
                    tenants'[t] # Nil, tenants'[t] # tenants[t]
             PROVE  tenants'[t].status.namespace
                        \in {Nil, NamespaceName(t, tenants'[t].spec)}
    BY DEF PublishedOK
<1>1. tenants \in [Tenants -> TenantObject \cup {Nil}] /\ tenants' # tenants
      BY DEF TypeOK, ApiTypeOK
<1> DEFINE Published(o) == o.status.namespace \in {Nil, NamespaceName(t, o.spec)}
<1>2. CASE Users
  <2>1. ASSUME NEW u \in Tenants, NEW s \in Specs, CreateTenant(u, s)
        PROVE  Published(tenants'[t])
        BY <1>1, <2>1 DEF CreateTenant, NewTenant, NewStatus
  <2>2. ASSUME NEW u \in Tenants, NEW s \in Specs, UpdateTenant(u, s)
        PROVE  Published(tenants'[t])
    <3>1. /\ t = u /\ tenants[t] \in TenantObject /\ tenants'[t] = WithSpec(tenants[t], s)
          /\ tenants[t] # Nil /\ tenants[t].spec.prefix = s.prefix
          BY <1>1, <2>2 DEF UpdateTenant, ValidateUpdate
    <3>2. tenants'[t].spec = s /\ tenants'[t].status = tenants[t].status
          BY <3>1 DEF WithSpec, TenantObject
    <3>3. NamespaceName(t, s) = NamespaceName(t, tenants[t].spec)
          BY <3>1 DEF NamespaceName
    <3> QED BY <3>1, <3>2, <3>3 DEF PublishedOK
  <2>3. ASSUME NEW u \in Tenants, DeleteTenant(u) PROVE Published(tenants'[t])
    <3>1. /\ t = u /\ tenants[t] \in TenantObject /\ tenants'[t] = MarkDeleting(tenants[t])
          /\ tenants[t] # Nil
          BY <1>1, <2>3 DEF DeleteTenant
    <3>2. tenants'[t].spec = tenants[t].spec /\ tenants'[t].status = tenants[t].status
          BY <3>1 DEF MarkDeleting, TenantObject
    <3> QED BY <3>1, <3>2 DEF PublishedOK
  <2> QED BY <1>1, <1>2, <2>1, <2>2, <2>3 DEF Users, ChangeInventory
<1>3. ASSUME NEW up \in BOOLEAN, WorkerStep(up) PROVE Published(tenants'[t])
  <2>1. req \in Tenants /\ base \in TenantObject /\ tenants[req] = base /\ Fresh
        BY <1>1, <1>3 DEF WorkerStep, AddFinalizer, ReconcileNamespace, ReconcileChild,
           WriteStatus, CountFails, Fail, Terminate, Teardown, Release, api, Fresh,
           TypeOK, WorkerTypeOK
  <2>2. PICK new : tenants' = [tenants EXCEPT ![req] = new]
                    /\ \/ new = WithFinalizer(base)
                       \/ new = WithStatus(base, ProvisionedStatus(req, base, icache[req]))
                       \/ new = WithStatus(base, FailedStatus(req, base))
                       \/ new = WithStatus(base, TerminatingStatus(base))
                       \/ new = Nil
        BY <1>1, <1>3 DEF WorkerStep, AddFinalizer, ReconcileNamespace, ReconcileChild,
           WriteStatus, CountFails, Fail, Terminate, Teardown, Release, api
  <2>3. t = req /\ tenants'[t] = new /\ new # Nil /\ base # Nil
        BY <1>1, <2>1, <2>2, NilAssumption
  <2>4. base.status \in TenantStatus
        BY <2>1 DEF TenantObject
  <2>5. Published(base)
        BY <2>1, <2>3 DEF PublishedOK
  <2>6. CASE new = WithFinalizer(base)
        BY <2>1, <2>3, <2>5, <2>6 DEF WithFinalizer, TenantObject
  <2>7. CASE new = WithStatus(base, ProvisionedStatus(req, base, icache[req]))
        BY <2>1, <2>3, <2>7 DEF WithStatus, TenantObject, ProvisionedStatus
  <2>8. CASE new = WithStatus(base, FailedStatus(req, base))
    <3>1. FailedStatus(req, base).namespace = NamespaceName(req, base.spec)
          BY <2>4 DEF FailedStatus, TenantStatus
    <3> QED BY <2>1, <2>3, <2>8, <3>1 DEF WithStatus, TenantObject
  <2>9. CASE new = WithStatus(base, TerminatingStatus(base))
    <3>1. TerminatingStatus(base).namespace = base.status.namespace
          BY <2>4 DEF TerminatingStatus, TenantStatus
    <3> QED BY <2>1, <2>3, <2>5, <2>9, <3>1 DEF WithStatus, TenantObject
  <2> QED BY <2>2, <2>3, <2>6, <2>7, <2>8, <2>9
<1>4. UNCHANGED tenants \/ Users \/ \E up \in BOOLEAN : WorkerStep(up)
      BY DEF Next, Reconcile, Resync, Informers, CacheTenant, CacheInventory,
         CacheNamespace, CacheChild, ClusterControllers, CollectNamespace, CollectChild,
         NamespaceGone, Upsets, AdminCreatesNamespace, AdminDeletesNamespace,
         AdminDeletesChild, Restart, api, vars
<1> QED BY <1>1, <1>2, <1>3, <1>4

-----------------------------------------------------------------------------
\* The initial states map, and every step is one of the lifecycle or a stutter.

LEMMA InitImplements == Init => Lifecycle!Init
<1> SUFFICES ASSUME Init PROVE Lifecycle!Init
    OBVIOUS
<1>1. \A t \in Tenants : LifeOf(tenants[t]) = Lifecycle!NoTenant
      BY LifeOfNil DEF Init
<1>2. \A n \in Namespaces : PlaceOf(namespaces[n]) = Lifecycle!NoPlace
      BY PlaceOfNil DEF Init
<1> QED BY <1>1, <1>2 DEF Init, Lifecycle!Init

LEMMA StepImplements ==
    ASSUME NamesDistinct, IndInv, PublishedOK, [Next]_vars
    PROVE  [Lifecycle!Next]_(Lifecycle!vars)
<1>0. TypeOK
      BY DEF IndInv
<1>1. ASSUME NEW t \in Tenants, NEW c \in 0 .. MaxInventory, ChangeInventory(t, c)
      PROVE  Lifecycle!Next
      BY <1>1, Disturbs DEF ChangeInventory
<1>2. CASE Users
      BY <1>0, <1>1, <1>2, CreateIsCreate, UpdateIsStutter, DeleteIsDelete DEF Users
<1>3. CASE \E t \in Tenants : Reconcile(t) \/ Resync(t)
      BY <1>3, Stutter DEF Reconcile, Resync, api, bounds
<1>4. CASE \E up \in BOOLEAN : WorkerStep(up)
      BY <1>0, <1>4, FailedCallIsDisturbance, WorkerImplements
<1>5. CASE Informers
      BY <1>5, Stutter
      DEF Informers, CacheTenant, CacheInventory, CacheNamespace, CacheChild, api, bounds
<1>6. CASE ClusterControllers
      BY <1>6, ClusterImplements
<1>7. CASE Upsets
      BY <1>0, <1>7, UpsetsImplement
<1>8. CASE UNCHANGED vars
      BY <1>8, Stutter DEF vars, api, bounds
<1> QED BY <1>2, <1>3, <1>4, <1>5, <1>6, <1>7, <1>8 DEF Next

\* Where no two tenants can want one namespace, every behaviour of the Tenant
\* reconciler is one of the abstract lifecycle, for any number of tenants,
\* recreations, spec edits and upsets: its caches, queue and retries can never
\* provision for a Tenant that is gone or unguarded, publish a second name, or
\* evict the namespace of a live Tenant.
THEOREM ReconcilerImplementsLifecycle ==
    ASSUME NamesDistinct
    PROVE  Spec => ImplementsLifecycle
<1>1. Init => PublishedOK
      BY DEF Init, PublishedOK
<1>2. IndInv /\ PublishedOK /\ [Next]_vars => PublishedOK'
      BY PublishedStep DEF IndInv
<1>3. IndInv /\ PublishedOK /\ [Next]_vars => [Lifecycle!Next]_(Lifecycle!vars)
      BY StepImplements
<1> QED BY <1>1, <1>2, <1>3, InitImplements, InductiveInvariant, PTL
        DEF Spec, ImplementsLifecycle, Lifecycle!Spec
=============================================================================
