---------------------------- MODULE TenantProofs ----------------------------
(***************************************************************************)
(* Machine-checked proofs about the Tenant reconciler, for any number of   *)
(* tenants, specs and upsets.                                              *)
(***************************************************************************)
EXTENDS Tenant, CommonProofs

-----------------------------------------------------------------------------
\* Lemmas about the operators the model is built from.

\* The namespace of a tenant under any spec is one of the modelled ones.
LEMMA NamespaceNameType ==
    \A t \in Tenants, s \in Specs : NamespaceName(t, s) \in Namespaces
BY DEF Namespaces

\* A new Tenant has an empty status of the right type.
LEMMA NewTenantType ==
    ASSUME NEW s \in Specs, NEW u \in Nat
    PROVE  NewTenant(s, u) \in TenantObject
BY DEF NewTenant, NewStatus, TenantObject, TenantStatus, Phases, ConditionStatus

\* Edits of a Tenant keep its type.
LEMMA EditTypes ==
    ASSUME NEW o \in TenantObject, NEW s \in Specs, NEW st \in TenantStatus
    PROVE  /\ WithSpec(o, s) \in TenantObject
           /\ MarkDeleting(o) \in TenantObject
           /\ WithFinalizer(o) \in TenantObject
           /\ WithStatus(o, st) \in TenantObject
<1>1. PICK g \in Nat : g = o.gen + 1
      BY DEF TenantObject
<1>2. /\ WithSpec(o, s) = [o EXCEPT !.spec = s, !.gen = g]
      /\ MarkDeleting(o) = [o EXCEPT !.deleting = TRUE, !.gen = g]
      BY <1>1 DEF WithSpec, MarkDeleting
<1>3. /\ [o EXCEPT !.spec = s, !.gen = g] \in TenantObject
      /\ [o EXCEPT !.deleting = TRUE, !.gen = g] \in TenantObject
      BY DEF TenantObject
<1>4. WithFinalizer(o) \in TenantObject /\ WithStatus(o, st) \in TenantObject
      BY DEF WithFinalizer, WithStatus, TenantObject
<1> QED BY <1>2, <1>3, <1>4

\* The status of each outcome has its type.
LEMMA StatusTypes ==
    ASSUME NEW t \in Tenants, NEW o \in TenantObject, NEW c \in Nat
    PROVE  /\ ProvisionedStatus(t, o, c) \in TenantStatus
           /\ FailedStatus(t, o) \in TenantStatus
           /\ TerminatingStatus(o) \in TenantStatus
<1> DEFINE C == [ConditionTypes -> ConditionStatus]
<1>1. /\ o.status \in TenantStatus
      /\ o.spec \in Specs
      /\ o.gen \in Nat
      BY DEF TenantObject
<1>2. o.status.conditions \in C
      BY <1>1 DEF TenantStatus
<1>3. "Ready" \in ConditionTypes /\ "Progressing" \in ConditionTypes
        /\ "Degraded" \in ConditionTypes
      BY DEF ConditionTypes
<1>4. MarkTrue(o.status.conditions, "Progressing") \in C
      BY <1>2, <1>3, ConditionHelpersType
<1>5. NamespaceName(t, o.spec) \in Namespaces
      BY <1>1, NamespaceNameType
<1>6. ProvisionedStatus(t, o, c) \in TenantStatus
  <2> DEFINE c0 == MarkTrue(o.status.conditions, "Progressing")
             c1 == MarkFalse(Remove(c0, "Degraded"), "Progressing")
             p  == IF o.spec.suspended THEN "Suspended" ELSE "Active"
             cs == IF o.spec.suspended THEN MarkFalse(c1, "Ready")
                                       ELSE MarkTrue(c1, "Ready")
  <2>1. Remove(c0, "Degraded") \in C
        BY <1>3, <1>4, ConditionHelpersType
  <2>2. c1 \in C
        BY <1>3, <2>1, ConditionHelpersType
  <2>3. cs \in C
        BY <1>3, <2>2, ConditionHelpersType
  <2>4. p \in Phases
        BY DEF Phases
  <2>5. ProvisionedStatus(t, o, c) =
            [phase |-> p, conditions |-> cs, observedGeneration |-> o.gen,
             namespace |-> NamespaceName(t, o.spec), children |-> c]
        BY DEF ProvisionedStatus
  <2> HIDE DEF p, cs
  <2> QED BY <1>1, <1>5, <2>3, <2>4, <2>5 DEF TenantStatus
<1>7. FailedStatus(t, o) \in TenantStatus
  <2> DEFINE c0 == MarkTrue(o.status.conditions, "Progressing")
             cs == MarkFalse(MarkTrue(c0, "Degraded"), "Ready")
  <2>1. MarkTrue(c0, "Degraded") \in C
        BY <1>3, <1>4, ConditionHelpersType
  <2>2. cs \in C
        BY <1>3, <2>1, ConditionHelpersType
  <2>3. FailedStatus(t, o) =
            [o.status EXCEPT !.phase = "Failed", !.conditions = cs,
                             !.observedGeneration = o.gen,
                             !.namespace = NamespaceName(t, o.spec)]
        BY DEF FailedStatus
  <2>4. "Failed" \in Phases
        BY DEF Phases
  <2> HIDE DEF cs
  <2> QED BY <1>1, <1>5, <2>2, <2>3, <2>4 DEF TenantStatus
<1>8. TerminatingStatus(o) \in TenantStatus
  <2> DEFINE cs == MarkFalse(o.status.conditions, "Ready")
  <2>1. cs \in C
        BY <1>2, <1>3, ConditionHelpersType
  <2>2. TerminatingStatus(o) =
            [o.status EXCEPT !.phase = "Terminating", !.conditions = cs]
        BY <1>1 DEF TerminatingStatus, TenantStatus
  <2>3. "Terminating" \in Phases
        BY DEF Phases
  <2> HIDE DEF cs
  <2> QED BY <1>1, <2>1, <2>2, <2>3 DEF TenantStatus
<1> QED BY <1>6, <1>7, <1>8

\* A desired managed object has its type.
LEMMA DesiredChildType ==
    ASSUME NEW t \in Tenants, NEW o \in TenantObject, NEW k \in Kinds
    PROVE  DesiredChild(t, o, k) \in ChildObject(k) \cup {Nil}
<1>1. o.uid \in Nat /\ o.spec \in Specs
      BY DEF TenantObject
<1>2. OwnerRef(t, o) \in Owner
      BY <1>1 DEF OwnerRef, Owner
<1> QED BY <1>1, <1>2 DEF DesiredChild, ChildObject

\* The controller a watch event names is a tenant or nobody.
LEMMA ControllerType ==
    /\ \A o \in NamespaceObject \cup {Nil} : Controller(o) \in Tenants \cup {Nil}
    /\ \A k \in Kinds : \A o \in ChildObject(k) \cup {Nil} :
            Controller(o) \in Tenants \cup {Nil}
BY NilAssumption DEF Controller, NamespaceObject, ChildObject, Owner

-----------------------------------------------------------------------------
\* Type correctness.

\* The two kinds of write keep the stores and their news well typed.
LEMMA WriteNamespaceType ==
    ASSUME ApiTypeOK, CacheTypeOK,
           NEW n \in Namespaces, NEW o \in NamespaceObject \cup {Nil},
           WriteNamespace(n, o)
    PROVE  /\ namespaces' \in [Namespaces -> NamespaceObject \cup {Nil}]
           /\ nsnews' \in [Namespaces -> SUBSET (Tenants \cup {Nil})]
           /\ children' = children
           /\ knews' = knews
<1>1. namespaces[n] \in NamespaceObject \cup {Nil}
      BY DEF ApiTypeOK
<1>2. /\ Controller(o) \in Tenants \cup {Nil}
      /\ Controller(namespaces[n]) \in Tenants \cup {Nil}
      BY <1>1, ControllerType
<1> QED BY <1>2 DEF WriteNamespace, ApiTypeOK, CacheTypeOK

LEMMA WriteChildType ==
    ASSUME ApiTypeOK, CacheTypeOK,
           NEW n \in Namespaces, NEW k \in Kinds, NEW o \in ChildObject(k) \cup {Nil},
           WriteChild(n, k, o)
    PROVE  /\ ChildTypeOK(children')
           /\ knews' \in [Namespaces -> [Kinds -> SUBSET (Tenants \cup {Nil})]]
           /\ namespaces' = namespaces
           /\ nsnews' = nsnews
<1>1. children[n][k] \in ChildObject(k) \cup {Nil}
      BY DEF ApiTypeOK, ChildTypeOK
<1>2. /\ Controller(o) \in Tenants \cup {Nil}
      /\ Controller(children[n][k]) \in Tenants \cup {Nil}
      BY <1>1, ControllerType
<1>3. knews' \in [Namespaces -> [Kinds -> SUBSET (Tenants \cup {Nil})]]
      BY <1>2 DEF WriteChild, CacheTypeOK
<1>4. ChildTypeOK(children')
  <2>1. children = [m \in Namespaces |-> [j \in Kinds |-> children[m][j]]]
        BY DEF ApiTypeOK, ChildTypeOK
  <2>2. \A m \in Namespaces, j \in Kinds :
            children'[m][j] = IF m = n /\ j = k THEN o ELSE children[m][j]
        BY <2>1 DEF WriteChild
  <2>3. children' = [m \in Namespaces |-> [j \in Kinds |-> children'[m][j]]]
        BY <2>1 DEF WriteChild
  <2>4. \A m \in Namespaces, j \in Kinds : children'[m][j] \in ChildObject(j) \cup {Nil}
        BY <2>2 DEF ApiTypeOK, ChildTypeOK
  <2> QED BY <2>3, <2>4 DEF ChildTypeOK
<1> QED BY <1>3, <1>4 DEF WriteChild

\* What a worker step never touches.
CacheFrame == UNCHANGED <<tcache, nscache, kcache, icache, uids>>

\* A managed object is left as it was, removed, or made what is desired.
LEMMA ApplyChildCases ==
    ASSUME NEW n, NEW k
    PROVE  LET r == ApplyChild(n, k)
           IN  r.object \in {Nil, DesiredChild(req, base, k), children[n][k]}
BY CreateOrUpdateCases DEF ApplyChild, Removed, Ok, Failed

\* Every step keeps the types.
LEMMA TypeStep == TypeOK /\ [Next]_vars => TypeOK'
<1> SUFFICES ASSUME TypeOK, [Next]_vars PROVE TypeOK'
    OBVIOUS
<1>1. ASSUME NEW t \in Tenants, NEW s \in Specs, CreateTenant(t, s)
      PROVE  TypeOK'
  <2>1. NewTenant(s, uids + 1) \in TenantObject
        BY NewTenantType DEF TypeOK
  <2> QED BY <1>1, <2>1 DEF CreateTenant, TypeOK, ApiTypeOK, CacheTypeOK,
                            WorkerTypeOK, caches, news, worker
<1>2. ASSUME NEW t \in Tenants, NEW s \in Specs, UpdateTenant(t, s)
      PROVE  TypeOK'
  <2>1. tenants[t] \in TenantObject
        BY <1>2 DEF UpdateTenant, TypeOK, ApiTypeOK
  <2>2. WithSpec(tenants[t], s) \in TenantObject
        BY <2>1, EditTypes DEF TenantObject
  <2> QED BY <1>2, <2>2 DEF UpdateTenant, TypeOK, ApiTypeOK, CacheTypeOK,
                            WorkerTypeOK, caches, news, worker, bounds
<1>3. ASSUME NEW t \in Tenants, DeleteTenant(t)
      PROVE  TypeOK'
  <2>1. tenants[t] \in TenantObject
        BY <1>3 DEF DeleteTenant, TypeOK, ApiTypeOK
  <2>2. MarkDeleting(tenants[t]) \in TenantObject
        BY <2>1, EditTypes DEF TenantObject
  <2> QED BY <1>3, <2>2 DEF DeleteTenant, TypeOK, ApiTypeOK, CacheTypeOK,
                            WorkerTypeOK, caches, news, worker, bounds
<1>4. ASSUME NEW t \in Tenants, NEW c \in 0..MaxInventory, ChangeInventory(t, c)
      PROVE  TypeOK'
      BY <1>4, BoundsAssumption DEF ChangeInventory, TypeOK, ApiTypeOK, CacheTypeOK,
                            WorkerTypeOK, caches, news, worker
<1>5. ASSUME NEW t \in Tenants, Reconcile(t)
      PROVE  TypeOK'
  <2>1. CASE tcache[t] = Nil
        BY <1>5, <2>1 DEF Reconcile, NotFound, ClearPhase, TypeOK, ApiTypeOK, CacheTypeOK,
                            WorkerTypeOK, api, caches, news, worker, bounds, Phases
  <2>2. CASE tcache[t] # Nil
    <3>1. tcache[t] \in TenantObject
          BY <2>2 DEF TypeOK, CacheTypeOK
    <3>2. FirstStep(tcache[t]) \in Steps \ {"teardown"}
          BY DEF FirstStep, Steps, ProvisionSteps, FinalizeSteps
    <3>3. WorkerTypeOK'
          BY <1>5, <2>2, <3>1, <3>2 DEF Reconcile, TypeOK, WorkerTypeOK
    <3> QED BY <1>5, <2>2, <3>3 DEF Reconcile, TypeOK, ApiTypeOK, CacheTypeOK,
                            api, caches, news, bounds
  <2> QED BY <2>1, <2>2
<1>6. ASSUME NEW t \in Tenants, Resync(t)
      PROVE  TypeOK'
      BY <1>6 DEF Resync, TypeOK, ApiTypeOK, CacheTypeOK,
                            WorkerTypeOK, api, caches, news, worker, bounds
<1>7. ASSUME NEW up \in BOOLEAN, WorkerStep(up)
      PROVE  TypeOK'
  <2>1. /\ CacheFrame
        /\ upsets' \in Nat
        BY <1>7 DEF WorkerStep, CacheFrame, TypeOK, caches
  <2>2. CASE AddFinalizer(up)
    <3>1. pc # "idle" /\ req \in Tenants /\ base \in TenantObject
          BY <2>2 DEF AddFinalizer, TypeOK, WorkerTypeOK
    <3>2. WithFinalizer(base) \in TenantObject
          BY <3>1, EditTypes DEF TenantObject
    <3> QED BY <2>1, <2>2, <3>1, <3>2 DEF AddFinalizer, Return, Retry, Idle, NoWrite,
                 CacheFrame, TypeOK, ApiTypeOK, CacheTypeOK, WorkerTypeOK, news
  <2>3. CASE ReconcileNamespace(up)
    <3> DEFINE n == TargetNamespace
               own == OwnerRef(req, base)
               des == IF nscache[n] = Nil
                      THEN [terminating |-> FALSE, owner |-> own]
                      ELSE [nscache[n] EXCEPT !.owner = own]
               res == CreateOrUpdate(nscache[n], namespaces[n], nsnews[n] = {}, Nil, des)
    <3>1. pc # "idle" /\ req \in Tenants /\ base \in TenantObject
          BY <2>3 DEF ReconcileNamespace, TypeOK, WorkerTypeOK
    <3>2. n \in Namespaces
          BY <3>1, NamespaceNameType DEF TargetNamespace, TenantObject
    <3>3. own \in Owner
          BY <3>1 DEF OwnerRef, Owner, TenantObject
    <3>4. nscache[n] \in NamespaceObject \cup {Nil} /\ namespaces[n] \in NamespaceObject \cup {Nil}
          BY <3>2 DEF TypeOK, ApiTypeOK, CacheTypeOK
    <3>5. des \in NamespaceObject
      <4> HIDE DEF own, n
      <4> QED BY <3>3, <3>4 DEF NamespaceObject
    <3>6. res.object \in NamespaceObject \cup {Nil}
      <4> HIDE DEF des, n
      <4> QED BY <3>4, <3>5, CreateOrUpdateCases
    <3>7. \/ WriteNamespace(n, res.object) /\ pc' = "quota"
          \/ NoWrite /\ pc' = "fail"
          BY <2>3 DEF ReconcileNamespace
    <3>8. /\ namespaces' \in [Namespaces -> NamespaceObject \cup {Nil}]
          /\ nsnews' \in [Namespaces -> SUBSET (Tenants \cup {Nil})]
          /\ children' = children
          /\ knews' = knews
      <4> HIDE DEF n, res
      <4> QED BY <3>2, <3>6, <3>7, WriteNamespaceType DEF TypeOK, ApiTypeOK, CacheTypeOK,
                 NoWrite, news
    <3>9. WorkerTypeOK'
          BY <2>3, <3>1, <3>7 DEF ReconcileNamespace, WorkerTypeOK, Steps, Kinds,
                 ProvisionSteps
    <3> QED BY <2>1, <2>3, <3>8, <3>9 DEF ReconcileNamespace, CacheFrame, TypeOK,
                 ApiTypeOK, CacheTypeOK
  <2>4. ASSUME NEW k \in Kinds, ReconcileChild(k, up)
        PROVE  TypeOK'
    <3> DEFINE n == TargetNamespace
               des == DesiredChild(req, base, k)
               res == ApplyChild(n, k)
    <3>1. pc # "idle" /\ req \in Tenants /\ base \in TenantObject
          BY <2>4 DEF ReconcileChild, TypeOK, WorkerTypeOK, Kinds
    <3>2. n \in Namespaces
          BY <3>1, NamespaceNameType DEF TargetNamespace, TenantObject
    <3>3. des \in ChildObject(k) \cup {Nil}
          BY <3>1, DesiredChildType
    <3>4. children[n][k] \in ChildObject(k) \cup {Nil}
          BY <3>2 DEF TypeOK, ApiTypeOK, ChildTypeOK
    <3>5. res.object = Nil \/ res.object = des \/ res.object = children[n][k]
          BY ApplyChildCases
    <3>6. \/ WriteChild(n, k, res.object) /\ pc' = StepAfter(k)
          \/ NoWrite /\ pc' = "fail"
          BY <2>4 DEF ReconcileChild
    <3>7. /\ ChildTypeOK(children')
          /\ knews' \in [Namespaces -> [Kinds -> SUBSET (Tenants \cup {Nil})]]
          /\ namespaces' = namespaces
          /\ nsnews' = nsnews
      <4> HIDE DEF n, res, des
      <4>1. res.object \in ChildObject(k) \cup {Nil}
            BY <3>3, <3>4, <3>5
      <4>2. CASE WriteChild(n, k, res.object)
            BY <3>2, <4>1, <4>2, WriteChildType DEF TypeOK
      <4>3. CASE NoWrite
            BY <4>3 DEF TypeOK, ApiTypeOK, CacheTypeOK, NoWrite, news
      <4> QED BY <3>6, <4>2, <4>3
    <3>8. WorkerTypeOK'
          BY <2>4, <3>1, <3>6 DEF ReconcileChild, WorkerTypeOK, Steps, Kinds,
                 ProvisionSteps, StepAfter
    <3> QED BY <2>1, <2>4, <3>7, <3>8 DEF ReconcileChild, CacheFrame, TypeOK,
                 ApiTypeOK, CacheTypeOK
  <2>5. CASE WriteStatus(up)
    <3>1. pc # "idle" /\ req \in Tenants /\ base \in TenantObject
          BY <2>5 DEF WriteStatus, TypeOK, WorkerTypeOK
    <3> DEFINE st == ProvisionedStatus(req, base, icache[req])
    <3>2. st \in TenantStatus
          BY <3>1, StatusTypes DEF TypeOK, CacheTypeOK
    <3>3. WithStatus(base, st) \in TenantObject /\ st.phase \in Phases
      <4> HIDE DEF st
      <4> QED BY <3>1, <3>2, EditTypes DEF TenantObject, TenantStatus
    <3>4. /\ \/ tenants' = [tenants EXCEPT ![req] = WithStatus(base, st)]
             \/ tenants' = tenants
          /\ gauge' = [gauge EXCEPT ![req] = st.phase]
          BY <2>5 DEF WriteStatus, SetPhase
    <3>5. /\ Idle
          /\ queue' \subseteq queue \cup {req}
          /\ resync' \subseteq resync \cup {req}
          /\ NoWrite
          /\ inventory' = inventory
          BY <2>5 DEF WriteStatus, Return, Retry, RequeueAfter
    <3> HIDE DEF st
    <3> QED BY <2>1, <3>1, <3>3, <3>4, <3>5 DEF NoWrite, Idle,
                 CacheFrame, TypeOK, ApiTypeOK, CacheTypeOK, WorkerTypeOK, news
  <2>6. CASE CountFails(up)
        BY <2>1, <2>6 DEF CountFails, api, news, CacheFrame, TypeOK, ApiTypeOK,
                 CacheTypeOK, WorkerTypeOK, Steps, ProvisionSteps
  <2>7. CASE Fail(up)
    <3>1. pc # "idle" /\ req \in Tenants /\ base \in TenantObject
          BY <2>7 DEF Fail, TypeOK, WorkerTypeOK
    <3>2. FailedStatus(req, base) \in TenantStatus
          BY <3>1, StatusTypes DEF TypeOK, CacheTypeOK
    <3>3. WithStatus(base, FailedStatus(req, base)) \in TenantObject
          BY <3>1, <3>2, EditTypes DEF TenantObject
    <3> QED BY <2>1, <2>7, <3>1, <3>3 DEF Fail, SetPhase, Retry, Idle, NoWrite,
                 CacheFrame, TypeOK, ApiTypeOK, CacheTypeOK, WorkerTypeOK, news, Phases
  <2>8. CASE Terminate(up)
    <3>1. pc # "idle" /\ req \in Tenants /\ base \in TenantObject
          BY <2>8 DEF Terminate, TypeOK, WorkerTypeOK
    <3>2. TerminatingStatus(base) \in TenantStatus
          BY <3>1, StatusTypes DEF TypeOK, CacheTypeOK
    <3>3. WithStatus(base, TerminatingStatus(base)) \in TenantObject
          BY <3>1, <3>2, EditTypes DEF TenantObject
    <3>4. WorkerTypeOK'
      <4>1. (base.status.namespace # Nil /\ pc' = "teardown") \/ pc' = "release"
            BY <2>8 DEF Terminate, TearsDown
      <4>2. /\ base' = base \/ base' = WithStatus(base, TerminatingStatus(base))
            /\ req' = req
            BY <2>8 DEF Terminate
      <4>3. WithStatus(base, TerminatingStatus(base)).status.namespace
                = base.status.namespace
            BY <3>1 DEF WithStatus, TerminatingStatus, TenantObject, TenantStatus
      <4> QED BY <3>1, <3>3, <4>1, <4>2, <4>3 DEF WorkerTypeOK, Steps, FinalizeSteps
    <3> QED BY <2>1, <2>8, <3>1, <3>3, <3>4 DEF Terminate, SetPhase, NoWrite,
                 CacheFrame, TypeOK, ApiTypeOK, CacheTypeOK, news, Phases
  <2>9. CASE Teardown(up)
    <3> DEFINE n == base.status.namespace
    <3>1. pc # "idle" /\ req \in Tenants /\ base \in TenantObject
          BY <2>9 DEF Teardown, TypeOK, WorkerTypeOK
    <3>2. /\ namespaces' \in [Namespaces -> NamespaceObject \cup {Nil}]
          /\ nsnews' \in [Namespaces -> SUBSET (Tenants \cup {Nil})]
          /\ children' = children
          /\ knews' = knews
      <4>1. CASE NoWrite
            BY <4>1 DEF NoWrite, TypeOK, ApiTypeOK, CacheTypeOK, news
      <4>2. CASE ~NoWrite
        <5>1. WriteNamespace(n, [namespaces[n] EXCEPT !.terminating = TRUE])
                /\ namespaces[n] # Nil
              BY <2>9, <4>2 DEF Teardown, DeleteNamespace
        <5>2. n \in Namespaces
              BY <2>9, <3>1 DEF Teardown, TypeOK, WorkerTypeOK, TenantObject, TenantStatus
        <5>3. [namespaces[n] EXCEPT !.terminating = TRUE] \in NamespaceObject
              BY <5>1, <5>2 DEF TypeOK, ApiTypeOK, NamespaceObject
        <5> HIDE DEF n
        <5> QED BY <5>1, <5>2, <5>3, WriteNamespaceType DEF TypeOK
      <4> QED BY <4>1, <4>2
    <3>3. WorkerTypeOK' /\ queue' \subseteq Tenants
          BY <2>9, <3>1 DEF Teardown, WorkerTypeOK, Steps, FinalizeSteps, Retry, Idle, TypeOK
    <3> QED BY <2>1, <2>9, <3>2, <3>3 DEF Teardown, CacheFrame, TypeOK, ApiTypeOK,
                 CacheTypeOK
  <2>10. CASE Release(up)
    <3>1. pc # "idle" /\ req \in Tenants /\ base \in TenantObject
          BY <2>10 DEF Release, TypeOK, WorkerTypeOK
    <3> QED BY <2>1, <2>10, <3>1 DEF Release, ClearPhase, Return, Retry, Idle, NoWrite,
                 CacheFrame, TypeOK, ApiTypeOK, CacheTypeOK, WorkerTypeOK, news, Phases
  <2> QED BY <1>7, <2>2, <2>3, <2>4, <2>5, <2>6, <2>7, <2>8, <2>9, <2>10 DEF WorkerStep
<1>8. ASSUME NEW t \in Tenants, CacheTenant(t)
      PROVE  TypeOK'
      BY <1>8 DEF CacheTenant, TypeOK, ApiTypeOK, CacheTypeOK, WorkerTypeOK, api, news,
                  worker, bounds
<1>9. ASSUME NEW t \in Tenants, CacheInventory(t)
      PROVE  TypeOK'
      BY <1>9 DEF CacheInventory, TypeOK, ApiTypeOK, CacheTypeOK, WorkerTypeOK, api, news,
                  worker, bounds
<1>10. ASSUME NEW n \in Namespaces, CacheNamespace(n)
       PROVE  TypeOK'
      BY <1>10 DEF CacheNamespace, TypeOK, ApiTypeOK, CacheTypeOK, WorkerTypeOK, api,
                  worker, bounds
<1>11. ASSUME NEW n \in Namespaces, NEW k \in Kinds, CacheChild(n, k)
       PROVE  TypeOK'
  <2>1. ChildTypeOK(kcache')
    <3>1. kcache = [m \in Namespaces |-> [j \in Kinds |-> kcache[m][j]]]
          BY DEF TypeOK, CacheTypeOK, ChildTypeOK
    <3>2. \A m \in Namespaces, j \in Kinds :
            kcache'[m][j] = IF m = n /\ j = k THEN children[n][k] ELSE kcache[m][j]
          BY <1>11, <3>1 DEF CacheChild
    <3>3. kcache' = [m \in Namespaces |-> [j \in Kinds |-> kcache'[m][j]]]
          BY <1>11, <3>1 DEF CacheChild
    <3>4. \A m \in Namespaces, j \in Kinds : kcache'[m][j] \in ChildObject(j) \cup {Nil}
          BY <3>2 DEF TypeOK, ApiTypeOK, CacheTypeOK, ChildTypeOK
    <3> QED BY <3>3, <3>4 DEF ChildTypeOK
  <2>2. knews' \in [Namespaces -> [Kinds -> SUBSET (Tenants \cup {Nil})]]
        BY <1>11 DEF CacheChild, TypeOK, CacheTypeOK
  <2>3. queue' \subseteq Tenants
    <3>1. knews[n][k] \subseteq Tenants \cup {Nil}
          BY DEF TypeOK, CacheTypeOK
    <3> QED BY <1>11, <3>1 DEF CacheChild, TypeOK
  <2> QED BY <1>11, <2>1, <2>2, <2>3 DEF CacheChild, TypeOK, ApiTypeOK, CacheTypeOK,
                  WorkerTypeOK, api, worker, bounds
<1>12. ASSUME NEW n \in Namespaces, CollectNamespace(n) \/ AdminDeletesNamespace(n)
       PROVE  TypeOK'
  <2>1. /\ namespaces[n] # Nil
        /\ WriteNamespace(n, [namespaces[n] EXCEPT !.terminating = TRUE])
        BY <1>12 DEF CollectNamespace, AdminDeletesNamespace, Admits
  <2>2. [namespaces[n] EXCEPT !.terminating = TRUE] \in NamespaceObject
        BY <2>1 DEF TypeOK, ApiTypeOK, NamespaceObject
  <2>3. /\ namespaces' \in [Namespaces -> NamespaceObject \cup {Nil}]
        /\ nsnews' \in [Namespaces -> SUBSET (Tenants \cup {Nil})]
        /\ children' = children
        /\ knews' = knews
        BY <2>1, <2>2, WriteNamespaceType DEF TypeOK
  <2>4. upsets' \in Nat
        BY <1>12 DEF CollectNamespace, AdminDeletesNamespace, Upset, bounds, TypeOK
  <2> QED BY <1>12, <2>3, <2>4 DEF CollectNamespace, AdminDeletesNamespace, TypeOK,
                  ApiTypeOK, CacheTypeOK, WorkerTypeOK, caches, worker, bounds
<1>13. ASSUME NEW n \in Namespaces, NamespaceGone(n) \/ AdminCreatesNamespace(n)
       PROVE  TypeOK'
  <2>1. \/ WriteNamespace(n, Nil)
        \/ WriteNamespace(n, [terminating |-> FALSE, owner |-> Nil])
        BY <1>13 DEF NamespaceGone, AdminCreatesNamespace
  <2>2. [terminating |-> FALSE, owner |-> Nil] \in NamespaceObject
        BY DEF NamespaceObject
  <2>3. /\ namespaces' \in [Namespaces -> NamespaceObject \cup {Nil}]
        /\ nsnews' \in [Namespaces -> SUBSET (Tenants \cup {Nil})]
        /\ children' = children
        /\ knews' = knews
        BY <2>1, <2>2, WriteNamespaceType DEF TypeOK
  <2>4. upsets' \in Nat
        BY <1>13 DEF NamespaceGone, AdminCreatesNamespace, Upset, bounds, TypeOK
  <2> QED BY <1>13, <2>3, <2>4 DEF NamespaceGone, AdminCreatesNamespace, TypeOK,
                  ApiTypeOK, CacheTypeOK, WorkerTypeOK, caches, worker, bounds
<1>14. ASSUME NEW n \in Namespaces, NEW k \in Kinds,
              CollectChild(n, k) \/ AdminDeletesChild(n, k)
       PROVE  TypeOK'
  <2>1. WriteChild(n, k, Nil)
        BY <1>14 DEF CollectChild, AdminDeletesChild
  <2>2. /\ ChildTypeOK(children')
        /\ knews' \in [Namespaces -> [Kinds -> SUBSET (Tenants \cup {Nil})]]
        /\ namespaces' = namespaces
        /\ nsnews' = nsnews
        BY <2>1, WriteChildType DEF TypeOK
  <2>3. upsets' \in Nat
        BY <1>14 DEF CollectChild, AdminDeletesChild, Upset, bounds, TypeOK
  <2> QED BY <1>14, <2>2, <2>3 DEF CollectChild, AdminDeletesChild, TypeOK,
                  ApiTypeOK, CacheTypeOK, WorkerTypeOK, caches, worker, bounds
<1>15. ASSUME Restart
       PROVE  TypeOK'
      BY <1>15 DEF Restart, Upset, InitialEvents, Idle, TypeOK, ApiTypeOK, CacheTypeOK,
                  WorkerTypeOK, api, Phases
<1>16. CASE UNCHANGED vars
      BY <1>16 DEF vars, TypeOK, ApiTypeOK, CacheTypeOK, WorkerTypeOK, api, caches, news,
                  worker, bounds
<1> QED BY <1>1, <1>2, <1>3, <1>4, <1>5, <1>6, <1>7, <1>8, <1>9, <1>10, <1>11, <1>12,
           <1>13, <1>14, <1>15, <1>16
        DEF Next, Users, Informers, ClusterControllers, Upsets

\* The initial state is well typed.
LEMMA TypeInit == Init => TypeOK
BY DEF Init, TypeOK, ApiTypeOK, CacheTypeOK, WorkerTypeOK, ChildTypeOK, Phases

\* Type correctness: whatever the specs, the upsets and the staleness of the
\* caches, every object the controller writes is well formed, and the worker
\* holds a request and a Tenant exactly while it reconciles.
THEOREM TypeCorrect == Spec => []TypeOK
<1>1. Init => TypeOK
      BY TypeInit
<1>2. TypeOK /\ [Next]_vars => TypeOK'
      BY TypeStep
<1> QED BY <1>1, <1>2, PTL DEF Spec

-----------------------------------------------------------------------------
\* What any step may do, abstracted from the 24 actions.

\* A Tenant object is created with a fresh UID, edited without losing its
\* finalizer or its deletion mark, removed before it got a finalizer, or
\* released by the worker that holds its current version.
TenantMove(t) ==
    \/ tenants'[t] = tenants[t]
    \/ /\ tenants[t] = Nil /\ tenants'[t] # Nil
       /\ tenants'[t].uid = uids + 1 /\ uids' = uids + 1
       /\ ~tenants'[t].finalizer /\ ~tenants'[t].deleting
       /\ tenants'[t].status.namespace = Nil
    \/ /\ tenants[t] # Nil /\ tenants'[t] # Nil
       /\ tenants'[t].uid = tenants[t].uid
       /\ tenants[t].finalizer => tenants'[t].finalizer
       /\ tenants[t].deleting => tenants'[t].deleting
       /\ \/ tenants'[t].status.namespace = tenants[t].status.namespace
          \/ NameOf(tenants'[t].status.namespace, t)
    \/ tenants[t] # Nil /\ ~tenants[t].finalizer /\ tenants'[t] = Nil
    \/ /\ pc = "release" /\ t = req /\ tenants[t] = base /\ tenants'[t] = Nil
       /\ pc' = "idle" /\ tcache' = tcache

\* The Tenant cache stays or catches up, and nothing else moves then.
CacheMove(t) ==
    \/ tcache'[t] = tcache[t]
    \/ tcache'[t] = tenants[t] /\ tenants' = tenants /\ uids' = uids

\* The worker waits, returns, starts on a cached Tenant, or goes on with the
\* Tenant it holds within provisioning or within finalization.
WorkerMove ==
    \/ UNCHANGED <<pc, req, base>>
    \/ pc' = "idle" /\ req' = Nil
    \/ /\ pc = "idle" /\ req' \in Tenants /\ tcache[req'] # Nil
       /\ base' = tcache[req'] /\ pc' = FirstStep(tcache[req'])
       /\ UNCHANGED <<tenants, tcache, uids, namespaces>>
    \/ /\ pc # "idle" /\ req' = req /\ tcache' = tcache
       /\ base'.uid = base.uid /\ base'.deleting = base.deleting
       /\ base'.finalizer = base.finalizer
       /\ base'.status.namespace = base.status.namespace
       /\ \/ pc \in ProvisionSteps /\ pc' \in ProvisionSteps
          \/ pc \in FinalizeSteps /\ pc' \in FinalizeSteps

\* Only the namespace step of a provisioning writes an owner reference.
NamespaceMove(n) ==
    /\ \/ namespaces'[n] = namespaces[n]
       \/ namespaces'[n] = Nil
       \/ namespaces'[n] # Nil /\ namespaces'[n].owner = Nil
       \/ /\ namespaces[n] # Nil /\ namespaces'[n] # Nil
          /\ namespaces'[n].owner = namespaces[n].owner
       \/ /\ pc = "namespace" /\ n = NamespaceName(req, base.spec)
          /\ namespaces'[n] # Nil /\ namespaces'[n].owner = OwnerRef(req, base)
          /\ pc' \in ProvisionSteps
          /\ UNCHANGED <<tenants, tcache, uids>>
    /\ nsnews'[n] = {} =>
        \/ nscache'[n] = namespaces'[n]
        \/ nsnews[n] = {} /\ nscache'[n] = nscache[n] /\ namespaces'[n] = namespaces[n]

ChildMove(n, k) ==
    \/ children'[n][k] = children[n][k]
    \/ children'[n][k] = Nil
    \/ /\ pc \in Kinds /\ children'[n][k] # Nil
       /\ children'[n][k].owner = OwnerRef(req, base)
       /\ UNCHANGED <<tenants, uids>>

Moves ==
    /\ \A t \in Tenants : TenantMove(t) /\ CacheMove(t)
    /\ WorkerMove
    /\ \A n \in Namespaces : NamespaceMove(n) /\ \A k \in Kinds : ChildMove(n, k)
    /\ uids' \in Nat /\ uids <= uids'

\* The effect of the two kinds of write, and of none, in those terms.
LEMMA WriteNamespaceMove ==
    ASSUME TypeOK, NEW n \in Namespaces, NEW o,
           WriteNamespace(n, o), nscache' = nscache
    PROVE  /\ namespaces'[n] = o
           /\ \A m \in Namespaces \ {n} : namespaces'[m] = namespaces[m]
           /\ \A m \in Namespaces : nsnews'[m] = {} =>
                nsnews[m] = {} /\ namespaces'[m] = namespaces[m]
           /\ \A m \in Namespaces, k \in Kinds : children'[m][k] = children[m][k]
<1>1. namespaces \in [Namespaces -> NamespaceObject \cup {Nil}]
        /\ nsnews \in [Namespaces -> SUBSET (Tenants \cup {Nil})]
      BY DEF TypeOK, ApiTypeOK, CacheTypeOK
<1> QED BY <1>1 DEF WriteNamespace

LEMMA WriteChildMove ==
    ASSUME TypeOK, NEW n \in Namespaces, NEW k \in Kinds, NEW o,
           WriteChild(n, k, o)
    PROVE  \A m \in Namespaces, j \in Kinds :
            children'[m][j] = IF m = n /\ j = k THEN o ELSE children[m][j]
<1>1. children = [m \in Namespaces |-> [j \in Kinds |-> children[m][j]]]
      BY DEF TypeOK, ApiTypeOK, ChildTypeOK
<1> QED BY <1>1 DEF WriteChild

\* Every step makes only these moves.
LEMMA StepMoves == TypeOK /\ TypeOK' /\ [Next]_vars => Moves
<1> SUFFICES ASSUME TypeOK, TypeOK', [Next]_vars PROVE Moves
    OBVIOUS
<1> DEFINE Still == /\ \A n \in Namespaces : NamespaceMove(n)
                    /\ \A n \in Namespaces, k \in Kinds : ChildMove(n, k)
<1>a. uids \in Nat /\ uids' \in Nat
      BY DEF TypeOK
<1>b. ASSUME UNCHANGED <<namespaces, children, nsnews, nscache>> PROVE Still
      BY <1>b DEF NamespaceMove, ChildMove
<1>c. ASSUME UNCHANGED <<tenants, tcache>>
      PROVE  \A t \in Tenants : TenantMove(t) /\ CacheMove(t)
      BY <1>c DEF TenantMove, CacheMove
<1>d. ASSUME UNCHANGED <<pc, req, base>> PROVE WorkerMove
      BY <1>d DEF WorkerMove
<1>1. ASSUME NEW t \in Tenants, NEW s \in Specs, CreateTenant(t, s)
      PROVE  Moves
  <2>1. tenants' = [tenants EXCEPT ![t] = NewTenant(s, uids + 1)]
          /\ tenants[t] = Nil /\ uids' = uids + 1 /\ tcache' = tcache
        BY <1>1 DEF CreateTenant, caches
  <2>2. NewTenant(s, uids + 1) \in TenantObject
        BY <1>a, NewTenantType
  <2>3. \A u \in Tenants : TenantMove(u) /\ CacheMove(u)
        BY <2>1, <2>2, NilAssumption DEF TenantMove, CacheMove, NewTenant, NewStatus,
           TypeOK, ApiTypeOK
  <2>4. Still /\ WorkerMove
        BY <1>1, <1>b, <1>d DEF CreateTenant, caches, news, worker
  <2> QED BY <1>a, <2>1, <2>3, <2>4 DEF Moves
<1>2. ASSUME NEW t \in Tenants, NEW s \in Specs, UpdateTenant(t, s)
      PROVE  Moves
  <2>1. tenants' = [tenants EXCEPT ![t] = WithSpec(tenants[t], s)]
          /\ tenants[t] # Nil /\ uids' = uids /\ tcache' = tcache
        BY <1>2 DEF UpdateTenant, caches, bounds
  <2>2. tenants[t] \in TenantObject
        BY <2>1 DEF TypeOK, ApiTypeOK
  <2>3. WithSpec(tenants[t], s) \in TenantObject
        BY <2>2, EditTypes DEF TenantObject
  <2>4. /\ WithSpec(tenants[t], s).uid = tenants[t].uid
        /\ WithSpec(tenants[t], s).finalizer = tenants[t].finalizer
        /\ WithSpec(tenants[t], s).deleting = tenants[t].deleting
        /\ WithSpec(tenants[t], s).status = tenants[t].status
        BY <2>2 DEF WithSpec, TenantObject
  <2>5. \A u \in Tenants : TenantMove(u) /\ CacheMove(u)
        BY <2>1, <2>3, <2>4, NilAssumption DEF TenantMove, CacheMove, TypeOK, ApiTypeOK
  <2>6. Still /\ WorkerMove
        BY <1>2, <1>b, <1>d DEF UpdateTenant, caches, news, worker
  <2> QED BY <1>a, <2>1, <2>5, <2>6 DEF Moves
<1>3. ASSUME NEW t \in Tenants, DeleteTenant(t)
      PROVE  Moves
  <2>1. tenants' = [tenants EXCEPT ![t] =
                        IF tenants[t].finalizer THEN MarkDeleting(tenants[t]) ELSE Nil]
          /\ tenants[t] # Nil /\ uids' = uids /\ tcache' = tcache
        BY <1>3 DEF DeleteTenant, caches, bounds
  <2>2. tenants[t] \in TenantObject
        BY <2>1 DEF TypeOK, ApiTypeOK
  <2>3. MarkDeleting(tenants[t]) \in TenantObject
        BY <2>2, EditTypes DEF TenantObject
  <2>4. /\ MarkDeleting(tenants[t]).uid = tenants[t].uid
        /\ MarkDeleting(tenants[t]).finalizer = tenants[t].finalizer
        /\ MarkDeleting(tenants[t]).deleting
        /\ MarkDeleting(tenants[t]).status = tenants[t].status
        BY <2>2 DEF MarkDeleting, TenantObject
  <2>5. \A u \in Tenants : TenantMove(u) /\ CacheMove(u)
        BY <2>1, <2>3, <2>4, NilAssumption DEF TenantMove, CacheMove, TypeOK, ApiTypeOK
  <2>6. Still /\ WorkerMove
        BY <1>3, <1>b, <1>d DEF DeleteTenant, caches, news, worker
  <2> QED BY <1>a, <2>1, <2>5, <2>6 DEF Moves
<1>4. ASSUME NEW t \in Tenants, NEW c \in 0..MaxInventory, ChangeInventory(t, c)
      PROVE  Moves
      BY <1>4, <1>a, <1>b, <1>c, <1>d DEF ChangeInventory, caches, news, worker, Moves
<1>5. ASSUME NEW t \in Tenants, Reconcile(t)
      PROVE  Moves
  <2>1. UNCHANGED <<tenants, tcache, uids, namespaces, children, nsnews, nscache>>
        BY <1>5 DEF Reconcile, api, caches, news, bounds
  <2>2. WorkerMove
    <3>1. CASE tcache[t] = Nil
          BY <1>5, <3>1, <1>d DEF Reconcile, worker
    <3>2. CASE tcache[t] # Nil /\ pc' = "idle"
          BY <1>5, <3>2, <1>d DEF Reconcile
    <3>3. CASE tcache[t] # Nil /\ pc' # "idle"
          BY <1>5, <2>1, <3>3 DEF Reconcile, WorkerMove
    <3> QED BY <3>1, <3>2, <3>3
  <2> QED BY <1>a, <1>b, <1>c, <2>1, <2>2 DEF Moves
<1>6. ASSUME NEW t \in Tenants, Resync(t)
      PROVE  Moves
      BY <1>6, <1>a, <1>b, <1>c, <1>d DEF Resync, api, caches, news, worker, bounds, Moves
<1>7. ASSUME NEW up \in BOOLEAN, WorkerStep(up)
      PROVE  Moves
  <2>1. UNCHANGED <<tcache, nscache, uids>>
        BY <1>7 DEF WorkerStep, caches
  \* A write of the Tenant the worker holds, under the version check.
  <2>2. ASSUME req \in Tenants, NEW o \in TenantObject,
               base \in TenantObject,
               \/ tenants' = tenants
               \/ Fresh /\ tenants' = [tenants EXCEPT ![req] = o],
               o.uid = base.uid, base.finalizer => o.finalizer,
               o.deleting = base.deleting,
               \/ o.status.namespace = base.status.namespace
               \/ NameOf(o.status.namespace, req)
        PROVE  \A t \in Tenants : TenantMove(t) /\ CacheMove(t)
        BY <2>1, <2>2, NilAssumption DEF TenantMove, CacheMove, Fresh, TypeOK, ApiTypeOK
  <2>3. ASSUME NoWrite PROVE Still
        BY <1>b, <2>1, <2>3 DEF NoWrite, news
  <2>4. ASSUME Idle PROVE WorkerMove
        BY <2>4 DEF Idle, WorkerMove
  <2>5. ASSUME \A t \in Tenants : TenantMove(t) /\ CacheMove(t), WorkerMove, Still
        PROVE  Moves
        BY <1>a, <2>1, <2>5 DEF Moves
  <2>6. CASE AddFinalizer(up)
    <3>1. req \in Tenants /\ base \in TenantObject
          BY <2>6 DEF AddFinalizer, TypeOK, WorkerTypeOK
    <3>2. WithFinalizer(base) \in TenantObject
          BY <3>1, EditTypes DEF TenantObject
    <3>3. /\ WithFinalizer(base).uid = base.uid
          /\ WithFinalizer(base).finalizer
          /\ WithFinalizer(base).deleting = base.deleting
          /\ WithFinalizer(base).status = base.status
          BY <3>1 DEF WithFinalizer, TenantObject
    <3>4. \/ tenants' = tenants
          \/ Fresh /\ tenants' = [tenants EXCEPT ![req] = WithFinalizer(base)]
          BY <2>6 DEF AddFinalizer
    <3>5. NoWrite /\ Idle
          BY <2>6 DEF AddFinalizer, Return, Retry
    <3> QED BY <2>2, <2>3, <2>4, <2>5, <3>1, <3>2, <3>3, <3>4, <3>5
  <2>7. CASE ReconcileNamespace(up)
    <3> DEFINE n == TargetNamespace
               own == OwnerRef(req, base)
               des == IF nscache[n] = Nil
                      THEN [terminating |-> FALSE, owner |-> own]
                      ELSE [nscache[n] EXCEPT !.owner = own]
               res == CreateOrUpdate(nscache[n], namespaces[n], nsnews[n] = {}, Nil, des)
    <3>1. pc = "namespace" /\ req \in Tenants /\ base \in TenantObject
          BY <2>7 DEF ReconcileNamespace, TypeOK, WorkerTypeOK
    <3>2. n \in Namespaces
          BY <3>1, NamespaceNameType DEF TargetNamespace, TenantObject
    <3>3. own \in Owner
          BY <3>1 DEF OwnerRef, Owner, TenantObject
    <3>4. nscache[n] \in NamespaceObject \cup {Nil}
          BY <3>2 DEF TypeOK, CacheTypeOK
    <3>5. des # Nil /\ des.owner = own
      <4> HIDE DEF own, n
      <4>1. des \in NamespaceObject /\ des.owner = own
            BY <3>3, <3>4 DEF NamespaceObject
      <4> QED BY <4>1, NilAssumption
    <3>6. res.object = namespaces[n] \/ res.object = des
      <4> HIDE DEF des, n
      <4> QED BY CreateOrUpdateCases
    <3>7. /\ UNCHANGED <<tenants, req, base>>
          /\ \/ WriteNamespace(n, res.object) /\ pc' = "quota"
             \/ NoWrite /\ pc' = "fail"
          BY <2>7 DEF ReconcileNamespace
    <3>8. WorkerMove
          BY <2>1, <3>1, <3>7 DEF WorkerMove, ProvisionSteps, Kinds
    <3>9. Still
      <4>1. CASE NoWrite
            BY <2>3, <4>1
      <4>2. CASE WriteNamespace(n, res.object)
        <5>1. /\ namespaces'[n] = res.object
              /\ \A m \in Namespaces \ {n} : namespaces'[m] = namespaces[m]
              /\ \A m \in Namespaces : nsnews'[m] = {} =>
                   nsnews[m] = {} /\ namespaces'[m] = namespaces[m]
              /\ \A m \in Namespaces, k \in Kinds : children'[m][k] = children[m][k]
          <6> HIDE DEF n, res
          <6> QED BY <2>1, <3>2, <4>2, WriteNamespaceMove
        <5>2. n = NamespaceName(req, base.spec) /\ pc' \in ProvisionSteps
              BY <3>7 DEF TargetNamespace, ProvisionSteps, Kinds
        <5>3. own = OwnerRef(req, base)
              OBVIOUS
        <5> HIDE DEF n, res, des, own
        <5> QED BY <2>1, <3>1, <3>5, <3>6, <3>7, <5>1, <5>2, <5>3
                DEF NamespaceMove, ChildMove
      <4> QED BY <3>7, <4>1, <4>2
    <3> QED BY <1>c, <2>1, <2>5, <3>7, <3>8, <3>9
  <2>8. ASSUME NEW k \in Kinds, ReconcileChild(k, up)
        PROVE  Moves
    <3> DEFINE n == TargetNamespace
               des == DesiredChild(req, base, k)
               res == ApplyChild(n, k)
    <3>1. pc = k /\ req \in Tenants /\ base \in TenantObject
          BY <2>8 DEF ReconcileChild, TypeOK, WorkerTypeOK, Kinds
    <3>2. n \in Namespaces
          BY <3>1, NamespaceNameType DEF TargetNamespace, TenantObject
    <3>3. des # Nil => des.owner = OwnerRef(req, base)
          BY DEF DesiredChild
    <3>4. res.object \in {Nil, des, children[n][k]}
          BY ApplyChildCases
    <3>5. /\ UNCHANGED <<tenants, req, base>>
          /\ \/ WriteChild(n, k, res.object) /\ pc' = StepAfter(k)
             \/ NoWrite /\ pc' = "fail"
          BY <2>8 DEF ReconcileChild
    <3>6. WorkerMove
      <4>1. pc \in ProvisionSteps /\ pc' \in ProvisionSteps /\ pc # "idle"
            BY <3>1, <3>5 DEF ProvisionSteps, Kinds, StepAfter
      <4> QED BY <2>1, <3>5, <4>1 DEF WorkerMove
    <3>7. Still
      <4>1. CASE NoWrite
            BY <2>3, <4>1
      <4>2. CASE WriteChild(n, k, res.object)
        <5>1. \A m \in Namespaces, j \in Kinds : children'[m][j] =
                  IF m = n /\ j = k THEN res.object ELSE children[m][j]
          <6> HIDE DEF n, res
          <6> QED BY <3>2, <4>2, WriteChildMove
        <5>2. UNCHANGED <<namespaces, nsnews>>
              BY <4>2 DEF WriteChild
        <5> HIDE DEF n, res, des
        <5>3. \A m \in Namespaces, j \in Kinds : ChildMove(m, j)
              BY <2>1, <3>1, <3>3, <3>4, <3>5, <5>1 DEF ChildMove
        <5>4. \A m \in Namespaces : NamespaceMove(m)
              BY <2>1, <5>2 DEF NamespaceMove
        <5> QED BY <5>3, <5>4
      <4> QED BY <3>5, <4>1, <4>2
    <3> QED BY <1>c, <2>1, <2>5, <3>5, <3>6, <3>7
  <2>9. CASE WriteStatus(up)
    <3> DEFINE st == ProvisionedStatus(req, base, icache[req])
    <3>1. req \in Tenants /\ base \in TenantObject
          BY <2>9 DEF WriteStatus, TypeOK, WorkerTypeOK
    <3>2. st \in TenantStatus
          BY <3>1, StatusTypes DEF TypeOK, CacheTypeOK
    <3>3. NameOf(st.namespace, req)
          BY <3>1 DEF ProvisionedStatus, NameOf, TenantObject
    <3>4. /\ \/ tenants' = tenants
             \/ Fresh /\ tenants' = [tenants EXCEPT ![req] = WithStatus(base, st)]
          /\ NoWrite /\ Idle
          BY <2>9 DEF WriteStatus, Return, Retry
    <3> HIDE DEF st
    <3>5. WithStatus(base, st) \in TenantObject
          BY <3>1, <3>2, EditTypes DEF TenantObject
    <3>6. /\ WithStatus(base, st).uid = base.uid
          /\ WithStatus(base, st).finalizer = base.finalizer
          /\ WithStatus(base, st).deleting = base.deleting
          /\ WithStatus(base, st).status = st
          BY <3>1 DEF WithStatus, TenantObject
    <3> QED BY <2>2, <2>3, <2>4, <2>5, <3>1, <3>3, <3>4, <3>5, <3>6
  <2>10. CASE CountFails(up)
    <3>1. /\ UNCHANGED <<tenants, req, base, namespaces, children, nsnews>>
          /\ pc = "status" /\ pc' = "fail"
          BY <2>10 DEF CountFails, api, news
    <3>2. WorkerMove
          BY <2>1, <3>1 DEF WorkerMove, ProvisionSteps
    <3> QED BY <1>b, <1>c, <2>1, <2>5, <3>1, <3>2
  <2>11. CASE Fail(up)
    <3> DEFINE st == FailedStatus(req, base)
    <3>1. req \in Tenants /\ base \in TenantObject
          BY <2>11 DEF Fail, TypeOK, WorkerTypeOK
    <3>2. st \in TenantStatus
          BY <3>1, StatusTypes DEF TypeOK, CacheTypeOK
    <3>3. NameOf(st.namespace, req)
          BY <3>1 DEF FailedStatus, NameOf, TenantObject, TenantStatus
    <3>4. /\ \/ tenants' = tenants
             \/ Fresh /\ tenants' = [tenants EXCEPT ![req] = WithStatus(base, st)]
          /\ NoWrite /\ Idle
          BY <2>11 DEF Fail, Retry
    <3> HIDE DEF st
    <3>5. WithStatus(base, st) \in TenantObject
          BY <3>1, <3>2, EditTypes DEF TenantObject
    <3>6. /\ WithStatus(base, st).uid = base.uid
          /\ WithStatus(base, st).finalizer = base.finalizer
          /\ WithStatus(base, st).deleting = base.deleting
          /\ WithStatus(base, st).status = st
          BY <3>1 DEF WithStatus, TenantObject
    <3> QED BY <2>2, <2>3, <2>4, <2>5, <3>1, <3>3, <3>4, <3>5, <3>6
  <2>12. CASE Terminate(up)
    <3> DEFINE st  == TerminatingStatus(base)
               new == WithStatus(base, st)
    <3>1. pc = "terminate" /\ req \in Tenants /\ base \in TenantObject
          BY <2>12 DEF Terminate, TypeOK, WorkerTypeOK
    <3>2. st \in TenantStatus
          BY <3>1, StatusTypes DEF TypeOK, CacheTypeOK
    <3>3. st.namespace = base.status.namespace
          BY <3>1 DEF TerminatingStatus, TenantObject, TenantStatus
    <3>4. /\ \/ tenants' = tenants /\ base' = base
             \/ Fresh /\ tenants' = [tenants EXCEPT ![req] = new] /\ base' = new
          /\ NoWrite /\ req' = req /\ pc' \in {"teardown", "release"}
          BY <2>12 DEF Terminate
    <3> HIDE DEF st
    <3>5. new \in TenantObject
          BY <3>1, <3>2, EditTypes DEF TenantObject
    <3>6. /\ new.uid = base.uid
          /\ new.finalizer = base.finalizer
          /\ new.deleting = base.deleting
          /\ new.status = st
          BY <3>1 DEF WithStatus, TenantObject
    <3> HIDE DEF new
    <3>7. WorkerMove
          BY <2>1, <3>1, <3>3, <3>4, <3>6 DEF WorkerMove, FinalizeSteps
    <3> QED BY <2>2, <2>3, <2>5, <3>1, <3>3, <3>4, <3>5, <3>6, <3>7
  <2>13. CASE Teardown(up)
    <3> DEFINE n == base.status.namespace
    <3>1. pc = "teardown" /\ req \in Tenants /\ base \in TenantObject /\ n # Nil
          BY <2>13 DEF Teardown, TypeOK, WorkerTypeOK
    <3>2. n \in Namespaces
          BY <3>1 DEF TenantObject, TenantStatus
    <3>3. tenants' = tenants /\ ((pc' = "release" /\ UNCHANGED <<req, base>>) \/ Idle)
          BY <2>13 DEF Teardown, Retry
    <3>4. WorkerMove
          BY <2>1, <2>4, <3>1, <3>3 DEF WorkerMove, FinalizeSteps
    <3>5. Still
      <4>1. CASE NoWrite
            BY <2>3, <4>1
      <4>2. CASE ~NoWrite
        <5>1. /\ namespaces[n] # Nil
              /\ WriteNamespace(n, [namespaces[n] EXCEPT !.terminating = TRUE])
              BY <2>13, <4>2 DEF Teardown, DeleteNamespace
        <5> HIDE DEF n
        <5>2. PICK o : /\ WriteNamespace(n, o)
                       /\ o # Nil /\ o.owner = namespaces[n].owner
          <6>1. /\ [namespaces[n] EXCEPT !.terminating = TRUE] \in NamespaceObject
                /\ [namespaces[n] EXCEPT !.terminating = TRUE].owner = namespaces[n].owner
                BY <3>2, <5>1 DEF TypeOK, ApiTypeOK, NamespaceObject
          <6> QED BY <5>1, <6>1, NilAssumption
        <5>3. /\ namespaces'[n] = o
              /\ \A m \in Namespaces \ {n} : namespaces'[m] = namespaces[m]
              /\ \A m \in Namespaces : nsnews'[m] = {} =>
                   nsnews[m] = {} /\ namespaces'[m] = namespaces[m]
              /\ \A m \in Namespaces, k \in Kinds : children'[m][k] = children[m][k]
              BY <2>1, <3>2, <5>2, WriteNamespaceMove
        <5> QED BY <2>1, <5>1, <5>2, <5>3 DEF NamespaceMove, ChildMove
      <4> QED BY <4>1, <4>2
    <3> QED BY <1>c, <2>1, <2>5, <3>3, <3>4, <3>5
  <2>14. CASE Release(up)
    <3>1. pc = "release" /\ req \in Tenants /\ base \in TenantObject
          BY <2>14 DEF Release, TypeOK, WorkerTypeOK
    <3>2. /\ \/ tenants' = tenants
             \/ Fresh /\ tenants' = [tenants EXCEPT ![req] = Nil]
          /\ NoWrite /\ Idle
          BY <2>14 DEF Release, Return, Retry
    <3>3. \A t \in Tenants : TenantMove(t) /\ CacheMove(t)
          BY <2>1, <3>1, <3>2 DEF TenantMove, CacheMove, Fresh, Idle, TypeOK, ApiTypeOK
    <3> QED BY <2>3, <2>4, <2>5, <3>2, <3>3
  <2> QED BY <1>7, <2>6, <2>7, <2>8, <2>9, <2>10, <2>11, <2>12, <2>13, <2>14 DEF WorkerStep
<1>8. ASSUME NEW t \in Tenants, CacheTenant(t) \/ CacheInventory(t)
      PROVE  Moves
  <2>1. \A u \in Tenants : TenantMove(u) /\ CacheMove(u)
        BY <1>8 DEF CacheTenant, CacheInventory, TenantMove, CacheMove, api, bounds,
           TypeOK, CacheTypeOK
  <2> QED BY <1>8, <2>1, <1>a, <1>b, <1>d DEF CacheTenant, CacheInventory, api, news,
                  worker, bounds, Moves
<1>9. ASSUME NEW n \in Namespaces, CacheNamespace(n)
      PROVE  Moves
  <2>1. Still
        BY <1>9 DEF CacheNamespace, NamespaceMove, ChildMove, api, TypeOK, CacheTypeOK
  <2> QED BY <1>9, <2>1, <1>a, <1>c, <1>d DEF CacheNamespace, api, worker, bounds, Moves
<1>10. ASSUME NEW n \in Namespaces, NEW k \in Kinds, CacheChild(n, k)
       PROVE  Moves
      BY <1>10, <1>a, <1>b, <1>c, <1>d DEF CacheChild, api, worker, bounds, Moves
<1>11. ASSUME NEW n \in Namespaces,
              \/ CollectNamespace(n) \/ AdminDeletesNamespace(n)
              \/ NamespaceGone(n) \/ AdminCreatesNamespace(n)
       PROVE  Moves
  <2>1. \/ WriteNamespace(n, Nil)
        \/ WriteNamespace(n, [terminating |-> FALSE, owner |-> Nil])
        \/ /\ namespaces[n] # Nil
           /\ WriteNamespace(n, [namespaces[n] EXCEPT !.terminating = TRUE])
        BY <1>11 DEF CollectNamespace, AdminDeletesNamespace, NamespaceGone,
                     AdminCreatesNamespace, Admits
  <2>2. UNCHANGED <<tenants, tcache, nscache, pc, req, base, uids>>
        BY <1>11 DEF CollectNamespace, AdminDeletesNamespace, NamespaceGone,
                     AdminCreatesNamespace, caches, worker, bounds
  <2>3. Still
    <3>1. [terminating |-> FALSE, owner |-> Nil] \in NamespaceObject
          BY DEF NamespaceObject
    <3>2. namespaces[n] # Nil =>
            /\ [namespaces[n] EXCEPT !.terminating = TRUE] \in NamespaceObject
            /\ [namespaces[n] EXCEPT !.terminating = TRUE].owner = namespaces[n].owner
          BY DEF TypeOK, ApiTypeOK, NamespaceObject
    <3>3. PICK o : WriteNamespace(n, o) /\ \/ o = Nil
                                           \/ o # Nil /\ o.owner = Nil
                                           \/ /\ namespaces[n] # Nil /\ o # Nil
                                              /\ o.owner = namespaces[n].owner
      <4>1. CASE WriteNamespace(n, Nil)
            BY <4>1
      <4>2. CASE WriteNamespace(n, [terminating |-> FALSE, owner |-> Nil])
        <5>1. [terminating |-> FALSE, owner |-> Nil].owner = Nil
              OBVIOUS
        <5> QED BY <3>1, <4>2, <5>1, NilAssumption
      <4>3. CASE /\ namespaces[n] # Nil
                 /\ WriteNamespace(n, [namespaces[n] EXCEPT !.terminating = TRUE])
            BY <3>2, <4>3, NilAssumption
      <4> QED BY <2>1, <4>1, <4>2, <4>3
    <3>4. /\ namespaces'[n] = o
          /\ \A m \in Namespaces \ {n} : namespaces'[m] = namespaces[m]
          /\ \A m \in Namespaces : nsnews'[m] = {} =>
               nsnews[m] = {} /\ namespaces'[m] = namespaces[m]
          /\ \A m \in Namespaces, k \in Kinds : children'[m][k] = children[m][k]
          BY <2>2, <3>3, WriteNamespaceMove
    <3> QED BY <2>2, <3>3, <3>4 DEF NamespaceMove, ChildMove
  <2> QED BY <1>a, <1>c, <1>d, <2>2, <2>3 DEF Moves
<1>12. ASSUME NEW n \in Namespaces, NEW k \in Kinds,
              CollectChild(n, k) \/ AdminDeletesChild(n, k)
       PROVE  Moves
  <2>1. WriteChild(n, k, Nil)
        BY <1>12 DEF CollectChild, AdminDeletesChild
  <2>2. UNCHANGED <<tenants, tcache, nscache, pc, req, base, uids, namespaces, nsnews>>
        BY <1>12, <2>1 DEF CollectChild, AdminDeletesChild, WriteChild, caches, worker, bounds
  <2>3. Still
        BY <2>1, <2>2, WriteChildMove DEF NamespaceMove, ChildMove
  <2> QED BY <1>a, <1>c, <1>d, <2>2, <2>3 DEF Moves
<1>13. ASSUME Restart
       PROVE  Moves
      BY <1>13, <1>a DEF Restart, Idle, api, Moves, TenantMove, CacheMove, WorkerMove,
                  NamespaceMove, ChildMove
<1>14. CASE UNCHANGED vars
      BY <1>14, <1>a, <1>b, <1>c, <1>d DEF vars, api, caches, news, worker, bounds, Moves
<1> QED BY <1>1, <1>2, <1>3, <1>4, <1>5, <1>6, <1>7, <1>8, <1>9, <1>10, <1>11, <1>12,
           <1>13, <1>14
        DEF Next, Users, Informers, ClusterControllers, Upsets

-----------------------------------------------------------------------------
\* The inductive invariant.

\* A version of a Tenant stays a version of it, unless the Tenant is released
\* while the version is one that is not deleting.
LEMMA VersionStep ==
    ASSUME Moves, uids \in Nat, NEW t \in Tenants, NEW held,
           VersionOK(t, held),
           VersionOK(t, tenants[t]),
           held # Nil => held.uid \in Nat,
           pc = "release" /\ t = req /\ tenants[t] = base /\ held # Nil =>
                held.deleting \/ held.uid # base.uid
    PROVE  held # Nil =>
            /\ held.uid <= uids'
            /\ held.status.namespace # Nil => NameOf(held.status.namespace, t)
            /\ held.finalizer /\ ~held.deleting =>
                /\ tenants'[t] # Nil /\ tenants'[t].uid = held.uid
                /\ tenants'[t].finalizer
            /\ held.deleting /\ tenants'[t] # Nil /\ tenants'[t].uid = held.uid =>
                tenants'[t].deleting
<1> SUFFICES ASSUME held # Nil
             PROVE  /\ held.uid <= uids'
                    /\ held.finalizer /\ ~held.deleting =>
                        /\ tenants'[t] # Nil /\ tenants'[t].uid = held.uid
                        /\ tenants'[t].finalizer
                    /\ held.deleting /\ tenants'[t] # Nil
                            /\ tenants'[t].uid = held.uid => tenants'[t].deleting
    BY DEF VersionOK
<1>1. held.uid <= uids /\ uids <= uids' /\ uids' \in Nat /\ held.uid \in Nat
      BY DEF VersionOK, Moves
<1>2. TenantMove(t)
      BY DEF Moves
<1>3. held.uid <= uids'
      BY <1>1
<1>4. CASE tenants'[t] = tenants[t]
      BY <1>3, <1>4 DEF VersionOK
<1>5. CASE tenants[t] = Nil /\ tenants'[t].uid = uids + 1
      BY <1>1, <1>3, <1>5 DEF VersionOK
<1>6. CASE /\ tenants[t] # Nil /\ tenants'[t] # Nil
           /\ tenants'[t].uid = tenants[t].uid
           /\ tenants[t].finalizer => tenants'[t].finalizer
           /\ tenants[t].deleting => tenants'[t].deleting
      BY <1>3, <1>6 DEF VersionOK
<1>7. CASE tenants[t] # Nil /\ ~tenants[t].finalizer /\ tenants'[t] = Nil
      BY <1>3, <1>7 DEF VersionOK
<1>8. CASE pc = "release" /\ t = req /\ tenants[t] = base /\ tenants'[t] = Nil
      BY <1>3, <1>8 DEF VersionOK
<1> QED BY <1>2, <1>4, <1>5, <1>6, <1>7, <1>8 DEF TenantMove

\* Versions held stay versions.
LEMMA VersionsStep == IndInv /\ Moves /\ TypeOK' => VersionsOK'
<1> SUFFICES ASSUME IndInv, Moves, TypeOK' PROVE VersionsOK'
    OBVIOUS
<1>1. /\ TypeOK /\ VersionsOK /\ WorkerOK
      /\ uids \in Nat
      BY DEF IndInv, TypeOK
<1>2. ASSUME NEW t \in Tenants PROVE VersionOK(t, tenants[t])'
  <2>1. TenantMove(t) /\ uids <= uids' /\ uids' \in Nat /\ VersionOK(t, tenants[t])
        BY <1>1 DEF Moves, VersionsOK
  <2>2. tenants[t] # Nil => tenants[t].uid \in Nat
        BY <1>1 DEF TypeOK, ApiTypeOK, TenantObject
  <2> QED BY <1>1, <2>1, <2>2 DEF TenantMove, VersionOK
<1>3. ASSUME NEW t \in Tenants PROVE VersionOK(t, tcache[t])'
  <2>1. CASE tcache'[t] = tcache[t]
    <3>1. tcache[t] # Nil => tcache[t].uid \in Nat
          BY <1>1 DEF TypeOK, CacheTypeOK, TenantObject
    <3>2. pc = "release" /\ t = req /\ tcache[t] # Nil =>
                tcache[t].deleting \/ tcache[t].uid # base.uid
          BY <1>1 DEF WorkerOK, FinalizeSteps
    <3>3. VersionOK(t, tcache[t]) /\ VersionOK(t, tenants[t])
          BY <1>1 DEF VersionsOK
    <3> QED BY <1>1, <2>1, <3>1, <3>2, <3>3, VersionStep DEF VersionOK
  <2>2. CASE tcache'[t] = tenants[t] /\ tenants' = tenants /\ uids' = uids
        BY <1>1, <2>2 DEF VersionsOK, VersionOK
  <2> QED BY <2>1, <2>2 DEF Moves, CacheMove
<1>4. pc' # "idle" => VersionOK(req, base)'
  <2> SUFFICES ASSUME pc' # "idle" PROVE VersionOK(req, base)'
      OBVIOUS
  <2>1. CASE pc # "idle" /\ req' = req /\ base'.uid = base.uid
               /\ base'.deleting = base.deleting /\ base'.finalizer = base.finalizer
               /\ base'.status.namespace = base.status.namespace
    <3>1. req \in Tenants /\ base \in TenantObject /\ base # Nil
          BY <1>1, <2>1, NilAssumption DEF TypeOK, WorkerTypeOK
    <3>2. VersionOK(req, base) /\ VersionOK(req, tenants[req]) /\ base.uid \in Nat
          BY <1>1, <2>1, <3>1 DEF VersionsOK, TenantObject
    <3>3. pc = "release" => base.deleting
          BY <1>1 DEF WorkerOK, FinalizeSteps
    <3>4. /\ base.uid <= uids'
          /\ base.status.namespace # Nil => NameOf(base.status.namespace, req)
          /\ base.finalizer /\ ~base.deleting =>
                /\ tenants'[req] # Nil /\ tenants'[req].uid = base.uid
                /\ tenants'[req].finalizer
          /\ base.deleting /\ tenants'[req] # Nil /\ tenants'[req].uid = base.uid =>
                tenants'[req].deleting
          BY <1>1, <3>1, <3>2, <3>3, VersionStep
    <3> QED BY <2>1, <3>4 DEF VersionOK
  <2>2. CASE /\ pc = "idle" /\ req' \in Tenants /\ tcache[req'] # Nil
             /\ base' = tcache[req'] /\ UNCHANGED <<tenants, tcache, uids, namespaces>>
        BY <1>1, <2>2 DEF VersionsOK, VersionOK
  <2> QED BY <2>1, <2>2 DEF Moves, WorkerMove
<1> QED BY <1>2, <1>3, <1>4 DEF VersionsOK

\* A namespace owned after a step was owned before it by the same object, or
\* the step is the namespace step of a provisioning of that object.
LEMMA OwnsBackward ==
    ASSUME IndInv, Moves, TypeOK', NEW t \in Tenants, NEW n \in Namespaces,
           OwnsNamespace(t, n)'
    PROVE  \/ /\ OwnsNamespace(t, n)
              /\ tenants'[t].uid = tenants[t].uid
              /\ tenants[t].finalizer => tenants'[t].finalizer
           \/ /\ pc = "namespace" /\ t = req /\ tenants[t].uid = base.uid
              /\ pc' \in ProvisionSteps
              /\ UNCHANGED <<tenants, tcache>>
<1>1. TypeOK /\ TypeOK' /\ NamespacesOK /\ VersionsOK /\ uids \in Nat
      BY DEF IndInv, TypeOK
<1>2. /\ namespaces'[n] # Nil /\ tenants'[t] # Nil
      /\ namespaces'[n].owner = [name |-> t, uid |-> tenants'[t].uid]
      BY DEF OwnsNamespace, OwnerRef
<1>3. namespaces'[n].owner # Nil
  <2>1. tenants'[t].uid \in Nat
        BY <1>1, <1>2 DEF TypeOK, ApiTypeOK, TenantObject
  <2>2. namespaces'[n].owner \in Owner
        BY <1>2, <2>1 DEF Owner
  <2> QED BY <2>2, NilAssumption
<1>4. CASE /\ namespaces[n] # Nil
           /\ namespaces'[n].owner = namespaces[n].owner
  <2>1. namespaces[n].owner.uid <= uids /\ namespaces[n].owner.uid = tenants'[t].uid
        BY <1>1, <1>2, <1>3, <1>4 DEF NamespacesOK
  <2>2. tenants'[t].uid # uids + 1
        BY <1>1, <1>2, <2>1 DEF TypeOK, ApiTypeOK, TenantObject
  <2>3. /\ tenants[t] # Nil /\ tenants'[t].uid = tenants[t].uid
        /\ tenants[t].finalizer => tenants'[t].finalizer
        BY <1>2, <2>2 DEF Moves, TenantMove
  <2> QED BY <1>2, <1>4, <2>3 DEF OwnsNamespace, OwnerRef
<1>5. CASE /\ pc = "namespace"
           /\ namespaces'[n].owner = OwnerRef(req, base)
           /\ pc' \in ProvisionSteps
           /\ UNCHANGED <<tenants, tcache, uids>>
      BY <1>2, <1>5 DEF OwnerRef
<1> QED BY <1>2, <1>3, <1>4, <1>5 DEF Moves, NamespaceMove

\* The worker stays in step with the cache.
LEMMA WorkerStepOK == IndInv /\ Moves /\ TypeOK' => WorkerOK'
<1> SUFFICES ASSUME IndInv, Moves, TypeOK', pc' # "idle" PROVE WorkerOK'
    BY DEF WorkerOK, ProvisionSteps, FinalizeSteps, Kinds
<1>1. TypeOK /\ VersionsOK /\ WorkerOK /\ NamespacesOK /\ uids \in Nat
      BY DEF IndInv, TypeOK
<1>2. CASE /\ pc = "idle" /\ req' \in Tenants /\ tcache[req'] # Nil
           /\ base' = tcache[req'] /\ pc' = FirstStep(tcache[req'])
           /\ UNCHANGED <<tenants, tcache, uids, namespaces>>
  <2>1. pc' \in ProvisionSteps => base'.finalizer /\ ~base'.deleting
        BY <1>2 DEF FirstStep, ProvisionSteps, Kinds
  <2>2. pc' \in FinalizeSteps => base'.deleting
        BY <1>2 DEF FirstStep, FinalizeSteps
  <2>3. PICK t \in Tenants : t = req'
        BY <1>2
  <2>4. \A n \in Namespaces : OwnsNamespace(t, n)' => tenants'[t].uid = base'.uid
        BY <1>1, <1>2, <2>3 DEF NamespacesOK, OwnsNamespace, OwnerRef
  <2>5. \A n \in Namespaces :
            namespaces'[n] # Nil /\ tenants'[req'] # Nil
                /\ namespaces'[n].owner = OwnerRef(req', tenants'[req'])
            => tenants'[req'].uid = base'.uid
        BY <2>3, <2>4 DEF OwnsNamespace, OwnerRef
  <2>6. tcache'[req'] # Nil /\ tcache'[req'] = base'
        BY <1>2
  <2>7. ProvisionSteps \cap FinalizeSteps = {}
        BY DEF ProvisionSteps, FinalizeSteps, Kinds
  <2> QED BY <2>1, <2>2, <2>5, <2>6, <2>7 DEF WorkerOK, OwnsNamespace, OwnerRef
<1>3. CASE /\ pc # "idle" /\ req' = req
           /\ base'.uid = base.uid /\ base'.deleting = base.deleting
           /\ base'.finalizer = base.finalizer
           /\ pc' \in ProvisionSteps => pc \in ProvisionSteps
           /\ pc' \in FinalizeSteps => pc \in FinalizeSteps
  <2>1. req \in Tenants /\ base \in TenantObject /\ base # Nil /\ base.uid \in Nat
        BY <1>1, <1>3, NilAssumption DEF TypeOK, WorkerTypeOK, TenantObject
  <2>2. VersionOK(req, base) /\ base.uid <= uids
        BY <1>1, <1>3, <2>1 DEF VersionsOK, VersionOK
  <2>3. TenantMove(req) /\ CacheMove(req)
        BY <2>1 DEF Moves
  <2>4. tenants'[req] # Nil /\ tenants'[req].uid = base.uid =>
            tcache'[req] # Nil /\ tcache'[req].uid = base.uid
    <3> SUFFICES ASSUME tenants'[req] # Nil, tenants'[req].uid = base.uid
                 PROVE  tcache'[req] # Nil /\ tcache'[req].uid = base.uid
        OBVIOUS
    <3>1. tenants[req] # Nil /\ tenants[req].uid = base.uid
          BY <1>1, <2>1, <2>2, <2>3 DEF TenantMove
    <3>2. tcache[req] # Nil /\ tcache[req].uid = base.uid
          BY <1>1, <1>3, <3>1 DEF WorkerOK
    <3> QED BY <2>3, <3>1, <3>2 DEF CacheMove
  <2>5. pc' \in ProvisionSteps => base'.finalizer /\ ~base'.deleting
        BY <1>1, <1>3 DEF WorkerOK
  <2>6. ASSUME pc' \in FinalizeSteps
        PROVE  /\ base'.deleting
               /\ tcache'[req] # Nil /\ tcache'[req].uid = base.uid => tcache'[req].deleting
               /\ \A n \in Namespaces : OwnsNamespace(req, n)' => tenants'[req].uid = base.uid
    <3>1. /\ base.deleting
          /\ tcache[req] # Nil /\ tcache[req].uid = base.uid => tcache[req].deleting
          /\ \A n \in Namespaces : OwnsNamespace(req, n) => tenants[req].uid = base.uid
          BY <1>1, <1>3, <2>6 DEF WorkerOK
    <3>2. tcache'[req] # Nil /\ tcache'[req].uid = base.uid => tcache'[req].deleting
          BY <2>1, <2>2, <2>3, <3>1 DEF CacheMove, VersionOK
    <3>3. pc' \notin ProvisionSteps
          BY <2>6 DEF ProvisionSteps, FinalizeSteps, Kinds
    <3>4. ASSUME NEW n \in Namespaces, OwnsNamespace(req, n)'
          PROVE  tenants'[req].uid = base.uid
      <4>1. OwnsNamespace(req, n) /\ tenants'[req].uid = tenants[req].uid
            BY <1>3, <2>1, <3>3, <3>4, OwnsBackward DEF OwnsNamespace
      <4> QED BY <3>1, <4>1
    <3> QED BY <1>3, <3>1, <3>2, <3>4
  <2> QED BY <1>3, <2>4, <2>5, <2>6 DEF WorkerOK, OwnsNamespace
<1>4. ProvisionSteps \cap FinalizeSteps = {}
      BY DEF ProvisionSteps, FinalizeSteps, Kinds
<1> QED BY <1>2, <1>3, <1>4 DEF Moves, WorkerMove

\* Namespaces keep owners the cache has seen.
LEMMA NamespacesStep == IndInv /\ Moves /\ TypeOK' => NamespacesOK'
<1> SUFFICES ASSUME IndInv, Moves, TypeOK', NEW n \in Namespaces
             PROVE  /\ nsnews'[n] = {} => nscache'[n] = namespaces'[n]
                    /\ namespaces'[n] # Nil /\ namespaces'[n].owner # Nil =>
                        /\ namespaces'[n].owner.uid <= uids'
                        /\ NameOf(n, namespaces'[n].owner.name)
                    /\ \A t \in Tenants : OwnsNamespace(t, n)' =>
                        tcache'[t] # Nil /\ tcache'[t].uid = tenants'[t].uid
    BY DEF NamespacesOK
<1>1. TypeOK /\ VersionsOK /\ WorkerOK /\ NamespacesOK /\ uids \in Nat
      BY DEF IndInv, TypeOK
<1>2. NamespaceMove(n) /\ uids <= uids' /\ uids' \in Nat
      BY DEF Moves
<1>3. nsnews'[n] = {} => nscache'[n] = namespaces'[n]
      BY <1>1, <1>2 DEF NamespaceMove, NamespacesOK
<1>4. ASSUME namespaces'[n] # Nil, namespaces'[n].owner # Nil
      PROVE  /\ namespaces'[n].owner.uid <= uids'
             /\ NameOf(n, namespaces'[n].owner.name)
  <2>1. CASE namespaces[n] # Nil /\ namespaces'[n].owner = namespaces[n].owner
    <3>1. namespaces[n].owner \in Owner
          BY <1>1, <1>4, <2>1 DEF TypeOK, ApiTypeOK, NamespaceObject
    <3>2. namespaces[n].owner.uid \in Nat
          BY <3>1 DEF Owner
    <3> QED BY <1>1, <1>2, <1>4, <2>1, <3>2 DEF NamespacesOK
  <2>2. CASE /\ pc = "namespace" /\ n = NamespaceName(req, base.spec)
             /\ namespaces'[n].owner = OwnerRef(req, base)
             /\ UNCHANGED <<tenants, tcache, uids>>
    <3>1. req \in Tenants /\ base \in TenantObject /\ base # Nil
          BY <1>1, <2>2, NilAssumption DEF TypeOK, WorkerTypeOK
    <3>2. base.uid <= uids /\ base.spec \in Specs
          BY <1>1, <2>2, <3>1 DEF VersionsOK, VersionOK, TenantObject
    <3> QED BY <2>2, <3>2 DEF OwnerRef, NameOf
  <2> QED BY <1>2, <1>4, <2>1, <2>2 DEF NamespaceMove
<1>5. ASSUME NEW t \in Tenants, OwnsNamespace(t, n)'
      PROVE  tcache'[t] # Nil /\ tcache'[t].uid = tenants'[t].uid
  <2>1. CASE OwnsNamespace(t, n) /\ tenants'[t].uid = tenants[t].uid
    <3>1. tcache[t] # Nil /\ tcache[t].uid = tenants[t].uid /\ tenants[t] # Nil
          BY <1>1, <2>1 DEF NamespacesOK, OwnsNamespace
    <3> QED BY <2>1, <3>1 DEF Moves, CacheMove
  <2>2. CASE /\ pc = "namespace" /\ t = req /\ tenants[t].uid = base.uid
             /\ UNCHANGED <<tenants, tcache>>
    <3>1. tenants[t] # Nil
          BY <1>5, <2>2 DEF OwnsNamespace
    <3> QED BY <1>1, <2>2, <3>1 DEF WorkerOK
  <2> QED BY <1>5, <2>1, <2>2, OwnsBackward
<1> QED BY <1>3, <1>4, <1>5

\* Managed objects keep owners that were created.
LEMMA ChildrenStep == IndInv /\ Moves /\ TypeOK' => ChildrenOK'
<1> SUFFICES ASSUME IndInv, Moves, TypeOK', NEW n \in Namespaces, NEW k \in Kinds,
                    children'[n][k] # Nil
             PROVE  children'[n][k].owner.uid <= uids'
    BY DEF ChildrenOK
<1>1. TypeOK /\ VersionsOK /\ ChildrenOK /\ uids \in Nat
      BY DEF IndInv, TypeOK
<1>2. ChildMove(n, k) /\ uids <= uids' /\ uids' \in Nat
      BY DEF Moves
<1>3. CASE children'[n][k] = children[n][k]
  <2>1. children[n][k].owner.uid <= uids /\ children[n][k].owner \in Owner
        BY <1>1, <1>3 DEF ChildrenOK, TypeOK, ApiTypeOK, ChildTypeOK, ChildObject
  <2> QED BY <1>1, <1>2, <1>3, <2>1 DEF Owner
<1>4. CASE /\ pc \in Kinds /\ children'[n][k].owner = OwnerRef(req, base)
           /\ uids' = uids
  <2>1. req \in Tenants /\ base \in TenantObject /\ base # Nil /\ pc # "idle"
        BY <1>1, <1>4, NilAssumption DEF TypeOK, WorkerTypeOK, Kinds
  <2> QED BY <1>1, <1>4, <2>1 DEF VersionsOK, VersionOK, OwnerRef
<1> QED BY <1>2, <1>3, <1>4 DEF ChildMove

\* Nothing becomes owned by a Tenant without the finalizer.
LEMMA FinalizerStep == IndInv /\ Moves /\ TypeOK' => FinalizerGuard'
<1> SUFFICES ASSUME IndInv, Moves, TypeOK', NEW t \in Tenants, NEW n \in Namespaces
             PROVE  /\ OwnsNamespace(t, n)' => tenants'[t].finalizer
                    /\ \A k \in Kinds :
                        children'[n][k] # Nil /\ tenants'[t] # Nil
                            /\ children'[n][k].owner = OwnerRef(t, tenants'[t])
                            => tenants'[t].finalizer
    BY DEF FinalizerGuard, OwnerRef
<1>1. TypeOK /\ VersionsOK /\ WorkerOK /\ FinalizerGuard /\ ChildrenOK /\ uids \in Nat
      BY DEF IndInv, TypeOK
\* The Tenant a provisioning step works on exists and has the finalizer.
<1>2. ASSUME pc \in ProvisionSteps
      PROVE  tenants[req] # Nil /\ tenants[req].uid = base.uid /\ tenants[req].finalizer
  <2>1. base # Nil /\ pc # "idle"
        BY <1>1, <1>2, NilAssumption DEF TypeOK, WorkerTypeOK, ProvisionSteps, Kinds
  <2> QED BY <1>1, <1>2, <2>1 DEF WorkerOK, VersionsOK, VersionOK
<1>3. ASSUME OwnsNamespace(t, n)' PROVE tenants'[t].finalizer
  <2>1. CASE OwnsNamespace(t, n) /\ (tenants[t].finalizer => tenants'[t].finalizer)
        BY <1>1, <2>1 DEF FinalizerGuard
  <2>2. CASE pc = "namespace" /\ t = req /\ UNCHANGED <<tenants, tcache>>
        BY <1>2, <2>2 DEF ProvisionSteps
  <2> QED BY <1>3, <2>1, <2>2, OwnsBackward
<1>4. ASSUME NEW k \in Kinds, children'[n][k] # Nil, tenants'[t] # Nil,
             children'[n][k].owner = OwnerRef(t, tenants'[t])
      PROVE  tenants'[t].finalizer
  <2>1. CASE children'[n][k] = children[n][k]
    <3>1. children[n][k].owner.uid <= uids /\ children[n][k].owner.uid = tenants'[t].uid
          BY <1>1, <1>4, <2>1 DEF ChildrenOK, OwnerRef
    <3>2. tenants'[t].uid # uids + 1
          BY <1>1, <1>4, <3>1 DEF TypeOK, ApiTypeOK, TenantObject
    <3>3. /\ tenants[t] # Nil /\ tenants'[t].uid = tenants[t].uid
          /\ tenants[t].finalizer => tenants'[t].finalizer
          BY <1>4, <3>2 DEF Moves, TenantMove
    <3> QED BY <1>1, <1>4, <2>1, <3>3 DEF FinalizerGuard, OwnerRef
  <2>2. CASE /\ pc \in Kinds /\ children'[n][k].owner = OwnerRef(req, base)
             /\ UNCHANGED tenants
    <3>1. req = t
          BY <1>4, <2>2 DEF OwnerRef
    <3> QED BY <1>2, <2>2, <3>1 DEF ProvisionSteps
  <2> QED BY <1>4, <2>1, <2>2 DEF Moves, ChildMove
<1> QED BY <1>3, <1>4

\* A series lives only while somebody still has to look at the Tenant.
LEMMA SeriesStep == IndInv /\ [Next]_vars => SeriesOK'
<1> SUFFICES ASSUME IndInv, [Next]_vars, NEW t \in Tenants,
                    tcache'[t] = Nil, t \notin queue'
             PROVE  req' # t /\ gauge'[t] = "None"
    BY DEF SeriesOK
<1>1. TypeOK /\ SeriesOK /\ t # Nil /\ gauge \in [Tenants -> Phases]
      BY NilAssumption DEF IndInv, TypeOK
<1>2. tcache[t] = Nil /\ t \notin queue => req # t /\ gauge[t] = "None"
      BY <1>1 DEF SeriesOK
<1>3. CASE UNCHANGED vars
      BY <1>2, <1>3 DEF vars, caches, worker
<1>4. CASE Users
      BY <1>2, <1>4
      DEF Users, CreateTenant, UpdateTenant, DeleteTenant, ChangeInventory, caches, worker
<1>5. ASSUME NEW u \in Tenants, Reconcile(u) PROVE req' # t /\ gauge'[t] = "None"
  <2>1. pc = "idle" /\ req = Nil /\ tcache'[t] = tcache[t] /\ tcache[t] = Nil
        BY <1>1, <1>5 DEF Reconcile, TypeOK, WorkerTypeOK, caches
  <2>2. CASE u = t
        BY <1>1, <1>5, <2>1, <2>2 DEF Reconcile, NotFound, ClearPhase, worker
  <2>3. CASE u # t
    <3>1. t \notin queue
          BY <1>5, <2>3 DEF Reconcile
    <3>2. gauge[t] = "None"
          BY <1>2, <2>1, <3>1
    <3>3. req' = req \/ req' = u
          BY <1>5 DEF Reconcile, worker
    <3> QED BY <1>1, <1>5, <2>1, <2>3, <3>2, <3>3
            DEF Reconcile, NotFound, ClearPhase
  <2> QED BY <2>2, <2>3
<1>6. ASSUME NEW u \in Tenants, Resync(u) PROVE req' # t /\ gauge'[t] = "None"
      BY <1>2, <1>6 DEF Resync, caches, worker
<1>7. ASSUME NEW up \in BOOLEAN, WorkerStep(up) PROVE req' # t /\ gauge'[t] = "None"
  <2>1. tcache[t] = Nil /\ (req' = req \/ req' = Nil) /\ queue \subseteq queue'
    <3>1. /\ req' = req \/ req' = Nil
          /\ queue' = queue \/ queue' = queue \cup {req}
          BY <1>7 DEF WorkerStep, AddFinalizer, ReconcileNamespace, ReconcileChild,
             WriteStatus, CountFails, Fail, Terminate, Teardown, Release, Idle,
             Return, Retry
    <3> QED BY <1>7, <3>1 DEF WorkerStep, caches
  <2>2. req # t /\ gauge[t] = "None"
        BY <1>2, <2>1
  <2>3. gauge' = gauge \/ \E phase : gauge' = [gauge EXCEPT ![req] = phase]
        BY <1>7 DEF WorkerStep, AddFinalizer, ReconcileNamespace, ReconcileChild,
           WriteStatus, CountFails, Fail, Terminate, Teardown, Release, SetPhase,
           ClearPhase
  <2> QED BY <1>1, <2>1, <2>2, <2>3
<1>8. CASE Informers
  <2>1. req' = req /\ gauge' = gauge /\ queue \subseteq queue'
        BY <1>8 DEF Informers, CacheTenant, CacheInventory, CacheNamespace,
           CacheChild, worker
  <2>2. ASSUME tcache[t] # Nil PROVE t \in queue'
    <3>1. \E u \in Tenants : CacheTenant(u)
          BY <1>8, <2>2 DEF Informers, CacheInventory, CacheNamespace, CacheChild
    <3>2. PICK u \in Tenants : CacheTenant(u)
          BY <3>1
    <3>3. u = t
          BY <1>1, <2>2, <3>2 DEF CacheTenant, TypeOK, CacheTypeOK
    <3> QED BY <3>2, <3>3 DEF CacheTenant
  <2> QED BY <1>2, <2>1, <2>2
<1>9. CASE ClusterControllers
      BY <1>2, <1>9
      DEF ClusterControllers, CollectNamespace, CollectChild, NamespaceGone, caches, worker
<1>10. CASE Upsets
  <2>1. CASE Restart
        BY <1>1, <2>1 DEF Restart, Idle
  <2>2. CASE ~Restart
        BY <1>2, <1>10, <2>2
        DEF Upsets, AdminCreatesNamespace, AdminDeletesNamespace, AdminDeletesChild,
            caches, worker
  <2> QED BY <2>1, <2>2
<1> QED BY <1>3, <1>4, <1>5, <1>6, <1>7, <1>8, <1>9, <1>10 DEF Next

-----------------------------------------------------------------------------
\* In the initial state nothing exists.
LEMMA IndInit == Init => IndInv
<1> SUFFICES ASSUME Init PROVE IndInv
    OBVIOUS
<1>1. TypeOK
      BY TypeInit
<1>2. /\ \A t \in Tenants : tenants[t] = Nil /\ tcache[t] = Nil /\ gauge[t] = "None"
      /\ \A n \in Namespaces : namespaces[n] = Nil /\ nscache[n] = Nil
      /\ \A n \in Namespaces, k \in Kinds : children[n][k] = Nil
      /\ pc = "idle" /\ req = Nil
      BY DEF Init
<1>3. VersionsOK
      BY <1>2 DEF VersionsOK, VersionOK
<1>4. WorkerOK
      BY <1>2 DEF WorkerOK, ProvisionSteps, FinalizeSteps, Kinds
<1>5. NamespacesOK /\ ChildrenOK
      BY <1>2 DEF NamespacesOK, ChildrenOK, OwnsNamespace
<1>6. FinalizerGuard
      BY <1>2 DEF FinalizerGuard, OwnsNamespace
<1>7. SeriesOK
      BY <1>2, NilAssumption DEF SeriesOK
<1> QED BY <1>1, <1>3, <1>4, <1>5, <1>6, <1>7 DEF IndInv

LEMMA IndStep == IndInv /\ [Next]_vars => IndInv'
<1> SUFFICES ASSUME IndInv, [Next]_vars PROVE IndInv'
    OBVIOUS
<1>1. TypeOK /\ TypeOK'
      BY TypeStep DEF IndInv
<1>2. Moves
      BY <1>1, StepMoves
<1> QED BY <1>1, <1>2, VersionsStep, WorkerStepOK, NamespacesStep, ChildrenStep,
           FinalizerStep, SeriesStep DEF IndInv

\* The invariant that the worker, the cache and the API server agree on what
\* matters of a Tenant (see Tenant.tla) holds in every reachable state.
THEOREM InductiveInvariant == Spec => []IndInv
<1>1. Init => IndInv
      BY IndInit
<1>2. IndInv /\ [Next]_vars => IndInv'
      BY IndStep
<1> QED BY <1>1, <1>2, PTL DEF Spec

\* Nothing is owned by a Tenant whose finalizer is not in the API server
\* (Reconcile adds the finalizer, and returns, before it provisions).
THEOREM FinalizerFirst == Spec => []FinalizerGuard
<1>1. IndInv => FinalizerGuard
      BY DEF IndInv
<1> QED BY <1>1, InductiveInvariant, PTL

LEMMA IndProvisions == IndInv => ProvisionsOnlyExisting
<1> SUFFICES ASSUME IndInv, pc \in ProvisionSteps
             PROVE  tenants[req] # Nil /\ tenants[req].uid = base.uid
                        /\ tenants[req].finalizer
    BY DEF ProvisionsOnlyExisting
<1>1. base # Nil /\ pc # "idle"
      BY NilAssumption DEF IndInv, TypeOK, WorkerTypeOK, ProvisionSteps, Kinds
<1> QED BY <1>1 DEF IndInv, WorkerOK, VersionsOK, VersionOK

\* However stale the cache, the worker provisions only a Tenant object that
\* still exists with its finalizer (reconcileTenant).
THEOREM ProvisioningIsOfExisting == Spec => []ProvisionsOnlyExisting
<1> QED BY InductiveInvariant, IndProvisions, PTL

\* No phase series outlives its Tenant (SetPhase and ClearPhase).
THEOREM SeriesAreCleared == Spec => []NoLeakedSeries
<1>1. IndInv => NoLeakedSeries
      BY DEF IndInv, SeriesOK, NoLeakedSeries
<1> QED BY <1>1, InductiveInvariant, PTL

-----------------------------------------------------------------------------
\* Teardown.

\* No two tenants can have the same namespace name.  The CRDs do not guarantee
\* it: "x-a" + "b" is "x" + "a-b".
NamesDistinct ==
    \A t1, t2 \in Tenants, s1, s2 \in Specs :
        NamespaceName(t1, s1) = NamespaceName(t2, s2) => t1 = t2

\* A finalize deletes only a namespace of the deleting Tenant.
LEMMA TeardownSpares ==
    ASSUME NamesDistinct, IndInv, NEW up, Teardown(up), NEW n \in Namespaces,
           Admits(n), ~Admits(n)', NEW t \in Tenants, OwnsNamespace(t, n)
    PROVE  tenants[t].deleting
<1>1. TypeOK /\ VersionsOK /\ WorkerOK /\ NamespacesOK /\ pc = "teardown"
      BY DEF IndInv, Teardown
<1>2. /\ req \in Tenants /\ base \in TenantObject /\ base # Nil
      /\ base.status.namespace # Nil
      BY <1>1, NilAssumption DEF TypeOK, WorkerTypeOK
<1>3. n = base.status.namespace
  <2>1. namespaces'[n] # namespaces[n]
        BY DEF Admits
  <2>2. namespaces \in [Namespaces -> NamespaceObject \cup {Nil}]
        BY <1>1 DEF TypeOK, ApiTypeOK
  <2>3. namespaces' = namespaces
            \/ \E o : namespaces' = [namespaces EXCEPT ![base.status.namespace] = o]
        BY DEF Teardown, DeleteNamespace, WriteNamespace, NoWrite
  <2> QED BY <2>1, <2>2, <2>3
<1>4. PICK s1 \in Specs : n = NamespaceName(req, s1)
      BY <1>1, <1>2, <1>3 DEF VersionsOK, VersionOK, NameOf
<1>5. namespaces[n].owner = OwnerRef(t, tenants[t]) /\ tenants[t] # Nil
      BY DEF OwnsNamespace
<1>6. namespaces[n].owner \in Owner
  <2>1. tenants[t].uid \in Nat
        BY <1>1, <1>5 DEF TypeOK, ApiTypeOK, TenantObject
  <2> QED BY <1>5, <2>1 DEF Owner, OwnerRef
<1>7. PICK s2 \in Specs : n = NamespaceName(t, s2)
  <2>1. NameOf(n, namespaces[n].owner.name)
        BY <1>1, <1>6, NilAssumption DEF NamespacesOK, OwnsNamespace
  <2> QED BY <1>5, <2>1 DEF OwnerRef, NameOf
<1>8. t = req
      BY <1>2, <1>4, <1>7 DEF NamesDistinct
<1>9. base.deleting /\ tenants[req].uid = base.uid
      BY <1>1, <1>8 DEF WorkerOK, FinalizeSteps
<1> QED BY <1>1, <1>2, <1>5, <1>8, <1>9 DEF VersionsOK, VersionOK

\* Where tenants cannot share a namespace name, only somebody outside the
\* operator can make the namespace of a live Tenant terminate: not the teardown
\* of an earlier Tenant of that name, not a retried or stale reconcile, not the
\* garbage collector.
THEOREM TeardownIsSafe ==
    ASSUME NamesDistinct
    PROVE  Spec => TeardownSparesLiveTenants
<1>1. IndInv /\ [Next]_vars => [SparesLive]_vars
  <2> SUFFICES ASSUME IndInv, Next, NEW n \in Namespaces, Admits(n), ~Admits(n)',
                      upsets' = upsets, NEW t \in Tenants, OwnsNamespace(t, n)
               PROVE  tenants[t].deleting
      BY DEF SparesLive
  <2>1. /\ TypeOK /\ NamespacesOK /\ upsets \in Nat
        /\ namespaces \in [Namespaces -> NamespaceObject \cup {Nil}]
        BY DEF IndInv, TypeOK, ApiTypeOK
  <2>2. namespaces[n] # Nil /\ ~namespaces[n].terminating /\ namespaces' # namespaces
        BY DEF Admits
  <2>3. /\ namespaces[n].owner = [name |-> t, uid |-> tenants[t].uid]
        /\ tenants[t] # Nil
        BY DEF OwnsNamespace, OwnerRef
  <2>4. ASSUME NEW up \in BOOLEAN, WorkerStep(up) PROVE tenants[t].deleting
    <3>1. CASE ReconcileNamespace(up)
      <4> DEFINE m == TargetNamespace
                 desired == IF nscache[m] = Nil
                            THEN [terminating |-> FALSE, owner |-> OwnerRef(req, base)]
                            ELSE [nscache[m] EXCEPT !.owner = OwnerRef(req, base)]
                 result == CreateOrUpdate(nscache[m], namespaces[m], nsnews[m] = {},
                                          Nil, desired)
      <4>1. namespaces' = [namespaces EXCEPT ![m] = result.object]
            BY <2>2, <3>1 DEF ReconcileNamespace, WriteNamespace, NoWrite
      <4>2. n = m
            BY <2>1, <4>1 DEF Admits
      <4>3. \/ result.object = namespaces[m]
            \/ result.object = desired /\ (nscache[m] = Nil \/ nsnews[m] = {})
        <5> HIDE DEF desired
        <5> QED BY DEF CreateOrUpdate, Ok, Failed
      <4>4. namespaces'[n] = result.object
            BY <2>1, <4>1, <4>2
      <4>5. namespaces'[n] # namespaces[n]
            BY DEF Admits
      <4>6. nscache[n] = Nil \/ nscache[n] = namespaces[n]
            BY <2>1, <4>2, <4>3, <4>4, <4>5 DEF NamespacesOK
      <4>7. namespaces[n] \in NamespaceObject
            BY <2>1, <2>2
      <4>8. desired # Nil /\ ~desired.terminating
        <5>1. OwnerRef(req, base) \in Owner
          <6>1. pc = "namespace"
                BY <3>1 DEF ReconcileNamespace
          <6> QED BY <2>1, <6>1 DEF TypeOK, WorkerTypeOK, TenantObject, OwnerRef, Owner
        <5>2. desired \in NamespaceObject
              BY <4>2, <4>6, <4>7, <5>1 DEF NamespaceObject
        <5>3. ~desired.terminating
              BY <2>2, <4>2, <4>6, <4>7 DEF NamespaceObject
        <5> QED BY <5>2, <5>3, NilAssumption
      <4> HIDE DEF desired, result
      <4> QED BY <4>2, <4>3, <4>4, <4>5, <4>8 DEF Admits
    <3>2. CASE Teardown(up)
          BY <3>2, TeardownSpares
    <3>3. CASE ~ReconcileNamespace(up) /\ ~Teardown(up)
          BY <2>2, <2>4, <3>3
          DEF WorkerStep, AddFinalizer, ReconcileChild, WriteChild, WriteStatus,
              CountFails, Fail, Terminate, Release, NoWrite, api
    <3> QED BY <3>1, <3>2, <3>3
  <2>5. CASE ClusterControllers
    <3>1. ASSUME NEW m \in Namespaces, CollectNamespace(m) PROVE tenants[t].deleting
      <4>1. n = m
            BY <2>1, <3>1 DEF CollectNamespace, WriteNamespace, Admits
      <4> QED BY <2>3, <3>1, <4>1 DEF CollectNamespace, OwnerExists
    <3>2. ASSUME NEW m \in Namespaces, NamespaceGone(m) PROVE tenants[t].deleting
      <4>1. n = m
            BY <2>1, <3>2 DEF NamespaceGone, WriteNamespace, Admits
      <4> QED BY <2>2, <3>2, <4>1 DEF NamespaceGone
    <3>3. ASSUME NEW m \in Namespaces, NEW k \in Kinds, CollectChild(m, k)
          PROVE  tenants[t].deleting
          BY <2>2, <3>3 DEF CollectChild, WriteChild
    <3> QED BY <2>5, <3>1, <3>2, <3>3 DEF ClusterControllers
  <2>6. CASE Upsets
    <3>1. Upset
          BY <2>6 DEF Upsets, AdminCreatesNamespace, AdminDeletesNamespace,
             AdminDeletesChild, Restart
    <3>2. upsets' = upsets + 1
          BY <3>1 DEF Upset
    <3> QED BY <2>1, <3>2
  <2>7. CASE Users
        BY <2>2, <2>7
        DEF Users, CreateTenant, UpdateTenant, DeleteTenant, ChangeInventory
  <2>8. CASE Informers
        BY <2>2, <2>8
        DEF Informers, CacheTenant, CacheInventory, CacheNamespace, CacheChild, api
  <2>9. CASE \E u \in Tenants : Reconcile(u) \/ Resync(u)
        BY <2>2, <2>9 DEF Reconcile, Resync, api
  <2> QED BY <2>4, <2>5, <2>6, <2>7, <2>8, <2>9 DEF Next
<1> QED BY <1>1, InductiveInvariant, PTL DEF Spec, TeardownSparesLiveTenants
=============================================================================
