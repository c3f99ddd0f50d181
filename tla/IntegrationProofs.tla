-------------------------- MODULE IntegrationProofs --------------------------
(***************************************************************************)
(* Machine-checked proofs about the Integration reconciler, for any number *)
(* of Integrations, specs and upsets and every width of the retry counter. *)
(***************************************************************************)
EXTENDS Integration, CommonProofs, BackoffProofs

-----------------------------------------------------------------------------
\* Lemmas about the operators the model is built from.

LEMMA ZeroIsWord == 0 \in Word(CounterWidth)
<1>1. 2^(CounterWidth - 1) \in Nat \ {0}
      BY WordHalves, WidthAssumption
<1> QED BY <1>1, WordIsRange, WidthAssumption

LEMMA WordIsInt == ASSUME NEW n \in Word(CounterWidth) PROVE n \in Int
<1>1. 2^(CounterWidth - 1) \in Nat \ {0}
      BY WordHalves, WidthAssumption
<1> QED BY <1>1, WordIsRange, WidthAssumption

\* What a reconcile does to the status in memory keeps it a status.
LEMMA StatusTypes ==
    ASSUME NEW st \in IntegrationStatus, NEW phase \in Phases, NEW gen \in Nat
    PROVE  /\ NotReady(st) \in IntegrationStatus
           /\ Progressing(st) \in IntegrationStatus
           /\ SecretResolved(st) \in IntegrationStatus
           /\ ConnectedStatus(st) \in IntegrationStatus
           /\ CountedFailure(st) \in IntegrationStatus
           /\ ExhaustedStatus(st) \in IntegrationStatus
           /\ FailedStatus(st) \in IntegrationStatus
           /\ Reported(st, phase, gen) \in IntegrationStatus
           /\ [st EXCEPT !.hasSecret = TRUE] \in IntegrationStatus
<1> DEFINE C == [ConditionTypes -> ConditionStatus]
           c == st.conditions
<1>1. c \in C
      BY DEF IntegrationStatus
<1>2. /\ "Ready" \in ConditionTypes /\ "Progressing" \in ConditionTypes
      /\ "Degraded" \in ConditionTypes /\ "SecretResolved" \in ConditionTypes
      /\ "Connected" \in ConditionTypes
      BY DEF ConditionTypes
<1>3. ASSUME NEW d \in C
      PROVE  [st EXCEPT !.conditions = d] \in IntegrationStatus
      BY DEF IntegrationStatus
<1>4. NotReady(st) \in IntegrationStatus
  <2>1. MarkFalse(c, "Ready") \in C
        BY <1>1, <1>2, ConditionHelpersType
  <2> QED BY <1>3, <2>1 DEF NotReady
<1>5. Progressing(st) \in IntegrationStatus
  <2>1. MarkUnknown(c, "Progressing") \in C
        BY <1>1, <1>2, ConditionHelpersType
  <2> QED BY <1>3, <2>1 DEF Progressing
<1>6. SecretResolved(st) \in IntegrationStatus
  <2>1. MarkTrue(c, "SecretResolved") \in C
        BY <1>1, <1>2, ConditionHelpersType
  <2> QED BY <1>3, <2>1 DEF SecretResolved
<1>7. ConnectedStatus(st) \in IntegrationStatus
  <2> DEFINE d == MarkFalse(MarkTrue(MarkTrue(Remove(c, "Degraded"), "Connected"), "Ready"),
                            "Progressing")
  <2>1. d \in C
    <3>1. Remove(c, "Degraded") \in C
          BY <1>1, <1>2, ConditionHelpersType
    <3>2. MarkTrue(Remove(c, "Degraded"), "Connected") \in C
          BY <1>2, <3>1, ConditionHelpersType
    <3>3. MarkTrue(MarkTrue(Remove(c, "Degraded"), "Connected"), "Ready") \in C
          BY <1>2, <3>2, ConditionHelpersType
    <3> QED BY <1>2, <3>3, ConditionHelpersType
  <2>2. ConnectedStatus(st) =
            [st EXCEPT !.retries = 0, !.hasError = FALSE, !.conditions = d]
        BY DEF ConnectedStatus
  <2> HIDE DEF d
  <2> QED BY <2>1, <2>2, ZeroIsWord DEF IntegrationStatus
<1>8. CountedFailure(st) \in IntegrationStatus
  <2>1. Incremented(st.retries) \in Word(CounterWidth)
        BY IncrementedChanges DEF IntegrationStatus
  <2> QED BY <2>1 DEF CountedFailure, IntegrationStatus
<1>9. ExhaustedStatus(st) \in IntegrationStatus
  <2>1. MarkFalse(c, "Ready") \in C
        BY <1>1, <1>2, ConditionHelpersType
  <2>2. MarkTrue(MarkFalse(c, "Ready"), "Degraded") \in C
        BY <1>2, <2>1, ConditionHelpersType
  <2> QED BY <1>3, <2>2 DEF ExhaustedStatus
<1>10. FailedStatus(st) \in IntegrationStatus
  <2> DEFINE d == MarkFalse(MarkTrue(c, "Degraded"), "Ready")
  <2>1. MarkTrue(c, "Degraded") \in C
        BY <1>1, <1>2, ConditionHelpersType
  <2>2. d \in C
        BY <1>2, <2>1, ConditionHelpersType
  <2>3. FailedStatus(st) = [st EXCEPT !.conditions = d, !.hasError = TRUE]
        BY DEF FailedStatus
  <2> HIDE DEF d
  <2> QED BY <2>2, <2>3 DEF IntegrationStatus
<1>11. Reported(st, phase, gen) \in IntegrationStatus
      BY DEF Reported, IntegrationStatus
<1>12. [st EXCEPT !.hasSecret = TRUE] \in IntegrationStatus
      BY DEF IntegrationStatus
<1> QED BY <1>4, <1>5, <1>6, <1>7, <1>8, <1>9, <1>10, <1>11, <1>12

\* A new Integration, and every edit of one, is an Integration.
LEMMA NewIntegrationType ==
    ASSUME NEW s \in Specs, NEW u \in Nat
    PROVE  NewIntegration(s, u) \in IntegrationObject
<1>1. NewStatus \in IntegrationStatus
      BY ZeroIsWord DEF NewStatus, IntegrationStatus, Phases, ConditionStatus
<1> QED BY <1>1 DEF NewIntegration, IntegrationObject

LEMMA EditTypes ==
    ASSUME NEW o \in IntegrationObject, NEW s \in Specs, NEW st \in IntegrationStatus
    PROVE  /\ WithSpec(o, s) \in IntegrationObject
           /\ MarkDeleting(o) \in IntegrationObject
           /\ WithFinalizer(o) \in IntegrationObject
           /\ WithStatus(o, st) \in IntegrationObject
           /\ Observed(o) \in IntegrationStatus
<1>2. PICK g \in Nat : g = o.gen + 1
      BY DEF IntegrationObject
<1>3. /\ WithSpec(o, s) = [o EXCEPT !.spec = s, !.gen = g]
      /\ MarkDeleting(o) = [o EXCEPT !.deleting = TRUE, !.gen = g]
      BY <1>2 DEF WithSpec, MarkDeleting
<1>4. /\ [o EXCEPT !.spec = s, !.gen = g] \in IntegrationObject
      /\ [o EXCEPT !.deleting = TRUE, !.gen = g] \in IntegrationObject
      BY DEF IntegrationObject
<1>5. WithFinalizer(o) \in IntegrationObject /\ WithStatus(o, st) \in IntegrationObject
      BY DEF WithFinalizer, WithStatus, IntegrationObject
<1>6. o.status \in IntegrationStatus /\ o.spec.endpoint \in Endpoints
      BY SpecsAssumption DEF IntegrationObject
<1>7. Observed(o) \in IntegrationStatus
      BY <1>6 DEF Observed, IntegrationStatus
<1> QED BY <1>3, <1>4, <1>5, <1>7

-----------------------------------------------------------------------------
\* Type correctness.

LEMMA WriteSecretType ==
    ASSUME TypeOK, NEW i \in Integrations, NEW o \in SecretObject \cup {Nil},
           WriteSecret(i, o)
    PROVE  /\ secrets' \in [Integrations -> SecretObject \cup {Nil}]
           /\ snew' \in [Integrations -> BOOLEAN]
BY DEF WriteSecret, TypeOK

\* What a worker step never touches, and the rest of what it may.
WorkerFrame == UNCHANGED <<tenants, auth, reachable, icache, scache, uids>>

RestTypeOK ==
    /\ intgs' \in [Integrations -> IntegrationObject \cup {Nil}]
    /\ secrets' \in [Integrations -> SecretObject \cup {Nil}]
    /\ snew' \in [Integrations -> BOOLEAN]
    /\ queue' \subseteq Integrations /\ resync' \subseteq Integrations
    /\ gauge' \in [Integrations -> Phases]

LEMMA WorkerTypes ==
    ASSUME TypeOK, WorkerFrame, upsets' \in Nat, WorkerTypeOK', RestTypeOK
    PROVE  TypeOK'
BY DEF TypeOK, WorkerFrame, RestTypeOK

\* A reconcile that has its outcome holds a status to write.
LEMMA FinishType ==
    ASSUME req \in Integrations, base \in IntegrationObject,
           creds \in Credentials \cup {Nil}, gauge \in [Integrations -> Phases],
           NEW st \in IntegrationStatus, NEW phase \in Phases, NEW after \in Int,
           Finish(st, phase, after)
    PROVE  /\ WorkerTypeOK'
           /\ gauge' \in [Integrations -> Phases]
           /\ queue' = queue
<1>1. base.gen \in Nat
      BY DEF IntegrationObject
<1>2. Reported(st, phase, base.gen) \in IntegrationStatus
      BY <1>1, StatusTypes
<1>3. WorkerTypeOK'
      BY <1>2 DEF Finish, WorkerTypeOK, Steps
<1> QED BY <1>3 DEF Finish, SetPhase

\* Every step of the worker keeps the types.
LEMMA WorkerStepType ==
    ASSUME TypeOK, NEW up \in BOOLEAN, WorkerStep(up)
    PROVE  TypeOK'
<1>1. WorkerFrame /\ upsets' \in Nat
      BY DEF WorkerStep, WorkerFrame, world, caches, TypeOK
<1>2. ASSUME Idle PROVE WorkerTypeOK'
      BY <1>2 DEF Idle, WorkerTypeOK
<1>3. ASSUME pc # "idle"
      PROVE  /\ req \in Integrations /\ base \in IntegrationObject
             /\ creds \in Credentials \cup {Nil} /\ delay \in Int
             /\ base.status \in IntegrationStatus /\ base.gen \in Nat
             /\ base.spec \in Specs
             /\ pc \in ProvisionSteps \cup {"status"} => draft \in IntegrationStatus
      BY <1>3 DEF TypeOK, WorkerTypeOK, IntegrationObject
<1>4. "Failed" \in Phases /\ "Connected" \in Phases /\ "Degraded" \in Phases
        /\ "Pending" \in Phases /\ "None" \in Phases
      BY DEF Phases
<1>5. CASE AddFinalizer(up)
  <2>1. pc # "idle" /\ WithFinalizer(base) \in IntegrationObject
        BY <1>3, <1>5, EditTypes DEF AddFinalizer
  <2>2. RestTypeOK /\ Idle
        BY <1>3, <1>5, <2>1 DEF AddFinalizer, Return, Retry, objects, RestTypeOK, TypeOK
  <2> QED BY <1>1, <1>2, <2>2, WorkerTypes
<1>6. CASE CheckTenant(up)
  <2>1. pc = "tenant" /\ pc # "idle" /\ draft \in IntegrationStatus
        BY <1>3, <1>6 DEF CheckTenant, ProvisionSteps
  <2>2. NotReady(draft) \in IntegrationStatus /\ Progressing(draft) \in IntegrationStatus
        BY <1>4, <2>1, StatusTypes
  <2>3. UNCHANGED <<intgs, secrets, snew, resync>>
        BY <1>6 DEF CheckTenant, objects
  <2>4. CASE Retry /\ UNCHANGED gauge
    <3>1. RestTypeOK /\ Idle
          BY <1>3, <2>1, <2>3, <2>4 DEF Retry, RestTypeOK, TypeOK
    <3> QED BY <1>1, <1>2, <3>1, WorkerTypes
  <2>5. CASE BlockOnDependency(draft)
    <3>1. WorkerTypeOK' /\ gauge' \in [Integrations -> Phases] /\ queue' = queue
          BY <1>3, <1>4, <2>1, <2>2, <2>5, FinishType
             DEF BlockOnDependency, dependencyPeriod, TypeOK
    <3> QED BY <1>1, <2>3, <3>1, WorkerTypes DEF RestTypeOK, TypeOK
  <2>6. CASE GotoWith("resolve", Progressing(draft)) /\ UNCHANGED gauge
    <3>1. WorkerTypeOK' /\ queue' = queue
          BY <1>3, <2>1, <2>2, <2>6 DEF GotoWith, WorkerTypeOK, Steps, ProvisionSteps
    <3> QED BY <1>1, <2>3, <2>6, <3>1, WorkerTypes DEF RestTypeOK, TypeOK
  <2> QED BY <1>6, <2>4, <2>5, <2>6 DEF CheckTenant
<1>7. CASE ResolveAuthSecret(up)
  <2>1. pc = "resolve" /\ pc # "idle" /\ draft \in IntegrationStatus
        BY <1>3, <1>7 DEF ResolveAuthSecret, ProvisionSteps
  <2>2. NotReady(draft) \in IntegrationStatus /\ SecretResolved(draft) \in IntegrationStatus
        BY <1>4, <2>1, StatusTypes
  <2>3. UNCHANGED <<intgs, secrets, snew, resync>>
        BY <1>7 DEF ResolveAuthSecret, objects
  <2>4. CASE Goto("fail") /\ UNCHANGED gauge
    <3>1. WorkerTypeOK' /\ queue' = queue
          BY <1>3, <2>1, <2>4 DEF Goto, GotoWith, WorkerTypeOK, Steps, ProvisionSteps
    <3> QED BY <1>1, <2>3, <2>4, <3>1, WorkerTypes DEF RestTypeOK, TypeOK
  <2>5. CASE BlockOnDependency(draft)
    <3>1. WorkerTypeOK' /\ gauge' \in [Integrations -> Phases] /\ queue' = queue
          BY <1>3, <1>4, <2>1, <2>2, <2>5, FinishType
             DEF BlockOnDependency, dependencyPeriod, TypeOK
    <3> QED BY <1>1, <2>3, <3>1, WorkerTypes DEF RestTypeOK, TypeOK
  <2>6. CASE /\ pc' = "connection" /\ draft' = SecretResolved(draft)
             /\ creds' = Resolved(req, base.spec)
             /\ UNCHANGED <<queue, req, base, delay, gauge>>
    <3>1. req.namespace \in Homes /\ base.spec.auth \in AuthSecrets \cup {Nil}
          BY <1>3, <2>1, SpecsAssumption DEF Homes
    <3>2. Resolved(req, base.spec) \in Credentials \cup {Nil}
          BY <3>1 DEF Resolved, TypeOK
    <3>3. WorkerTypeOK'
          BY <1>3, <2>1, <2>2, <2>6, <3>2 DEF WorkerTypeOK, Steps, ProvisionSteps
    <3> QED BY <1>1, <2>3, <2>6, <3>3, WorkerTypes DEF RestTypeOK, TypeOK
  <2> QED BY <1>7, <2>4, <2>5, <2>6 DEF ResolveAuthSecret
<1>8. CASE ReconcileConnectionSecret(up)
  <2> DEFINE desired == [owner |-> base.uid, data |-> BuildConnectionData(base.spec, creds)]
             result  == CreateOrUpdate(scache[req], secrets[req], ~snew[req], Nil, desired)
  <2>1. pc = "connection" /\ pc # "idle" /\ draft \in IntegrationStatus
        BY <1>3, <1>8 DEF ReconcileConnectionSecret, ProvisionSteps
  <2>2. desired \in SecretObject
    <3>1. base.uid \in Nat /\ base.spec \in Specs /\ creds \in Credentials \cup {Nil}
          BY <1>3, <2>1 DEF IntegrationObject
    <3> QED BY <3>1 DEF SecretObject
  <2>3. result.object \in SecretObject \cup {Nil}
    <3>1. secrets[req] \in SecretObject \cup {Nil}
          BY <1>3, <2>1 DEF TypeOK
    <3> HIDE DEF desired
    <3> QED BY <2>2, <3>1, CreateOrUpdateCases
  <2>4. UNCHANGED <<intgs, queue, req, base, delay, resync, gauge>>
        BY <1>8 DEF ReconcileConnectionSecret
  <2>5. CASE /\ WriteSecret(req, result.object) /\ pc' = "probe" /\ creds' = Nil
             /\ draft' = [draft EXCEPT !.hasSecret = TRUE]
    <3> HIDE DEF result
    <3>1. /\ secrets' \in [Integrations -> SecretObject \cup {Nil}]
          /\ snew' \in [Integrations -> BOOLEAN]
          BY <1>3, <2>1, <2>3, <2>5, WriteSecretType
    <3>2. [draft EXCEPT !.hasSecret = TRUE] \in IntegrationStatus
          BY <1>4, <2>1, StatusTypes
    <3>3. WorkerTypeOK'
          BY <1>3, <2>1, <2>4, <2>5, <3>2 DEF WorkerTypeOK, Steps, ProvisionSteps
    <3> QED BY <1>1, <2>4, <3>1, <3>3, WorkerTypes DEF RestTypeOK, TypeOK
  <2>6. CASE UNCHANGED objects /\ pc' = "fail" /\ creds' = Nil /\ UNCHANGED draft
    <3>1. WorkerTypeOK'
          BY <1>3, <2>1, <2>4, <2>6 DEF WorkerTypeOK, Steps, ProvisionSteps
    <3> QED BY <1>1, <2>4, <2>6, <3>1, WorkerTypes DEF RestTypeOK, TypeOK, objects
  <2> QED BY <1>8, <2>5, <2>6 DEF ReconcileConnectionSecret
<1>9. CASE Probe
  <2> DEFINE counted == CountedFailure(draft)
             policy  == base.spec.retryPolicy
  <2>1. pc = "probe" /\ pc # "idle" /\ draft \in IntegrationStatus
        BY <1>3, <1>9 DEF Probe, ProvisionSteps
  <2>2. UNCHANGED <<intgs, secrets, snew, resync>>
        BY <1>9 DEF Probe, objects
  <2>3. ConnectedStatus(draft) \in IntegrationStatus /\ counted \in IntegrationStatus
        BY <1>4, <2>1, StatusTypes
  <2>4. ExhaustedStatus(counted) \in IntegrationStatus /\ NotReady(counted) \in IntegrationStatus
        BY <1>4, <2>3, StatusTypes
  <2>5. ComputeBackoff(policy, counted.retries) \in Int
    <3>1. PolicyTypeOK(policy)
          BY <1>3, <2>1, SpecsAssumption DEF PolicyTypeOK
    <3>2. counted.retries \in Int
          BY <2>3, WordIsInt DEF IntegrationStatus
    <3> QED BY <3>1, <3>2, ComputeBackoffType
  <2>6. \/ Finish(ConnectedStatus(draft), "Connected", integrationResyncPeriod)
        \/ Finish(ExhaustedStatus(counted), "Failed", integrationResyncPeriod)
        \/ Finish(NotReady(counted), "Degraded", ComputeBackoff(policy, counted.retries))
        BY <1>9 DEF Probe
  <2>7. integrationResyncPeriod \in Int /\ gauge \in [Integrations -> Phases]
        BY DEF integrationResyncPeriod, TypeOK
  <2> HIDE DEF counted, policy
  <2>8. WorkerTypeOK' /\ gauge' \in [Integrations -> Phases] /\ queue' = queue
        BY <1>3, <1>4, <2>1, <2>3, <2>4, <2>5, <2>6, <2>7, FinishType
  <2> QED BY <1>1, <2>2, <2>8, WorkerTypes DEF RestTypeOK, TypeOK
<1>10. CASE UpdateStatus(up)
  <2>1. pc = "status" /\ pc # "idle" /\ draft \in IntegrationStatus
        BY <1>3, <1>10 DEF UpdateStatus
  <2>2. ASSUME Fresh PROVE WithStatus(intgs[req], draft) \in IntegrationObject
        BY <1>3, <2>1, <2>2, EditTypes DEF Fresh
  <2>3. RestTypeOK /\ Idle
        BY <1>3, <1>10, <2>1, <2>2
           DEF UpdateStatus, RequeueAfter, Return, Retry, objects, RestTypeOK, TypeOK
  <2> QED BY <1>1, <1>2, <2>3, WorkerTypes
<1>11. CASE Fail(up)
  <2> DEFINE st == Reported(FailedStatus(draft), "Failed", base.gen)
  <2>1. pc = "fail" /\ pc # "idle" /\ draft \in IntegrationStatus
        BY <1>3, <1>11 DEF Fail, ProvisionSteps
  <2>2. FailedStatus(draft) \in IntegrationStatus
        BY <1>4, <2>1, StatusTypes
  <2>3. st \in IntegrationStatus
        BY <1>3, <1>4, <2>1, <2>2, StatusTypes
  <2>4. WithStatus(base, st) \in IntegrationObject
    <3> HIDE DEF st
    <3> QED BY <1>3, <2>1, <2>3, EditTypes
  <2>5. \/ intgs' = intgs
        \/ intgs' = [intgs EXCEPT ![req] = WithStatus(base, st)]
        BY <1>11 DEF Fail
  <2>6. gauge' = [gauge EXCEPT ![req] = "Failed"] /\ Retry /\ UNCHANGED <<secrets, snew, resync>>
        BY <1>11 DEF Fail, SetPhase, objects
  <2> HIDE DEF st
  <2>7. RestTypeOK /\ Idle
        BY <1>3, <1>4, <2>1, <2>4, <2>5, <2>6 DEF Retry, RestTypeOK, TypeOK
  <2> QED BY <1>1, <1>2, <2>7, WorkerTypes
<1>12. CASE DeleteConnectionSecret(up)
  <2>1. pc = "deleteSecret" /\ pc # "idle"
        BY <1>12 DEF DeleteConnectionSecret
  <2>2. UNCHANGED <<intgs, resync, gauge>>
        BY <1>12 DEF DeleteConnectionSecret
  <2>3. CASE WriteSecret(req, Nil) /\ Goto("release")
    <3>1. /\ secrets' \in [Integrations -> SecretObject \cup {Nil}]
          /\ snew' \in [Integrations -> BOOLEAN]
          BY <1>3, <2>1, <2>3, WriteSecretType
    <3>2. WorkerTypeOK' /\ queue' = queue
          BY <2>1, <2>3 DEF Goto, GotoWith, TypeOK, WorkerTypeOK, Steps, ProvisionSteps,
             FinalizeSteps
    <3> QED BY <1>1, <2>2, <3>1, <3>2, WorkerTypes DEF RestTypeOK, TypeOK
  <2>4. CASE UNCHANGED objects /\ Retry
    <3>1. RestTypeOK /\ Idle
          BY <1>3, <2>1, <2>2, <2>4 DEF Retry, objects, RestTypeOK, TypeOK
    <3> QED BY <1>1, <1>2, <3>1, WorkerTypes
  <2> QED BY <1>12, <2>3, <2>4 DEF DeleteConnectionSecret
<1>13. CASE Release(up)
  <2>1. pc # "idle"
        BY <1>13 DEF Release
  <2>2. RestTypeOK /\ Idle
        BY <1>3, <1>4, <1>13, <2>1
           DEF Release, ClearPhase, Return, Retry, objects, RestTypeOK, TypeOK
  <2> QED BY <1>1, <1>2, <2>2, WorkerTypes
<1> QED BY <1>5, <1>6, <1>7, <1>8, <1>9, <1>10, <1>11, <1>12, <1>13 DEF WorkerStep

\* Reconcile starts a pass on what the cache has.
LEMMA ReconcileType ==
    ASSUME TypeOK, NEW i \in Integrations, Reconcile(i)
    PROVE  TypeOK'
<1>1. UNCHANGED <<intgs, secrets, snew, tenants, auth, reachable, icache, scache, resync,
                  uids, upsets>>
      BY DEF Reconcile, objects, world, caches, bounds
<1>2. pc = "idle" /\ creds = Nil /\ delay = 0 /\ queue' = queue \ {i}
      BY DEF Reconcile, TypeOK, WorkerTypeOK
<1>3. CASE icache[i] = Nil
  <2>1. gauge' \in [Integrations -> Phases] /\ UNCHANGED <<pc, req, base, draft, creds, delay>>
        BY <1>3 DEF Reconcile, NotFound, ClearPhase, worker, TypeOK, Phases
  <2> QED BY <1>1, <1>2, <2>1 DEF TypeOK, WorkerTypeOK
<1>4. CASE icache[i] # Nil
  <2> DEFINE intg == icache[i]
             step == FirstStep(intg)
             disabled == Reported(NotReady(Observed(intg)), "Disabled", intg.gen)
  <2>1. intg \in IntegrationObject
        BY <1>4 DEF TypeOK
  <2>2. step \in {"idle", "deleteSecret", "release", "addFinalizer", "status", "tenant"}
        BY DEF FirstStep
  <2>3. /\ pc' = step
        /\ step = "idle" => UNCHANGED <<req, base, draft>>
        /\ step # "idle" =>
            /\ req' = i /\ base' = intg
            /\ draft' = CASE step = "status" -> disabled
                          [] step = "tenant" -> Observed(intg)
                          [] OTHER           -> Nil
        /\ gauge' = gauge \/ gauge' = [gauge EXCEPT ![i] = "Disabled"]
        /\ UNCHANGED <<creds, delay>>
        BY <1>4 DEF Reconcile, SetPhase
  <2>4. disabled \in IntegrationStatus /\ Observed(intg) \in IntegrationStatus
    <3>1. Observed(intg) \in IntegrationStatus /\ intg.gen \in Nat /\ "Disabled" \in Phases
          BY <2>1, EditTypes DEF IntegrationObject, Phases
    <3>2. NotReady(Observed(intg)) \in IntegrationStatus
          BY <3>1, StatusTypes
    <3> QED BY <3>1, <3>2, StatusTypes
  <2>5. gauge' \in [Integrations -> Phases]
        BY <2>3 DEF TypeOK, Phases
  <2> HIDE DEF intg, step, disabled
  <2>6. WorkerTypeOK'
    <3>1. CASE step = "idle"
          BY <1>2, <2>3, <3>1 DEF TypeOK, WorkerTypeOK
    <3>2. CASE step # "idle"
          BY <1>2, <2>1, <2>2, <2>3, <2>4, <3>2
             DEF WorkerTypeOK, Steps, ProvisionSteps, FinalizeSteps
    <3> QED BY <3>1, <3>2
  <2> QED BY <1>1, <1>2, <2>5, <2>6 DEF TypeOK
<1> QED BY <1>3, <1>4

\* Every step keeps the types.
LEMMA TypeStep == TypeOK /\ [Next]_vars => TypeOK'
<1> SUFFICES ASSUME TypeOK, [Next]_vars PROVE TypeOK'
    OBVIOUS
<1>1. ASSUME NEW i \in Integrations, NEW s \in Specs, CreateIntegration(i, s)
      PROVE  TypeOK'
  <2>1. uids + 1 \in Nat
        BY DEF TypeOK
  <2>2. NewIntegration(s, uids + 1) \in IntegrationObject
        BY <2>1, NewIntegrationType
  <2> QED BY <1>1, <2>1, <2>2 DEF CreateIntegration, TypeOK, WorkerTypeOK, objects, world,
             caches, worker
<1>2. ASSUME NEW i \in Integrations, NEW s \in Specs, UpdateIntegration(i, s)
      PROVE  TypeOK'
  <2>1. intgs[i] \in IntegrationObject /\ intgs[i].status \in IntegrationStatus
        BY <1>2 DEF UpdateIntegration, TypeOK, IntegrationObject
  <2>2. WithSpec(intgs[i], s) \in IntegrationObject
        BY <2>1, EditTypes DEF IntegrationObject
  <2> QED BY <1>2, <2>2 DEF UpdateIntegration, TypeOK, WorkerTypeOK, objects, world, caches,
             worker, bounds
<1>3. ASSUME NEW i \in Integrations, DeleteIntegration(i)
      PROVE  TypeOK'
  <2>1. intgs[i] \in IntegrationObject
        BY <1>3 DEF DeleteIntegration, TypeOK
  <2>2. MarkDeleting(intgs[i]) \in IntegrationObject
        BY <2>1, EditTypes DEF IntegrationObject
  <2> QED BY <1>3, <2>2 DEF DeleteIntegration, TypeOK, WorkerTypeOK, objects, world, caches,
             worker, bounds
<1>4. ASSUME NEW i \in Integrations, Reconcile(i)
      PROVE  TypeOK'
      BY <1>4, ReconcileType
<1>5. ASSUME NEW i \in Integrations, Resync(i)
      PROVE  TypeOK'
      BY <1>5 DEF Resync, TypeOK, WorkerTypeOK, objects, world, caches, worker, bounds
<1>6. ASSUME NEW up \in BOOLEAN, WorkerStep(up)
      PROVE  TypeOK'
      BY <1>6, WorkerStepType
<1>7. ASSUME NEW i \in Integrations, CacheIntegration(i)
      PROVE  TypeOK'
      BY <1>7 DEF CacheIntegration, TypeOK, WorkerTypeOK, objects, world, worker, bounds
<1>8. ASSUME NEW i \in Integrations, CacheSecret(i)
      PROVE  TypeOK'
      BY <1>8 DEF CacheSecret, EnqueueOwner, TypeOK, WorkerTypeOK, world, worker, bounds
\* Writes of the connection Secret by others.
<1>9. ASSUME NEW i \in Integrations, NEW o \in SecretObject \cup {Nil}, WriteSecret(i, o),
             UNCHANGED <<intgs, world, caches, queue, resync, worker, gauge, uids>>,
             upsets' \in Nat
      PROVE  TypeOK'
  <2>1. /\ secrets' \in [Integrations -> SecretObject \cup {Nil}]
        /\ snew' \in [Integrations -> BOOLEAN]
        BY <1>9, WriteSecretType
  <2> QED BY <1>9, <2>1 DEF TypeOK, WorkerTypeOK, world, caches, worker
<1>10. ASSUME NEW i \in Integrations,
              CollectSecret(i) \/ AdminDeletesSecret(i) \/ AdminOverwritesSecret(i)
       PROVE  TypeOK'
  <2>1. upsets' \in Nat
        BY <1>10 DEF CollectSecret, AdminDeletesSecret, AdminOverwritesSecret, Upset, bounds,
           TypeOK
  <2>2. secrets[i] # Nil
        BY <1>10 DEF CollectSecret, AdminDeletesSecret, AdminOverwritesSecret
  <2>3. [secrets[i] EXCEPT !.data = Nil] \in SecretObject
        BY <2>2 DEF TypeOK, SecretObject
  <2>4. \E o \in SecretObject \cup {Nil} : WriteSecret(i, o)
        BY <1>10, <2>3 DEF CollectSecret, AdminDeletesSecret, AdminOverwritesSecret
  <2>5. UNCHANGED <<intgs, world, caches, queue, resync, worker, gauge, uids>>
        BY <1>10 DEF CollectSecret, AdminDeletesSecret, AdminOverwritesSecret, bounds
  <2> QED BY <1>9, <2>1, <2>4, <2>5
<1>11. ASSUME NEW t \in Tenants, TenantChanges(t)
       PROVE  TypeOK'
       BY <1>11 DEF TenantChanges, Upset, TypeOK, WorkerTypeOK, objects, caches, worker
<1>12. ASSUME NEW h \in Homes, NEW s \in AuthSecrets, NEW c \in Credentials \cup {Nil},
              CredentialsChange(h, s, c)
       PROVE  TypeOK'
       BY <1>12 DEF CredentialsChange, Upset, TypeOK, WorkerTypeOK, objects, caches, worker
<1>13. ASSUME NEW x \in Endpoints, EndpointChanges(x)
       PROVE  TypeOK'
       BY <1>13 DEF EndpointChanges, Upset, TypeOK, WorkerTypeOK, objects, caches, worker
<1>14. CASE Restart
       BY <1>14 DEF Restart, Upset, Idle, TypeOK, WorkerTypeOK, world, Phases
<1>15. CASE UNCHANGED vars
       BY <1>15 DEF vars, TypeOK, WorkerTypeOK, objects, world, caches, worker, bounds
<1> QED BY <1>1, <1>2, <1>3, <1>4, <1>5, <1>6, <1>7, <1>8, <1>10, <1>11, <1>12, <1>13,
           <1>14, <1>15
        DEF Next, Users, Upsets

\* The initial state is well typed.
LEMMA TypeInit == Init => TypeOK
BY DEF Init, TypeOK, WorkerTypeOK, Phases

\* Type correctness: whatever the specs, the upsets and the staleness of the
\* caches, every object the controller writes is well formed, the retry counter
\* stays a word, and the worker holds a request, an Integration and a status
\* exactly while it needs them.
THEOREM TypeCorrect == Spec => []TypeOK
<1>1. Init => TypeOK
      BY TypeInit
<1>2. TypeOK /\ [Next]_vars => TypeOK'
      BY TypeStep
<1> QED BY <1>1, <1>2, PTL DEF Spec

-----------------------------------------------------------------------------
\* What any step may do to an Integration, to the cache of it and to the
\* worker's hold on it, abstracted from the actions.

\* An Integration is created with a fresh UID, edited by a user under a new
\* generation, written by the worker that holds its current version and then
\* returns, removed before it got a finalizer, or released by the worker.
IntgMove(i) ==
    \/ intgs'[i] = intgs[i]
    \/ /\ intgs[i] = Nil /\ intgs'[i] # Nil
       /\ intgs'[i].uid = uids + 1 /\ uids' = uids + 1
       /\ ~intgs'[i].finalizer /\ ~intgs'[i].deleting
       /\ intgs'[i].status.observedGeneration <= intgs'[i].gen
       /\ ~IsTrue(intgs'[i].status.conditions, "Ready")
    \/ /\ intgs[i] # Nil /\ intgs'[i] # Nil
       /\ intgs'[i].uid = intgs[i].uid /\ intgs'[i].gen = intgs[i].gen + 1
       /\ intgs'[i].finalizer = intgs[i].finalizer
       /\ intgs[i].deleting => intgs'[i].deleting
       /\ intgs'[i].deleting => intgs[i].deleting \/ intgs'[i].finalizer
       /\ intgs'[i].status = intgs[i].status
    \/ /\ pc \in {"addFinalizer", "status", "fail"} /\ pc' = "idle"
       /\ i = req /\ intgs[i] = base /\ intgs'[i] # Nil
       /\ intgs'[i].uid = base.uid /\ intgs'[i].gen = base.gen
       /\ base.finalizer => intgs'[i].finalizer
       /\ intgs'[i].deleting = base.deleting
       /\ intgs'[i].spec = base.spec
       /\ intgs'[i].status.observedGeneration <= base.gen
       /\ \/ intgs'[i].status = base.status
          \/ pc = "status" /\ intgs'[i].status = draft
          \/ ~IsTrue(intgs'[i].status.conditions, "Ready")
    \/ intgs[i] # Nil /\ ~intgs[i].finalizer /\ intgs'[i] = Nil
    \/ /\ pc = "release" /\ pc' = "idle"
       /\ i = req /\ intgs[i] = base /\ intgs'[i] = Nil

\* The cache stays or catches up, and nothing else of this moves then.
CacheMove(i) ==
    \/ icache'[i] = icache[i]
    \/ icache'[i] = intgs[i] /\ intgs' = intgs /\ uids' = uids

\* The worker waits, returns, starts on what the cache has, or goes on with the
\* Integration it holds: within a provisioning pass, or within finalization.
WorkerMove ==
    \/ UNCHANGED <<pc, req, base>>
    \/ pc' = "idle"
    \/ /\ pc = "idle" /\ req' \in Integrations /\ icache[req'] # Nil
       /\ base' = icache[req'] /\ pc' = FirstStep(icache[req'])
       /\ UNCHANGED <<intgs, icache, uids>>
    \/ /\ UNCHANGED <<req, base, intgs, icache, uids>>
       /\ \/ pc \in ProvisionSteps /\ pc' \in ProvisionSteps \cup {"status"}
          \/ pc \in FinalizeSteps /\ pc' \in FinalizeSteps

Moves ==
    /\ \A i \in Integrations : IntgMove(i) /\ CacheMove(i)
    /\ WorkerMove
    /\ uids \in Nat /\ uids' \in Nat /\ uids <= uids'

\* The effect of each edit on what the moves tell apart.
LEMMA EditEffects ==
    ASSUME NEW o \in IntegrationObject, NEW s \in Specs, NEW st \in IntegrationStatus
    PROVE  /\ LET n == WithSpec(o, s)
              IN  /\ n.uid = o.uid /\ n.gen = o.gen + 1 /\ n.finalizer = o.finalizer
                  /\ n.deleting = o.deleting /\ n.status = o.status
           /\ LET n == MarkDeleting(o)
              IN  /\ n.uid = o.uid /\ n.gen = o.gen + 1 /\ n.finalizer = o.finalizer
                  /\ n.deleting /\ n.status = o.status
           /\ LET n == WithFinalizer(o)
              IN  /\ n.uid = o.uid /\ n.gen = o.gen /\ n.finalizer
                  /\ n.deleting = o.deleting /\ n.status = o.status /\ n.spec = o.spec
           /\ LET n == WithStatus(o, st)
              IN  /\ n.uid = o.uid /\ n.gen = o.gen /\ n.finalizer = o.finalizer
                  /\ n.deleting = o.deleting /\ n.status = st /\ n.spec = o.spec
BY DEF WithSpec, MarkDeleting, WithFinalizer, WithStatus, IntegrationObject

\* Every step makes only these moves.
LEMMA StepMoves ==
    ASSUME IndInv, TypeOK', [Next]_vars
    PROVE  Moves
<1>a. uids \in Nat /\ uids' \in Nat /\ TypeOK
      BY DEF IndInv, TypeOK
<1>b. ASSUME UNCHANGED <<intgs, icache>>
      PROVE  \A i \in Integrations : IntgMove(i) /\ CacheMove(i)
      BY <1>b DEF IntgMove, CacheMove
<1>c. ASSUME UNCHANGED <<pc, req, base>> PROVE WorkerMove
      BY <1>c DEF WorkerMove
<1>1. ASSUME NEW i \in Integrations, NEW s \in Specs, CreateIntegration(i, s)
      PROVE  Moves
  <2>1. /\ intgs' = [intgs EXCEPT ![i] = NewIntegration(s, uids + 1)]
        /\ intgs[i] = Nil /\ uids' = uids + 1 /\ icache' = icache
        BY <1>1 DEF CreateIntegration, caches
  <2>2. NewIntegration(s, uids + 1) \in IntegrationObject
        BY <1>a, NewIntegrationType
  <2>3. LET n == NewIntegration(s, uids + 1)
        IN  n.uid = uids + 1 /\ ~n.finalizer /\ ~n.deleting
                /\ n.status.observedGeneration <= n.gen
                /\ ~IsTrue(n.status.conditions, "Ready")
        BY DEF NewIntegration, NewStatus, IsTrue, ConditionTypes
  <2>4. \A j \in Integrations : IntgMove(j) /\ CacheMove(j)
        BY <1>a, <2>1, <2>2, <2>3, NilAssumption DEF IntgMove, CacheMove, TypeOK
  <2>5. UNCHANGED <<pc, req, base>>
        BY <1>1 DEF CreateIntegration, worker
  <2> QED BY <1>a, <1>c, <2>1, <2>4, <2>5 DEF Moves
<1>2. ASSUME NEW i \in Integrations, NEW s \in Specs, UpdateIntegration(i, s)
      PROVE  Moves
  <2>1. /\ intgs' = [intgs EXCEPT ![i] = WithSpec(intgs[i], s)]
        /\ intgs[i] \in IntegrationObject /\ intgs[i] # Nil
        /\ UNCHANGED <<uids, icache, pc, req, base>>
        BY <1>a, <1>2 DEF UpdateIntegration, caches, bounds, worker, TypeOK
  <2>2. intgs[i].status \in IntegrationStatus
        BY <2>1 DEF IntegrationObject
  <2>3. WithSpec(intgs[i], s) \in IntegrationObject
        BY <2>1, <2>2, EditTypes
  <2>4. \A j \in Integrations : IntgMove(j) /\ CacheMove(j)
        BY <1>a, <2>1, <2>2, <2>3, EditEffects, NilAssumption DEF IntgMove, CacheMove, TypeOK
  <2> QED BY <1>a, <1>c, <2>1, <2>4 DEF Moves
<1>3. ASSUME NEW i \in Integrations, DeleteIntegration(i)
      PROVE  Moves
  <2>1. /\ intgs' = [intgs EXCEPT ![i] =
                        IF intgs[i].finalizer THEN MarkDeleting(intgs[i]) ELSE Nil]
        /\ intgs[i] \in IntegrationObject /\ intgs[i] # Nil
        /\ UNCHANGED <<uids, icache, pc, req, base>>
        BY <1>a, <1>3 DEF DeleteIntegration, caches, bounds, worker, TypeOK
  <2>2. intgs[i].status \in IntegrationStatus /\ intgs[i].spec \in Specs
        BY <2>1 DEF IntegrationObject
  <2>3. MarkDeleting(intgs[i]) \in IntegrationObject
        BY <2>1, <2>2, EditTypes
  <2>4. LET n == MarkDeleting(intgs[i])
        IN  /\ n.uid = intgs[i].uid /\ n.gen = intgs[i].gen + 1
            /\ n.finalizer = intgs[i].finalizer /\ n.deleting /\ n.status = intgs[i].status
        BY <2>1, <2>2, EditEffects
  <2>5. \A j \in Integrations : IntgMove(j) /\ CacheMove(j)
        BY <1>a, <2>1, <2>3, <2>4, NilAssumption DEF IntgMove, CacheMove, TypeOK
  <2> QED BY <1>a, <1>c, <2>1, <2>5 DEF Moves
<1>4. ASSUME NEW i \in Integrations, Reconcile(i)
      PROVE  Moves
  <2>1. UNCHANGED <<intgs, icache, uids>>
        BY <1>4 DEF Reconcile, caches, bounds
  <2>2. CASE icache[i] = Nil
        BY <1>a, <1>b, <1>c, <1>4, <2>1, <2>2 DEF Reconcile, worker, Moves
  <2>3. CASE icache[i] # Nil /\ FirstStep(icache[i]) = "idle"
    <3>1. pc' = "idle"
          BY <1>4, <2>3 DEF Reconcile
    <3> QED BY <1>a, <1>b, <2>1, <3>1 DEF Moves, WorkerMove
  <2>4. CASE icache[i] # Nil /\ FirstStep(icache[i]) # "idle"
    <3>1. pc = "idle" /\ pc' = FirstStep(icache[i]) /\ req' = i /\ base' = icache[i]
          BY <1>4, <2>4 DEF Reconcile
    <3>2. WorkerMove
          BY <2>1, <2>4, <3>1 DEF WorkerMove
    <3> QED BY <1>a, <1>b, <2>1, <3>2 DEF Moves
  <2> QED BY <2>2, <2>3, <2>4
<1>5. ASSUME NEW up \in BOOLEAN, WorkerStep(up)
      PROVE  Moves
  <2>1. UNCHANGED <<icache, uids>>
        BY <1>5 DEF WorkerStep, caches
  <2>2. ASSUME \A i \in Integrations : IntgMove(i), WorkerMove
        PROVE  Moves
        BY <1>a, <2>1, <2>2 DEF Moves, CacheMove
  <2>3. ASSUME pc # "idle"
        PROVE  /\ req \in Integrations /\ base \in IntegrationObject
               /\ base.status \in IntegrationStatus /\ base.gen \in Nat
               /\ base.spec \in Specs
               /\ pc \in ProvisionSteps \cup {"status"} => draft \in IntegrationStatus
        BY <1>a, <2>3 DEF TypeOK, WorkerTypeOK, IntegrationObject
  \* Steps that go on, and steps that return without a write.
  <2>4. ASSUME UNCHANGED <<intgs, req, base>>,
               \/ pc \in ProvisionSteps /\ pc' \in ProvisionSteps \cup {"status"}
               \/ pc \in FinalizeSteps /\ pc' \in FinalizeSteps
        PROVE  Moves
        BY <2>1, <2>2, <2>4 DEF IntgMove, WorkerMove
  <2>5. ASSUME UNCHANGED intgs, Idle
        PROVE  Moves
        BY <2>2, <2>5 DEF IntgMove, WorkerMove, Idle
  \* An accepted write of the Integration the worker holds.
  <2>6. ASSUME pc \in {"addFinalizer", "status", "fail"}, Idle, Fresh,
               NEW o \in IntegrationObject, intgs' = [intgs EXCEPT ![req] = o],
               o.uid = base.uid, o.gen = base.gen, base.finalizer => o.finalizer,
               o.deleting = base.deleting, o.status.observedGeneration <= base.gen,
               o.spec = base.spec,
               \/ o.status = base.status
               \/ pc = "status" /\ o.status = draft
               \/ ~IsTrue(o.status.conditions, "Ready")
        PROVE  Moves
    <3>1. pc # "idle" /\ req \in Integrations
          BY <2>3, <2>6
    <3>2. \A i \in Integrations : IntgMove(i)
          BY <1>a, <2>6, <3>1, NilAssumption DEF IntgMove, Fresh, Idle, TypeOK
    <3> QED BY <2>2, <2>6, <3>2 DEF WorkerMove, Idle
  <2>7. CASE AddFinalizer(up)
    <3>1. pc = "addFinalizer" /\ pc # "idle" /\ Idle
          BY <2>7 DEF AddFinalizer, Return, Retry
    <3>2. WithFinalizer(base) \in IntegrationObject
          BY <2>3, <3>1, EditTypes
    <3>3. LET n == WithFinalizer(base)
          IN  /\ n.uid = base.uid /\ n.gen = base.gen /\ n.finalizer
              /\ n.deleting = base.deleting /\ n.status = base.status /\ n.spec = base.spec
          BY <2>3, <3>1, EditEffects
    <3>4. CASE up /\ Fresh
      <4>1. intgs' = [intgs EXCEPT ![req] = WithFinalizer(base)]
            BY <2>7, <3>4 DEF AddFinalizer
      <4>2. base.status.observedGeneration <= base.gen
            BY <2>3, <3>1, <3>4, NilAssumption DEF Fresh, IndInv, StoredOK
      <4> QED BY <2>6, <3>1, <3>2, <3>3, <3>4, <4>1, <4>2
    <3>5. CASE ~(up /\ Fresh)
          BY <2>5, <2>7, <3>1, <3>5 DEF AddFinalizer
    <3> QED BY <3>4, <3>5
  <2>8. CASE CheckTenant(up)
    <3>1. pc = "tenant" /\ UNCHANGED intgs
          BY <2>8 DEF CheckTenant
    <3>2. \/ Idle
          \/ pc' \in {"resolve", "status"} /\ UNCHANGED <<req, base>>
          BY <2>8 DEF CheckTenant, Retry, BlockOnDependency, Finish, GotoWith
    <3> QED BY <2>4, <2>5, <3>1, <3>2 DEF ProvisionSteps
  <2>9. CASE ResolveAuthSecret(up)
    <3>1. pc = "resolve" /\ UNCHANGED intgs
          BY <2>9 DEF ResolveAuthSecret
    <3>2. pc' \in {"fail", "status", "connection"} /\ UNCHANGED <<req, base>>
          BY <2>9 DEF ResolveAuthSecret, Goto, BlockOnDependency, Finish, GotoWith
    <3> QED BY <2>4, <3>1, <3>2 DEF ProvisionSteps
  <2>10. CASE ReconcileConnectionSecret(up)
    <3>1. /\ pc = "connection" /\ pc' \in {"fail", "probe"}
          /\ UNCHANGED <<intgs, req, base>>
          BY <2>10 DEF ReconcileConnectionSecret
    <3> QED BY <2>4, <3>1 DEF ProvisionSteps
  <2>11. CASE Probe
    <3>1. pc = "probe" /\ pc' = "status" /\ UNCHANGED <<intgs, req, base>>
          BY <2>11 DEF Probe, Finish
    <3> QED BY <2>4, <3>1 DEF ProvisionSteps
  <2>12. CASE UpdateStatus(up)
    <3>1. pc = "status" /\ pc # "idle" /\ Idle
          BY <2>12 DEF UpdateStatus, Return, Retry
    <3>2. CASE up /\ Fresh
      <4>1. intgs' = [intgs EXCEPT ![req] = WithStatus(base, draft)]
            BY <2>12, <3>2 DEF UpdateStatus, Fresh
      <4>2. WithStatus(base, draft) \in IntegrationObject
            BY <2>3, <3>1, EditTypes
      <4>3. LET n == WithStatus(base, draft)
            IN  /\ n.uid = base.uid /\ n.gen = base.gen /\ n.finalizer = base.finalizer
                /\ n.deleting = base.deleting /\ n.status = draft /\ n.spec = base.spec
            BY <2>3, <3>1, EditEffects
      <4>4. draft.observedGeneration <= base.gen
            BY <2>3, <3>1 DEF IndInv, DraftOK
      <4> QED BY <2>6, <3>1, <3>2, <4>1, <4>2, <4>3, <4>4
    <3>3. CASE ~(up /\ Fresh)
          BY <2>5, <2>12, <3>1, <3>3 DEF UpdateStatus
    <3> QED BY <3>2, <3>3
  <2>13. CASE Fail(up)
    <3> DEFINE st == Reported(FailedStatus(draft), "Failed", base.gen)
    <3>1. pc = "fail" /\ pc # "idle" /\ Idle
          BY <2>13 DEF Fail, Retry
    <3>2. draft \in IntegrationStatus /\ "Failed" \in Phases
          BY <2>3, <3>1 DEF ProvisionSteps, Phases
    <3>3. FailedStatus(draft) \in IntegrationStatus
          BY <2>3, <3>1, <3>2, StatusTypes
    <3>4. /\ st \in IntegrationStatus /\ st.observedGeneration = base.gen
          /\ st.conditions = FailedStatus(draft).conditions
          BY <2>3, <3>1, <3>2, <3>3, StatusTypes DEF Reported, IntegrationStatus
    <3>5. ~IsTrue(FailedStatus(draft).conditions, "Ready")
          BY <3>2 DEF FailedStatus, MarkFalse, MarkTrue, IsTrue, IntegrationStatus,
             ConditionTypes
    <3>6. CASE up /\ Fresh
      <4>1. intgs' = [intgs EXCEPT ![req] = WithStatus(base, st)]
            BY <2>13, <3>6 DEF Fail
      <4> HIDE DEF st
      <4>2. WithStatus(base, st) \in IntegrationObject
            BY <2>3, <3>1, <3>4, EditTypes
      <4>3. LET n == WithStatus(base, st)
            IN  /\ n.uid = base.uid /\ n.gen = base.gen /\ n.finalizer = base.finalizer
                /\ n.deleting = base.deleting /\ n.status = st /\ n.spec = base.spec
            BY <2>3, <3>1, <3>4, EditEffects
      <4>4. st.observedGeneration <= base.gen
            BY <2>3, <3>1, <3>4
      <4> QED BY <2>6, <3>1, <3>4, <3>6, <3>5, <4>1, <4>2, <4>3, <4>4
    <3>7. CASE ~(up /\ Fresh)
          BY <2>5, <2>13, <3>1, <3>7 DEF Fail
    <3> QED BY <3>6, <3>7
  <2>14. CASE DeleteConnectionSecret(up)
    <3>1. pc = "deleteSecret" /\ UNCHANGED intgs
          BY <2>14 DEF DeleteConnectionSecret
    <3>2. \/ Idle
          \/ pc' = "release" /\ UNCHANGED <<req, base>>
          BY <2>14 DEF DeleteConnectionSecret, Retry, Goto, GotoWith
    <3> QED BY <2>4, <2>5, <3>1, <3>2 DEF FinalizeSteps
  <2>15. CASE Release(up)
    <3>1. pc = "release" /\ pc # "idle" /\ Idle
          BY <2>15 DEF Release, Return, Retry
    <3>2. CASE up /\ Fresh
      <4>1. intgs' = [intgs EXCEPT ![req] = Nil]
            BY <2>15, <3>2 DEF Release
      <4>2. \A i \in Integrations : IntgMove(i)
            BY <1>a, <2>3, <3>1, <3>2, <4>1 DEF IntgMove, Fresh, Idle, TypeOK
      <4> QED BY <2>2, <3>1, <4>2 DEF WorkerMove, Idle
    <3>3. CASE ~(up /\ Fresh)
          BY <2>5, <2>15, <3>1, <3>3 DEF Release
    <3> QED BY <3>2, <3>3
  <2> QED BY <1>5, <2>7, <2>8, <2>9, <2>10, <2>11, <2>12, <2>13, <2>14, <2>15 DEF WorkerStep
<1>6. ASSUME NEW i \in Integrations, CacheIntegration(i)
      PROVE  Moves
  <2>1. /\ icache' = [icache EXCEPT ![i] = intgs[i]]
        /\ UNCHANGED <<intgs, uids, pc, req, base>>
        BY <1>6 DEF CacheIntegration, worker, bounds
  <2>2. \A j \in Integrations : IntgMove(j) /\ CacheMove(j)
        BY <1>a, <2>1 DEF IntgMove, CacheMove, TypeOK
  <2> QED BY <1>a, <1>c, <2>1, <2>2 DEF Moves
\* Steps around the worker and the Integrations.
<1>7. ASSUME UNCHANGED <<intgs, icache, uids, pc, req, base>>
      PROVE  Moves
      BY <1>a, <1>b, <1>c, <1>7 DEF Moves
<1>8. ASSUME NEW i \in Integrations,
             \/ Resync(i) \/ CacheSecret(i) \/ CollectSecret(i)
             \/ AdminDeletesSecret(i) \/ AdminOverwritesSecret(i)
      PROVE  Moves
      BY <1>7, <1>8 DEF Resync, CacheSecret, CollectSecret, AdminDeletesSecret,
         AdminOverwritesSecret, caches, worker, bounds
<1>9. ASSUME NEW t, NEW h, NEW s, NEW c,
             TenantChanges(t) \/ CredentialsChange(h, s, c) \/ EndpointChanges(t)
      PROVE  Moves
      BY <1>7, <1>9 DEF TenantChanges, CredentialsChange, EndpointChanges, caches, worker
<1>10. CASE Restart
  <2>1. icache' = intgs /\ UNCHANGED <<intgs, uids>> /\ pc' = "idle"
        BY <1>10 DEF Restart, Idle
  <2> QED BY <1>a, <2>1 DEF Moves, IntgMove, CacheMove, WorkerMove
<1>11. CASE UNCHANGED vars
       BY <1>7, <1>11 DEF vars, caches, worker, bounds
<1> QED BY <1>1, <1>2, <1>3, <1>4, <1>5, <1>6, <1>8, <1>9, <1>10, <1>11
        DEF Next, Users, Upsets

-----------------------------------------------------------------------------
\* The versions the API server, the cache and the worker hold.

\* Field types of the versions in play, in the form the arithmetic needs.
LEMMA VersionTypes ==
    ASSUME TypeOK
    PROVE  /\ \A i \in Integrations :
                /\ intgs[i] # Nil => /\ intgs[i] \in IntegrationObject
                                     /\ intgs[i].uid \in Nat /\ intgs[i].gen \in Nat
                                     /\ intgs[i].status.observedGeneration \in Nat
                /\ icache[i] # Nil => /\ icache[i] \in IntegrationObject
                                      /\ icache[i].uid \in Nat /\ icache[i].gen \in Nat
           /\ pc # "idle" => /\ req \in Integrations /\ base \in IntegrationObject
                             /\ base # Nil /\ base.uid \in Nat /\ base.gen \in Nat
BY NilAssumption DEF TypeOK, WorkerTypeOK, IntegrationObject, IntegrationStatus

LEMMA StoredStep ==
    ASSUME IndInv, TypeOK', Moves
    PROVE  StoredOK'
<1> SUFFICES ASSUME NEW i \in Integrations, intgs'[i] # Nil
             PROVE  /\ intgs'[i].uid <= uids'
                    /\ intgs'[i].status.observedGeneration <= intgs'[i].gen
                    /\ intgs'[i].deleting => intgs'[i].finalizer
    BY DEF StoredOK
<1>1. IntgMove(i) /\ uids \in Nat /\ uids' \in Nat /\ uids <= uids'
      BY DEF Moves
<1>2. intgs[i] # Nil => /\ intgs[i].uid \in Nat /\ intgs[i].gen \in Nat
                        /\ intgs[i].status.observedGeneration \in Nat
                        /\ intgs[i].uid <= uids
                        /\ intgs[i].status.observedGeneration <= intgs[i].gen
                        /\ intgs[i].deleting => intgs[i].finalizer
      BY VersionTypes DEF IndInv, StoredOK
<1>3. pc \in {"addFinalizer", "status", "fail"} => base # Nil
      BY VersionTypes DEF IndInv
<1> QED BY <1>1, <1>2, <1>3 DEF IntgMove

\* A later version still follows an earlier one.
LEMMA FollowsStep ==
    ASSUME IndInv, TypeOK', Moves, NEW i \in Integrations, NEW old,
           old.uid \in Nat, old.gen \in Nat, old.uid <= uids,
           intgs[i] # Nil => Follows(intgs[i], old),
           intgs'[i] # Nil
    PROVE  Follows(intgs'[i], old)
<1>1. IntgMove(i) /\ uids \in Nat /\ uids' \in Nat
      BY DEF Moves
<1>2. /\ intgs[i] # Nil => intgs[i].uid \in Nat /\ intgs[i].gen \in Nat
      /\ pc # "idle" => base # Nil /\ base.uid \in Nat /\ base.gen \in Nat
      BY VersionTypes DEF IndInv
<1> QED BY <1>1, <1>2 DEF IntgMove, Follows

LEMMA CachedStep ==
    ASSUME IndInv, TypeOK', Moves
    PROVE  CachedOK'
<1> SUFFICES ASSUME NEW i \in Integrations, icache'[i] # Nil
             PROVE  /\ icache'[i].uid <= uids'
                    /\ intgs'[i] # Nil => Follows(intgs'[i], icache'[i])
                    /\ icache'[i].finalizer /\ ~icache'[i].deleting =>
                        intgs'[i] # Nil /\ intgs'[i].uid = icache'[i].uid
    BY DEF CachedOK
<1>1. IntgMove(i) /\ CacheMove(i) /\ uids \in Nat /\ uids' \in Nat /\ uids <= uids'
      BY DEF Moves
<1>2. CASE icache'[i] = icache[i]
  <2>1. /\ icache[i].uid \in Nat /\ icache[i].gen \in Nat /\ icache[i].uid <= uids
        /\ intgs[i] # Nil => Follows(intgs[i], icache[i])
        /\ icache[i].finalizer /\ ~icache[i].deleting =>
            intgs[i] # Nil /\ intgs[i].uid = icache[i].uid
        BY <1>2, VersionTypes DEF IndInv, CachedOK
  <2>2. intgs'[i] # Nil => Follows(intgs'[i], icache[i])
        BY <2>1, FollowsStep
  <2>3. ASSUME icache[i].finalizer, ~icache[i].deleting
        PROVE  intgs'[i] # Nil /\ intgs'[i].uid = icache[i].uid
    <3>1. intgs[i] # Nil /\ intgs[i].uid = icache[i].uid /\ intgs[i].finalizer
          BY <2>1, <2>3 DEF Follows
    <3>2. ~(pc = "release" /\ i = req /\ intgs[i] = base)
      <4> SUFFICES ASSUME pc = "release", i = req, intgs[i] = base PROVE FALSE
          OBVIOUS
      <4>1. icache[i] = base /\ base.deleting
            BY DEF IndInv, HeldOK, FinalizeSteps
      <4> QED BY <2>3, <4>1
    <3> QED BY <1>1, <3>1, <3>2 DEF IntgMove
  <2> QED BY <1>1, <1>2, <2>1, <2>2, <2>3
<1>3. CASE icache'[i] = intgs[i] /\ intgs' = intgs /\ uids' = uids
  <2>1. intgs[i].uid \in Nat /\ intgs[i].gen \in Nat /\ intgs[i].uid <= uids
        BY <1>3, VersionTypes DEF IndInv, StoredOK
  <2> QED BY <1>3, <2>1 DEF Follows
<1> QED BY <1>1, <1>2, <1>3 DEF CacheMove

\* A pass starts on the object of the API server, or on an older version.
LEMMA FirstStepHeld ==
    ASSUME NEW o
    PROVE  /\ FirstStep(o) = "addFinalizer" => ~o.finalizer
           /\ FirstStep(o) \in FinalizeSteps => o.deleting
           /\ FirstStep(o) \in ProvisionSteps \cup {"status"} => o.finalizer /\ ~o.deleting
BY DEF FirstStep, FinalizeSteps, ProvisionSteps

LEMMA HeldStep ==
    ASSUME IndInv, TypeOK', Moves
    PROVE  HeldOK'
<1>1. WorkerMove /\ uids \in Nat /\ uids' \in Nat /\ uids <= uids'
      BY DEF Moves
<1> SUFFICES ASSUME pc' # "idle" PROVE HeldOK'
    BY DEF HeldOK
<1>2. CASE UNCHANGED <<pc, req, base>>
  <2>1. /\ req \in Integrations /\ base # Nil /\ base.uid \in Nat /\ base.gen \in Nat
        /\ base.uid <= uids
        /\ intgs[req] # Nil => Follows(intgs[req], base)
        /\ intgs[req] = base => icache[req] = base
        /\ pc = "addFinalizer" => ~base.finalizer
        /\ pc \in FinalizeSteps => base.deleting
        /\ pc \in ProvisionSteps \cup {"status"} =>
            /\ base.finalizer /\ ~base.deleting
            /\ intgs[req] # Nil /\ intgs[req].uid = base.uid
        BY <1>2, VersionTypes DEF IndInv, HeldOK
  <2>2. IntgMove(req) /\ CacheMove(req)
        BY <2>1 DEF Moves
  <2>3. intgs[req] # Nil => intgs[req].uid \in Nat /\ intgs[req].gen \in Nat
        BY <2>1, VersionTypes DEF IndInv
  <2>4. intgs'[req] # Nil => Follows(intgs'[req], base)
        BY <2>1, FollowsStep
  <2>5. intgs'[req] = base => icache'[req] = base
    <3> SUFFICES ASSUME intgs'[req] = base PROVE icache'[req] = base
        OBVIOUS
    <3>1. intgs[req] = base
          BY <1>1, <1>2, <2>1, <2>2, <2>3 DEF IntgMove, Follows
    <3> QED BY <2>1, <2>2, <3>1 DEF CacheMove
  <2>6. ASSUME pc \in ProvisionSteps \cup {"status"}
        PROVE  intgs'[req] # Nil /\ intgs'[req].uid = base.uid
    <3>1. intgs[req] # Nil /\ intgs[req].uid = base.uid /\ intgs[req].finalizer
          BY <2>1, <2>6 DEF Follows
    <3> QED BY <1>2, <2>2, <2>6, <3>1 DEF IntgMove, ProvisionSteps
  <2> QED BY <1>1, <1>2, <2>1, <2>4, <2>5, <2>6 DEF HeldOK
<1>3. CASE /\ pc = "idle" /\ req' \in Integrations /\ icache[req'] # Nil
           /\ base' = icache[req'] /\ pc' = FirstStep(icache[req'])
           /\ UNCHANGED <<intgs, icache, uids>>
  <2>1. /\ base'.uid <= uids
        /\ intgs[req'] # Nil => Follows(intgs[req'], base')
        /\ base'.finalizer /\ ~base'.deleting =>
            intgs[req'] # Nil /\ intgs[req'].uid = base'.uid
        BY <1>3 DEF IndInv, CachedOK
  <2>2. /\ pc' = "addFinalizer" => ~base'.finalizer
        /\ pc' \in FinalizeSteps => base'.deleting
        /\ pc' \in ProvisionSteps \cup {"status"} => base'.finalizer /\ ~base'.deleting
        BY <1>3, FirstStepHeld
  <2> QED BY <1>3, <2>1, <2>2 DEF HeldOK
<1>4. CASE /\ UNCHANGED <<req, base, intgs, icache, uids>>
           /\ \/ pc \in ProvisionSteps /\ pc' \in ProvisionSteps \cup {"status"}
              \/ pc \in FinalizeSteps /\ pc' \in FinalizeSteps
  <2>1. pc # "idle" /\ HeldOK
        BY <1>4 DEF IndInv, ProvisionSteps, FinalizeSteps
  <2> QED BY <1>4, <2>1 DEF HeldOK, ProvisionSteps, FinalizeSteps
<1> QED BY <1>1, <1>2, <1>3, <1>4 DEF WorkerMove

\* The three ways a status gets there keep a Ready one coherent.
LEMMA ReadyStep ==
    ASSUME IndInv, TypeOK', Moves
    PROVE  ReadyStatusIsCoherent'
<1> SUFFICES ASSUME NEW i \in Integrations, intgs'[i] # Nil,
                    IsTrue(intgs'[i].status.conditions, "Ready"),
                    intgs'[i].status.observedGeneration = intgs'[i].gen
             PROVE  ~intgs'[i].deleting /\ Coherent(intgs'[i].spec, intgs'[i].status)
    BY DEF ReadyStatusIsCoherent, Coherent, IsTrue
<1>1. IntgMove(i)
      BY DEF Moves
<1>2. intgs[i] # Nil => /\ intgs[i].gen \in Nat
                        /\ intgs[i].status.observedGeneration \in Nat
                        /\ intgs[i].status.observedGeneration <= intgs[i].gen
      BY VersionTypes DEF IndInv, StoredOK
<1>3. intgs[i] # Nil /\ IsTrue(intgs[i].status.conditions, "Ready")
                     /\ intgs[i].status.observedGeneration = intgs[i].gen
      => ~intgs[i].deleting /\ Coherent(intgs[i].spec, intgs[i].status)
      BY DEF IndInv, ReadyStatusIsCoherent
<1>4. pc # "idle" => base # Nil
      BY VersionTypes DEF IndInv
<1>5. pc = "status" => /\ ~base.deleting
                       /\ IsTrue(draft.conditions, "Ready") => Coherent(base.spec, draft)
      BY DEF IndInv, HeldOK, DraftOK
<1> QED BY <1>1, <1>2, <1>3, <1>4, <1>5 DEF IntgMove

-----------------------------------------------------------------------------
\* The status in memory.

\* What each change of the status keeps and sets.
LEMMA StatusEffects ==
    ASSUME NEW st \in IntegrationStatus
    PROVE  /\ LET n == NotReady(st)
              IN  /\ n.retries = st.retries /\ n.observedEndpoint = st.observedEndpoint
                  /\ n.hasSecret = st.hasSecret /\ ~IsTrue(n.conditions, "Ready")
           /\ LET n == Progressing(st)
              IN  n.retries = st.retries /\ n.observedEndpoint = st.observedEndpoint
           /\ LET n == SecretResolved(st)
              IN  /\ n.retries = st.retries /\ n.observedEndpoint = st.observedEndpoint
                  /\ IsTrue(n.conditions, "SecretResolved")
           /\ LET n == ConnectedStatus(st)
              IN  /\ n.retries = 0 /\ ~n.hasError /\ n.hasSecret = st.hasSecret
                  /\ n.observedEndpoint = st.observedEndpoint
                  /\ n.conditions["Progressing"] = "False"
                  /\ n.conditions["Degraded"] = "Absent"
                  /\ IsTrue(n.conditions, "Connected")
                  /\ IsTrue(st.conditions, "SecretResolved") =>
                        IsTrue(n.conditions, "SecretResolved")
           /\ CountedFailure(st).retries = Incremented(st.retries)
           /\ LET n == ExhaustedStatus(st)
              IN  n.retries = st.retries /\ ~IsTrue(n.conditions, "Ready")
           /\ LET n == [st EXCEPT !.hasSecret = TRUE]
              IN  /\ n.retries = st.retries /\ n.conditions = st.conditions /\ n.hasSecret
                  /\ n.observedEndpoint = st.observedEndpoint
<1>1. st.conditions \in [ConditionTypes -> ConditionStatus]
      BY DEF IntegrationStatus
<1> QED BY <1>1 DEF IntegrationStatus, NotReady, Progressing, SecretResolved,
           ConnectedStatus, CountedFailure, ExhaustedStatus, MarkTrue, MarkFalse,
           MarkUnknown, Remove, IsTrue, ConditionTypes

LEMMA ReportedEffects ==
    ASSUME NEW st \in IntegrationStatus, NEW phase, NEW gen
    PROVE  LET n == Reported(st, phase, gen)
           IN  /\ n.phase = phase /\ n.observedGeneration = gen /\ n.retries = st.retries
               /\ n.conditions = st.conditions /\ n.hasError = st.hasError
               /\ n.hasSecret = st.hasSecret
               /\ n.observedEndpoint = st.observedEndpoint
BY DEF Reported, IntegrationStatus

\* A reconcile that has its outcome reports it for the generation it read.
LEMMA FinishDraft ==
    ASSUME NEW st \in IntegrationStatus, NEW phase, NEW after, Finish(st, phase, after),
           IsTrue(st.conditions, "Ready") =>
                Coherent(base.spec, Reported(st, phase, base.gen)),
           phase \in {"Degraded", "Failed"} => st.retries = Incremented(base.status.retries),
           after > 0 \/ phase = "Degraded"
    PROVE  DraftOK'
<1>1. /\ pc' = "status" /\ draft' = Reported(st, phase, base.gen) /\ delay' = after
      /\ base' = base
      BY DEF Finish
<1>2. /\ draft'.phase = phase /\ draft'.observedGeneration = base.gen
      /\ draft'.retries = st.retries /\ draft'.conditions = st.conditions
      BY <1>1, ReportedEffects
<1>3. IsTrue(draft'.conditions, "Ready") => Coherent(base'.spec, draft')
      BY <1>1, <1>2
<1> QED BY <1>1, <1>2, <1>3 DEF DraftOK, Coherent, IsTrue

LEMMA DraftStep ==
    ASSUME IndInv, TypeOK', [Next]_vars
    PROVE  DraftOK'
<1>a. TypeOK /\ DraftOK
      BY DEF IndInv
<1>b. ASSUME Idle PROVE DraftOK'
      BY <1>b DEF Idle, DraftOK
<1>c. ASSUME UNCHANGED worker PROVE DraftOK'
      BY <1>a, <1>c DEF worker, DraftOK, Coherent, IsTrue
<1>d. ASSUME pc' \in {"fail", "deleteSecret", "release", "addFinalizer", "idle"}
      PROVE  DraftOK'
      BY <1>d DEF DraftOK
<1>e. ASSUME pc \in ProvisionSteps
      PROVE  draft \in IntegrationStatus /\ base \in IntegrationObject
      BY <1>a, <1>e DEF TypeOK, WorkerTypeOK, ProvisionSteps
<1>1. ASSUME NEW i \in Integrations, Reconcile(i)
      PROVE  DraftOK'
  <2>1. CASE icache[i] = Nil
        BY <1>c, <1>1, <2>1 DEF Reconcile
  <2>2. CASE icache[i] # Nil
    <3> DEFINE intg == icache[i]
               step == FirstStep(intg)
    <3>1. intg \in IntegrationObject
          BY <1>a, <2>2 DEF TypeOK
    <3>2. step \in {"idle", "deleteSecret", "release", "addFinalizer", "status", "tenant"}
          BY DEF FirstStep
    <3>3. pc' = step
          BY <1>1, <2>2 DEF Reconcile
    <3>4. /\ Observed(intg) \in IntegrationStatus
          /\ Observed(intg).retries = intg.status.retries
          /\ Observed(intg).observedEndpoint = intg.spec.endpoint
      <4>1. intg.status \in IntegrationStatus /\ intg.spec \in Specs
            BY <3>1 DEF IntegrationObject
      <4>2. Observed(intg) \in IntegrationStatus
            BY <3>1, <4>1, EditTypes
      <4> QED BY <4>1, <4>2 DEF Observed, IntegrationStatus
    <3>5. CASE step = "tenant"
      <4>1. base' = intg /\ draft' = Observed(intg)
            BY <1>1, <2>2, <3>5 DEF Reconcile
      <4>2. ~intg.spec.suspend
            BY <3>5 DEF FirstStep
      <4> QED BY <3>3, <3>4, <3>5, <4>1, <4>2 DEF DraftOK
    <3>6. CASE step = "status"
      <4> DEFINE st == NotReady(Observed(intg))
      <4>1. base' = intg /\ draft' = Reported(st, "Disabled", intg.gen)
            BY <1>1, <2>2, <3>6 DEF Reconcile
      <4>2. intg.spec.suspend
            BY <3>6 DEF FirstStep
      <4>3. st \in IntegrationStatus /\ ~IsTrue(st.conditions, "Ready")
        <5>1. "None" \in Phases /\ 0 \in Nat
              BY DEF Phases
        <5> QED BY <3>4, <5>1, StatusTypes, StatusEffects
      <4> HIDE DEF st
      <4>4. /\ draft'.phase = "Disabled" /\ draft'.observedGeneration = intg.gen
            /\ draft'.conditions = st.conditions
            BY <4>1, <4>3, ReportedEffects
      <4> QED BY <3>3, <3>6, <4>1, <4>2, <4>3, <4>4 DEF DraftOK, IsTrue
    <3> QED BY <1>d, <3>2, <3>3, <3>5, <3>6
  <2> QED BY <2>1, <2>2
<1>2. ASSUME NEW up \in BOOLEAN, WorkerStep(up)
      PROVE  DraftOK'
  <2>1. CASE AddFinalizer(up)
        BY <1>b, <2>1 DEF AddFinalizer, Return, Retry
  <2>2. ASSUME BlockOnDependency(draft), pc \in ProvisionSteps PROVE DraftOK'
    <3>1. NotReady(draft) \in IntegrationStatus /\ ~IsTrue(NotReady(draft).conditions, "Ready")
      <4>1. "None" \in Phases /\ 0 \in Nat
            BY DEF Phases
      <4> QED BY <1>e, <2>2, <4>1, StatusTypes, StatusEffects
    <3>2. Finish(NotReady(draft), "Pending", dependencyPeriod) /\ dependencyPeriod > 0
          BY <2>2 DEF BlockOnDependency, dependencyPeriod
    <3> QED BY <3>1, <3>2, FinishDraft
  <2>3. CASE CheckTenant(up)
    <3>1. pc = "tenant" /\ pc \in ProvisionSteps
          BY <2>3 DEF CheckTenant, ProvisionSteps
    <3>2. CASE GotoWith("resolve", Progressing(draft))
      <4>1. pc' = "resolve" /\ draft' = Progressing(draft) /\ base' = base
            BY <3>2 DEF GotoWith
      <4>2. Progressing(draft).retries = draft.retries
              /\ Progressing(draft).observedEndpoint = draft.observedEndpoint
            BY <1>e, <3>1, StatusEffects
      <4> QED BY <1>a, <3>1, <4>1, <4>2 DEF DraftOK
    <3> QED BY <1>b, <2>2, <2>3, <3>1, <3>2 DEF CheckTenant, Retry
  <2>4. CASE ResolveAuthSecret(up)
    <3>1. pc = "resolve" /\ pc \in ProvisionSteps
          BY <2>4 DEF ResolveAuthSecret, ProvisionSteps
    <3>2. CASE pc' = "connection" /\ draft' = SecretResolved(draft) /\ base' = base
      <4>1. /\ SecretResolved(draft).retries = draft.retries
            /\ SecretResolved(draft).observedEndpoint = draft.observedEndpoint
            /\ IsTrue(SecretResolved(draft).conditions, "SecretResolved")
            BY <1>e, <3>1, StatusEffects
      <4> QED BY <1>a, <3>1, <3>2, <4>1 DEF DraftOK, IsTrue
    <3>3. \/ pc' = "fail"
          \/ BlockOnDependency(draft)
          \/ pc' = "connection" /\ draft' = SecretResolved(draft) /\ base' = base
          BY <2>4 DEF ResolveAuthSecret, Goto, GotoWith
    <3> QED BY <1>d, <2>2, <3>1, <3>2, <3>3
  <2>5. CASE ReconcileConnectionSecret(up)
    <3>1. pc = "connection" /\ pc \in ProvisionSteps /\ base' = base
          BY <2>5 DEF ReconcileConnectionSecret, ProvisionSteps
    <3>2. CASE pc' = "probe" /\ draft' = [draft EXCEPT !.hasSecret = TRUE]
      <4>1. /\ draft'.retries = draft.retries /\ draft'.conditions = draft.conditions
            /\ draft'.hasSecret /\ draft'.observedEndpoint = draft.observedEndpoint
            BY <1>e, <3>1, <3>2, StatusEffects
      <4> QED BY <1>a, <3>1, <3>2, <4>1 DEF DraftOK, IsTrue
    <3>3. \/ pc' = "fail"
          \/ pc' = "probe" /\ draft' = [draft EXCEPT !.hasSecret = TRUE]
          BY <2>5 DEF ReconcileConnectionSecret
    <3> QED BY <1>d, <3>2, <3>3
  <2>6. CASE Probe
    <3> DEFINE counted == CountedFailure(draft)
               after   == ComputeBackoff(base.spec.retryPolicy, counted.retries)
    <3>1. /\ pc = "probe" /\ draft \in IntegrationStatus
          /\ ~base.spec.suspend /\ draft.retries = base.status.retries
          /\ draft.observedEndpoint = base.spec.endpoint
          /\ IsTrue(draft.conditions, "SecretResolved") /\ draft.hasSecret
          BY <1>a, <1>e, <2>6 DEF Probe, ProvisionSteps, DraftOK
    <3>2. "None" \in Phases /\ 0 \in Nat
          BY DEF Phases
    <3>3. CASE Finish(ConnectedStatus(draft), "Connected", integrationResyncPeriod)
      <4> DEFINE st == ConnectedStatus(draft)
      <4>1. /\ st \in IntegrationStatus /\ st.retries = 0 /\ ~st.hasError /\ st.hasSecret
            /\ st.observedEndpoint = base.spec.endpoint
            /\ st.conditions["Progressing"] = "False"
            /\ st.conditions["Degraded"] = "Absent"
            /\ IsTrue(st.conditions, "Connected")
            /\ IsTrue(st.conditions, "SecretResolved")
            BY <3>1, <3>2, StatusTypes, StatusEffects
      <4>2. integrationResyncPeriod > 0
            BY DEF integrationResyncPeriod
      <4> HIDE DEF st
      <4>3. Coherent(base.spec, Reported(st, "Connected", base.gen))
        <5> DEFINE n == Reported(st, "Connected", base.gen)
        <5>1. /\ n.phase = "Connected" /\ n.retries = st.retries
              /\ n.conditions = st.conditions /\ n.hasError = st.hasError
              /\ n.hasSecret = st.hasSecret /\ n.observedEndpoint = st.observedEndpoint
          <6>1. st \in IntegrationStatus
                BY <4>1
          <6> QED BY <6>1, ReportedEffects
        <5> HIDE DEF n
        <5>2. Coherent(base.spec, n)
              BY <3>1, <4>1, <5>1 DEF Coherent
        <5> QED BY <5>2 DEF n
      <4>4. Finish(st, "Connected", integrationResyncPeriod)
            BY <3>3 DEF st
      <4> QED BY <4>1, <4>2, <4>3, <4>4, FinishDraft
    <3>4. counted \in IntegrationStatus /\ counted.retries = Incremented(base.status.retries)
          BY <3>1, <3>2, StatusTypes, StatusEffects
    <3> HIDE DEF counted
    <3>5. CASE Finish(ExhaustedStatus(counted), "Failed", integrationResyncPeriod)
      <4>1. /\ ExhaustedStatus(counted) \in IntegrationStatus
            /\ ExhaustedStatus(counted).retries = Incremented(base.status.retries)
            /\ ~IsTrue(ExhaustedStatus(counted).conditions, "Ready")
            BY <3>2, <3>4, StatusTypes, StatusEffects
      <4>2. integrationResyncPeriod > 0
            BY DEF integrationResyncPeriod
      <4> QED BY <3>5, <4>1, <4>2, FinishDraft
    <3>6. CASE Finish(NotReady(counted), "Degraded", after)
      <4>1. /\ NotReady(counted) \in IntegrationStatus
            /\ NotReady(counted).retries = Incremented(base.status.retries)
            /\ ~IsTrue(NotReady(counted).conditions, "Ready")
            BY <3>2, <3>4, StatusTypes, StatusEffects
      <4> QED BY <3>6, <4>1, FinishDraft
    <3> QED BY <2>6, <3>3, <3>5, <3>6 DEF Probe, counted
  <2>7. CASE UpdateStatus(up)
        BY <1>b, <2>7 DEF UpdateStatus, Return, Retry
  <2>8. CASE Fail(up)
        BY <1>b, <2>8 DEF Fail, Retry
  <2>9. CASE DeleteConnectionSecret(up)
        BY <1>b, <1>d, <2>9 DEF DeleteConnectionSecret, Retry, Goto, GotoWith
  <2>10. CASE Release(up)
        BY <1>b, <2>10 DEF Release, Return, Retry
  <2> QED BY <1>2, <2>1, <2>3, <2>4, <2>5, <2>6, <2>7, <2>8, <2>9, <2>10 DEF WorkerStep
<1>3. CASE Restart
      BY <1>b, <1>3 DEF Restart
\* Every other step leaves the worker alone.
<1>4. ASSUME NEW i \in Integrations,
             \/ \E s \in Specs : CreateIntegration(i, s) \/ UpdateIntegration(i, s)
             \/ DeleteIntegration(i) \/ Resync(i) \/ CacheIntegration(i) \/ CacheSecret(i)
             \/ CollectSecret(i) \/ AdminDeletesSecret(i) \/ AdminOverwritesSecret(i)
      PROVE  UNCHANGED worker
      BY <1>4 DEF CreateIntegration, UpdateIntegration, DeleteIntegration, Resync,
         CacheIntegration, CacheSecret, CollectSecret, AdminDeletesSecret,
         AdminOverwritesSecret
<1>5. ASSUME NEW t, NEW h, NEW s, NEW c,
             TenantChanges(t) \/ CredentialsChange(h, s, c) \/ EndpointChanges(t)
      PROVE  UNCHANGED worker
      BY <1>5 DEF TenantChanges, CredentialsChange, EndpointChanges
<1>6. CASE UNCHANGED vars
      BY <1>c, <1>6 DEF vars
<1> QED BY <1>c, <1>1, <1>2, <1>3, <1>4, <1>5, <1>6 DEF Next, Users, Upsets

-----------------------------------------------------------------------------
\* The connection Secrets.

\* A step leaves the Secret of i and the cache of it alone, changes it and so
\* raises an event of it, or brings the cache up to date and asks for a
\* reconcile (unless the operator just restarted and i has nothing).
SecretMove(i) ==
    \/ secrets'[i] = secrets[i] /\ snew'[i] = snew[i] /\ scache'[i] = scache[i]
    \/ snew'[i]
    \/ /\ secrets'[i] = secrets[i] /\ ~snew'[i] /\ scache'[i] = secrets[i]
       /\ i \in queue' \/ (pc' = "idle" /\ intgs'[i] = Nil)

LEMMA StepSecrets ==
    ASSUME IndInv, TypeOK', [Next]_vars
    PROVE  \A i \in Integrations : SecretMove(i)
<1>a. TypeOK
      BY DEF IndInv
<1>b. ASSUME UNCHANGED <<secrets, snew, scache>>
      PROVE  \A i \in Integrations : SecretMove(i)
      BY <1>b DEF SecretMove
<1>c. ASSUME NEW i \in Integrations, NEW o, WriteSecret(i, o), UNCHANGED scache
      PROVE  \A j \in Integrations : SecretMove(j)
  <2> SUFFICES ASSUME NEW j \in Integrations PROVE SecretMove(j)
      OBVIOUS
  <2>1. CASE j # i
    <3>1. secrets'[j] = secrets[j] /\ snew'[j] = snew[j]
          BY <1>a, <1>c, <2>1 DEF WriteSecret, TypeOK
    <3> QED BY <1>c, <3>1 DEF SecretMove
  <2>2. CASE j = i
    <3>1. secrets'[i] = o /\ snew'[i] = (snew[i] \/ o # secrets[i])
          BY <1>a, <1>c DEF WriteSecret, TypeOK
    <3>2. snew[i] \in BOOLEAN
          BY <1>a DEF TypeOK
    <3> QED BY <1>c, <2>2, <3>1, <3>2 DEF SecretMove
  <2> QED BY <2>1, <2>2
<1>1. ASSUME NEW i \in Integrations,
             \/ \E s \in Specs : CreateIntegration(i, s) \/ UpdateIntegration(i, s)
             \/ DeleteIntegration(i) \/ Reconcile(i) \/ Resync(i) \/ CacheIntegration(i)
      PROVE  UNCHANGED <<secrets, snew, scache>>
      BY <1>1 DEF CreateIntegration, UpdateIntegration, DeleteIntegration, Reconcile, Resync,
         CacheIntegration, objects, caches
<1>2. ASSUME NEW up \in BOOLEAN, WorkerStep(up)
      PROVE  \A i \in Integrations : SecretMove(i)
  <2>1. UNCHANGED scache
        BY <1>2 DEF WorkerStep, caches
  <2>2. ASSUME pc # "idle" PROVE req \in Integrations
        BY <1>a, <2>2 DEF TypeOK, WorkerTypeOK
  <2>3. CASE ReconcileConnectionSecret(up)
    <3>1. pc # "idle"
          BY <2>3 DEF ReconcileConnectionSecret
    <3>2. UNCHANGED <<secrets, snew>> \/ \E o : WriteSecret(req, o)
          BY <2>3 DEF ReconcileConnectionSecret, objects
    <3> QED BY <1>b, <1>c, <2>1, <2>2, <3>1, <3>2
  <2>4. CASE DeleteConnectionSecret(up)
    <3>1. pc # "idle"
          BY <2>4 DEF DeleteConnectionSecret
    <3>2. UNCHANGED <<secrets, snew>> \/ WriteSecret(req, Nil)
          BY <2>4 DEF DeleteConnectionSecret, objects
    <3> QED BY <1>b, <1>c, <2>1, <2>2, <3>1, <3>2
  <2>5. CASE \/ AddFinalizer(up) \/ CheckTenant(up) \/ ResolveAuthSecret(up) \/ Probe
             \/ UpdateStatus(up) \/ Fail(up) \/ Release(up)
    <3>1. UNCHANGED <<secrets, snew>>
          BY <2>5 DEF AddFinalizer, CheckTenant, ResolveAuthSecret, Probe, UpdateStatus, Fail,
             Release, objects
    <3> QED BY <1>b, <2>1, <3>1
  <2> QED BY <1>2, <2>3, <2>4, <2>5 DEF WorkerStep
<1>3. ASSUME NEW i \in Integrations, CacheSecret(i)
      PROVE  \A j \in Integrations : SecretMove(j)
      BY <1>a, <1>3 DEF CacheSecret, EnqueueOwner, SecretMove, TypeOK
<1>4. ASSUME NEW i \in Integrations,
             CollectSecret(i) \/ AdminDeletesSecret(i) \/ AdminOverwritesSecret(i)
      PROVE  (\E o : WriteSecret(i, o)) /\ UNCHANGED scache
      BY <1>4 DEF CollectSecret, AdminDeletesSecret, AdminOverwritesSecret, caches
<1>5. ASSUME NEW t, NEW h, NEW s, NEW c,
             TenantChanges(t) \/ CredentialsChange(h, s, c) \/ EndpointChanges(t)
      PROVE  UNCHANGED <<secrets, snew, scache>>
      BY <1>5 DEF TenantChanges, CredentialsChange, EndpointChanges, objects, caches
<1>6. CASE Restart
      BY <1>a, <1>6 DEF Restart, Idle, SecretMove, TypeOK
<1>7. CASE UNCHANGED vars
      BY <1>b, <1>7 DEF vars, objects, caches
<1> QED BY <1>b, <1>c, <1>1, <1>2, <1>3, <1>4, <1>5, <1>6, <1>7 DEF Next, Users, Upsets

-----------------------------------------------------------------------------
\* A step of nobody but the environment: the worker and the series stay, no
\* request or timer is lost, and a change of the cache asks for a reconcile.
OutsideMove ==
    /\ UNCHANGED <<worker, gauge>>
    /\ \A i \in Integrations :
        /\ i \in queue => i \in queue'
        /\ i \in resync => i \in resync' \/ i \in queue'
        /\ icache'[i] = icache[i] \/ i \in queue'

\* Every step is one of a worker, a restart, or the environment's.
LEMMA StepKinds ==
    ASSUME TypeOK, [Next]_vars
    PROVE  \/ \E i \in Integrations : Reconcile(i)
           \/ \E up \in BOOLEAN : WorkerStep(up)
           \/ Restart
           \/ OutsideMove
<1>1. ASSUME NEW i \in Integrations, CacheIntegration(i)
      PROVE  OutsideMove
      BY <1>1 DEF CacheIntegration, OutsideMove, TypeOK
<1>2. ASSUME NEW i \in Integrations,
             \/ \E s \in Specs : CreateIntegration(i, s) \/ UpdateIntegration(i, s)
             \/ DeleteIntegration(i) \/ CacheSecret(i) \/ CollectSecret(i)
             \/ AdminDeletesSecret(i) \/ AdminOverwritesSecret(i)
      PROVE  UNCHANGED <<worker, gauge, resync, icache>> /\ queue \subseteq queue'
      BY <1>2 DEF CreateIntegration, UpdateIntegration, DeleteIntegration, CacheSecret,
         EnqueueOwner, CollectSecret, AdminDeletesSecret, AdminOverwritesSecret, caches
<1>3. ASSUME NEW t, NEW h, NEW s, NEW c,
             TenantChanges(t) \/ CredentialsChange(h, s, c) \/ EndpointChanges(t)
      PROVE  UNCHANGED <<worker, gauge, resync, icache, queue>>
      BY <1>3 DEF TenantChanges, CredentialsChange, EndpointChanges, caches
<1>4. ASSUME NEW i \in Integrations, Resync(i)
      PROVE  OutsideMove
      BY <1>4 DEF Resync, OutsideMove, caches
<1>5. ASSUME UNCHANGED <<worker, gauge, resync, icache>>, queue \subseteq queue'
      PROVE  OutsideMove
      BY <1>5 DEF OutsideMove
<1>6. CASE UNCHANGED vars
      BY <1>5, <1>6 DEF vars, caches
<1> QED BY <1>1, <1>2, <1>3, <1>4, <1>5, <1>6 DEF Next, Users, Upsets

\* What a pass wrote stays in place until an event of it is on its way.
LEMMA PlaceStep ==
    ASSUME IndInv, TypeOK', NEW i \in Integrations, SecretMove(i), NEW intg,
           snew[i] \/ i \in queue \/ InPlace(i, intg),
           i \in queue => i \in queue', pc' # "idle"
    PROVE  snew'[i] \/ i \in queue' \/ InPlace(i, intg)'
BY DEF SecretMove, InPlace, IndInv, TypeOK

\* SecretsOK, of the pass that is running.
Place ==
    pc = "probe" \/ (pc = "status" /\ draft.phase \in ProbedPhases) =>
        snew[req] \/ req \in queue \/ InPlace(req, base)

LEMMA SecretsStep ==
    ASSUME IndInv, TypeOK', [Next]_vars
    PROVE  SecretsOK'
<1>a. TypeOK /\ SecretsOK
      BY DEF IndInv
<1>b. \A i \in Integrations : SecretMove(i)
      BY StepSecrets
<1>1. \A i \in Integrations : ~snew'[i] => scache'[i] = secrets'[i]
      BY <1>a, <1>b DEF SecretMove, SecretsOK
<1>2. ASSUME pc' \notin {"probe", "status"}
      PROVE  Place'
      BY <1>2 DEF Place
<1>3. ASSUME NEW i \in Integrations, Reconcile(i)
      PROVE  Place'
  <2>1. CASE icache[i] = Nil
        BY <1>2, <1>3, <2>1 DEF Reconcile, worker
  <2>2. CASE icache[i] # Nil /\ FirstStep(icache[i]) # "status"
    <3>1. pc' = FirstStep(icache[i])
          BY <1>3, <2>2 DEF Reconcile
    <3>2. FirstStep(icache[i]) # "probe"
          BY DEF FirstStep
    <3> QED BY <1>2, <2>2, <3>1, <3>2
  <2>3. CASE icache[i] # Nil /\ FirstStep(icache[i]) = "status"
    <3> DEFINE st == NotReady(Observed(icache[i]))
    <3>1. pc' = "status" /\ draft' = Reported(st, "Disabled", icache[i].gen)
          BY <1>3, <2>3 DEF Reconcile
    <3>2. icache[i].status \in IntegrationStatus
          BY <1>a, <2>3 DEF TypeOK, IntegrationObject
    <3>3. draft'.phase = "Disabled"
          BY <3>1, <3>2 DEF Reported, NotReady, Observed, IntegrationStatus
    <3> QED BY <3>1, <3>3 DEF ProbedPhases, Place
  <2> QED BY <2>1, <2>2, <2>3
<1>4. ASSUME NEW up \in BOOLEAN, WorkerStep(up)
      PROVE  Place'
  <2>1. CASE ReconcileConnectionSecret(up)
    <3> DEFINE desired == [owner |-> base.uid, data |-> BuildConnectionData(base.spec, creds)]
               r == CreateOrUpdate(scache[req], secrets[req], ~snew[req], Nil, desired)
    <3> SUFFICES ASSUME pc' = "probe" PROVE snew'[req] \/ InPlace(req, base)'
        BY <2>1 DEF ReconcileConnectionSecret, Place, InPlace
    <3>1. WriteSecret(req, r.object) /\ r.ok /\ req' = req /\ base' = base
          BY <2>1 DEF ReconcileConnectionSecret
    <3>2. req \in Integrations /\ base \in IntegrationObject
          BY <1>a, <2>1 DEF ReconcileConnectionSecret, TypeOK, WorkerTypeOK
    <3>3. ~snew[req] => scache[req] = secrets[req]
          BY <1>a, <3>2 DEF SecretsOK
    <3>4. r.object = desired \/ (snew[req] /\ r.object = secrets[req])
      <4>1. snew[req] \in BOOLEAN
            BY <1>a, <3>2 DEF TypeOK
      <4> QED BY <3>1, <3>3, <4>1 DEF CreateOrUpdate, Ok, Failed
    <3> HIDE DEF r
    <3>5. snew[req] => snew'[req]
          BY <1>a, <3>1, <3>2 DEF WriteSecret, TypeOK
    <3>6. secrets'[req] = r.object
          BY <1>a, <3>1, <3>2 DEF WriteSecret, TypeOK
    <3>7. r.object = desired => InPlace(req, base)'
      <4>1. /\ desired.owner = base.uid /\ desired.data.endpoint = base.spec.endpoint
            /\ desired.data # Nil /\ desired # Nil
        <5>1. base.spec \in Specs /\ creds \in Credentials \cup {Nil}
              BY <1>a, <2>1, <3>2 DEF ReconcileConnectionSecret, TypeOK, WorkerTypeOK,
                 IntegrationObject
        <5>2. desired \in SecretObject
              BY <3>2, <5>1 DEF SecretObject, IntegrationObject
        <5> QED BY <5>1, <5>2, NilAssumption DEF BuildConnectionData
      <4> HIDE DEF desired
      <4> QED BY <3>1, <3>6, <4>1 DEF InPlace
    <3> QED BY <3>4, <3>5, <3>7
  <2>2. CASE Probe
    <3>1. /\ pc = "probe" /\ pc' = "status"
          /\ UNCHANGED <<queue, req, base>>
          BY <2>2 DEF Probe, Finish
    <3>2. req \in Integrations
          BY <1>a, <3>1 DEF TypeOK, WorkerTypeOK
    <3>3. snew[req] \/ req \in queue \/ InPlace(req, base)
          BY <1>a, <3>1 DEF SecretsOK
    <3>4. snew'[req] \/ req \in queue' \/ InPlace(req, base)'
          BY <1>b, <3>1, <3>2, <3>3, PlaceStep DEF InPlace
    <3> QED BY <3>1, <3>4 DEF Place, InPlace
  <2>3. ASSUME BlockOnDependency(draft), pc \in ProvisionSteps
        PROVE  Place'
    <3>1. draft \in IntegrationStatus
          BY <1>a, <2>3 DEF TypeOK, WorkerTypeOK, ProvisionSteps
    <3>2. draft'.phase = "Pending"
          BY <2>3, <3>1 DEF BlockOnDependency, Finish, Reported, NotReady, IntegrationStatus
    <3>3. pc' = "status"
          BY <2>3 DEF BlockOnDependency, Finish
    <3> QED BY <3>2, <3>3 DEF ProbedPhases, Place
  <2>4. CASE CheckTenant(up) \/ ResolveAuthSecret(up)
    <3>1. pc' \in {"idle", "resolve", "connection", "fail"} \/ BlockOnDependency(draft)
          BY <2>4 DEF CheckTenant, ResolveAuthSecret, Retry, Idle, Goto, GotoWith
    <3>2. pc \in ProvisionSteps
          BY <2>4 DEF CheckTenant, ResolveAuthSecret, ProvisionSteps
    <3> QED BY <1>2, <2>3, <3>1, <3>2
  <2>5. CASE \/ AddFinalizer(up) \/ UpdateStatus(up) \/ Fail(up)
             \/ DeleteConnectionSecret(up) \/ Release(up)
    <3>1. pc' \in {"idle", "release"}
          BY <2>5 DEF AddFinalizer, UpdateStatus, Fail, DeleteConnectionSecret, Release,
             Return, Retry, Idle, Goto, GotoWith
    <3> QED BY <1>2, <3>1
  <2> QED BY <1>4, <2>1, <2>2, <2>4, <2>5 DEF WorkerStep
<1>5. ASSUME Restart PROVE Place'
      BY <1>2, <1>5 DEF Restart, Idle
<1>6. ASSUME OutsideMove PROVE Place'
  <2> SUFFICES ASSUME pc' = "probe" \/ (pc' = "status" /\ draft'.phase \in ProbedPhases)
               PROVE  snew'[req'] \/ req' \in queue' \/ InPlace(req, base)'
      BY DEF Place, InPlace
  <2>1. UNCHANGED <<pc, req, base, draft>>
        BY <1>6 DEF OutsideMove, worker
  <2>2. req \in Integrations
        BY <1>a, <2>1 DEF TypeOK, WorkerTypeOK
  <2>3. snew[req] \/ req \in queue \/ InPlace(req, base)
        BY <1>a, <2>1 DEF SecretsOK
  <2>4. req \in queue => req \in queue'
        BY <1>6, <2>2 DEF OutsideMove
  <2>5. pc' # "idle"
        OBVIOUS
  <2> QED BY <1>b, <2>1, <2>2, <2>3, <2>4, <2>5, PlaceStep DEF InPlace
<1>7. Place'
      BY <1>a, <1>3, <1>4, <1>5, <1>6, StepKinds
<1> QED BY <1>1, <1>7 DEF SecretsOK, Place, InPlace

\* By the time the finalizer may go, the Secret the status names is gone.
LEMMA CredentialsStep ==
    ASSUME IndInv, TypeOK', [Next]_vars
    PROVE  CredentialsGoFirst'
<1>a. TypeOK /\ CredentialsGoFirst
      BY DEF IndInv
<1>b. ASSUME pc' # "release" PROVE CredentialsGoFirst'
      BY <1>b DEF CredentialsGoFirst
<1>c. ASSUME UNCHANGED <<pc, req, base>>,
             \A i \in Integrations : secrets[i] = Nil => secrets'[i] = Nil
      PROVE  CredentialsGoFirst'
      BY <1>a, <1>c DEF CredentialsGoFirst, TypeOK, WorkerTypeOK
<1>1. ASSUME NEW i \in Integrations, Reconcile(i)
      PROVE  CredentialsGoFirst'
  <2>1. CASE icache[i] = Nil
        BY <1>b, <1>1, <2>1 DEF Reconcile, worker
  <2>2. CASE icache[i] # Nil
    <3>1. pc' = FirstStep(icache[i]) /\ (pc' = "release" => base' = icache[i])
          BY <1>1, <2>2 DEF Reconcile
    <3>2. FirstStep(icache[i]) = "release" => ~icache[i].status.hasSecret
          BY DEF FirstStep
    <3> QED BY <3>1, <3>2 DEF CredentialsGoFirst
  <2> QED BY <2>1, <2>2
<1>2. ASSUME NEW up \in BOOLEAN, WorkerStep(up)
      PROVE  CredentialsGoFirst'
  <2>1. CASE DeleteConnectionSecret(up)
    <3>1. pc = "deleteSecret" /\ req \in Integrations
          BY <1>a, <2>1 DEF DeleteConnectionSecret, TypeOK, WorkerTypeOK
    <3>2. CASE up
      <4>1. secrets' = [secrets EXCEPT ![req] = Nil] /\ req' = req
            BY <2>1, <3>2 DEF DeleteConnectionSecret, WriteSecret, Goto, GotoWith
      <4>2. secrets'[req'] = Nil
            BY <1>a, <3>1, <4>1 DEF TypeOK
      <4> QED BY <4>2 DEF CredentialsGoFirst
    <3>3. CASE ~up
          BY <1>b, <2>1, <3>3 DEF DeleteConnectionSecret, Retry, Idle
    <3> QED BY <3>2, <3>3
  <2>2. CASE \/ AddFinalizer(up) \/ CheckTenant(up) \/ ResolveAuthSecret(up)
             \/ ReconcileConnectionSecret(up) \/ Probe \/ UpdateStatus(up) \/ Fail(up)
             \/ Release(up)
    <3>1. pc' # "release"
          BY <2>2 DEF AddFinalizer, CheckTenant, ResolveAuthSecret, ReconcileConnectionSecret,
             Probe, UpdateStatus, Fail, Release, BlockOnDependency, Finish, Goto, GotoWith,
             Return, Retry, Idle
    <3> QED BY <1>b, <3>1
  <2> QED BY <1>2, <2>1, <2>2 DEF WorkerStep
<1>3. CASE Restart
      BY <1>b, <1>3 DEF Restart, Idle
<1>4. ASSUME NEW i \in Integrations,
             \/ \E s \in Specs : CreateIntegration(i, s) \/ UpdateIntegration(i, s)
             \/ DeleteIntegration(i) \/ Resync(i) \/ CacheIntegration(i) \/ CacheSecret(i)
      PROVE  UNCHANGED <<pc, req, base, secrets>>
      BY <1>4 DEF CreateIntegration, UpdateIntegration, DeleteIntegration, Resync,
         CacheIntegration, CacheSecret, worker, objects
<1>5. ASSUME NEW i \in Integrations,
             CollectSecret(i) \/ AdminDeletesSecret(i) \/ AdminOverwritesSecret(i)
      PROVE  /\ UNCHANGED <<pc, req, base>>
             /\ \A j \in Integrations : secrets[j] = Nil => secrets'[j] = Nil
  <2>1. secrets[i] # Nil /\ \E o : secrets' = [secrets EXCEPT ![i] = o]
        BY <1>5 DEF CollectSecret, AdminDeletesSecret, AdminOverwritesSecret, WriteSecret
  <2>2. UNCHANGED <<pc, req, base>>
        BY <1>5 DEF CollectSecret, AdminDeletesSecret, AdminOverwritesSecret, worker
  <2> QED BY <1>a, <2>1, <2>2 DEF TypeOK
<1>6. ASSUME NEW t, NEW h, NEW s, NEW c,
             TenantChanges(t) \/ CredentialsChange(h, s, c) \/ EndpointChanges(t)
      PROVE  UNCHANGED <<pc, req, base, secrets>>
      BY <1>6 DEF TenantChanges, CredentialsChange, EndpointChanges, worker, objects
<1>7. CASE UNCHANGED vars
      BY <1>c, <1>7 DEF vars, worker, objects
<1> QED BY <1>c, <1>1, <1>2, <1>3, <1>4, <1>5, <1>6, <1>7 DEF Next, Users, Upsets

-----------------------------------------------------------------------------
\* Phase series, requests and timers.

\* A worker step sets the series of its own request, keeps what the cache has
\* and loses no request.
LEMMA WorkerFrames ==
    ASSUME TypeOK, NEW up \in BOOLEAN, WorkerStep(up)
    PROVE  /\ pc # "idle" /\ req \in Integrations
           /\ \A j \in Integrations \ {req} : gauge'[j] = gauge[j]
           /\ icache' = icache /\ queue \subseteq queue' /\ resync \subseteq resync'
           /\ req' = req \/ (req' = Nil /\ Idle /\ (req \in queue' \/ Return))
<1>1. /\ icache' = icache
      /\ \/ AddFinalizer(up) \/ CheckTenant(up) \/ ResolveAuthSecret(up)
         \/ ReconcileConnectionSecret(up) \/ Probe \/ UpdateStatus(up) \/ Fail(up)
         \/ DeleteConnectionSecret(up) \/ Release(up)
      BY DEF WorkerStep, caches
<1>2. pc # "idle"
      BY <1>1 DEF AddFinalizer, CheckTenant, ResolveAuthSecret, ReconcileConnectionSecret,
         Probe, UpdateStatus, Fail, DeleteConnectionSecret, Release
<1>3. req \in Integrations /\ gauge \in [Integrations -> Phases]
      BY <1>2 DEF TypeOK, WorkerTypeOK
<1>4. gauge' = gauge \/ \E p : gauge' = [gauge EXCEPT ![req] = p]
      BY <1>1 DEF AddFinalizer, CheckTenant, ResolveAuthSecret, ReconcileConnectionSecret,
         Probe, UpdateStatus, Fail, DeleteConnectionSecret, Release, BlockOnDependency,
         Finish, SetPhase, ClearPhase
<1>5. \A j \in Integrations \ {req} : gauge'[j] = gauge[j]
      BY <1>3, <1>4
<1>6. queue \subseteq queue'
      BY <1>1 DEF AddFinalizer, CheckTenant, ResolveAuthSecret, ReconcileConnectionSecret,
         Probe, UpdateStatus, Fail, DeleteConnectionSecret, Release, BlockOnDependency,
         Finish, Goto, GotoWith, Return, Retry
<1>7. resync \subseteq resync'
      BY <1>1 DEF AddFinalizer, CheckTenant, ResolveAuthSecret, ReconcileConnectionSecret,
         Probe, UpdateStatus, Fail, DeleteConnectionSecret, Release, RequeueAfter
<1>8. req' = req \/ Retry \/ Return
      BY <1>1 DEF AddFinalizer, CheckTenant, ResolveAuthSecret, ReconcileConnectionSecret,
         Probe, UpdateStatus, Fail, DeleteConnectionSecret, Release, BlockOnDependency,
         Finish, Goto, GotoWith
<1>9. req' = req \/ (req' = Nil /\ Idle /\ (req \in queue' \/ Return))
      BY <1>8 DEF Return, Retry, Idle
<1> QED BY <1>1, <1>2, <1>3, <1>5, <1>6, <1>7, <1>9

LEMMA SeriesStep ==
    ASSUME IndInv, TypeOK', [Next]_vars
    PROVE  SeriesOK'
<1>a. TypeOK /\ SeriesOK
      BY DEF IndInv
<1> SUFFICES ASSUME NEW j \in Integrations, icache'[j] = Nil, j \notin queue'
             PROVE  req' # j /\ gauge'[j] = "None"
    BY DEF SeriesOK
<1>1. ASSUME NEW i \in Integrations, Reconcile(i)
      PROVE  req' # j /\ gauge'[j] = "None"
  <2>1. req = Nil /\ req # j /\ gauge \in [Integrations -> Phases]
        BY <1>a, <1>1, NilAssumption DEF Reconcile, TypeOK, WorkerTypeOK
  <2>2. icache' = icache /\ queue' = queue \ {i}
        BY <1>1 DEF Reconcile, caches
  <2>3. CASE icache[i] = Nil
    <3>1. gauge' = [gauge EXCEPT ![i] = "None"] /\ req' = req
          BY <1>1, <2>3 DEF Reconcile, NotFound, ClearPhase, worker
    <3> QED BY <1>a, <2>1, <2>2, <3>1 DEF SeriesOK
  <2>4. CASE icache[i] # Nil
    <3>1. j # i
          BY <2>2, <2>4
    <3>2. gauge' = gauge \/ gauge' = [gauge EXCEPT ![i] = "Disabled"]
          BY <1>1, <2>4 DEF Reconcile, SetPhase
    <3>3. req' = req \/ req' = i
          BY <1>1, <2>4 DEF Reconcile
    <3> QED BY <1>a, <2>1, <2>2, <3>1, <3>2, <3>3 DEF SeriesOK
  <2> QED BY <2>3, <2>4
<1>2. ASSUME NEW up \in BOOLEAN, WorkerStep(up)
      PROVE  req' # j /\ gauge'[j] = "None"
  <2>1. /\ req \in Integrations
        /\ \A i \in Integrations \ {req} : gauge'[i] = gauge[i]
        /\ icache' = icache /\ queue \subseteq queue'
        /\ req' = req \/ req' = Nil
        BY <1>a, <1>2, WorkerFrames
  <2> QED BY <1>a, <2>1, NilAssumption DEF SeriesOK
<1>3. CASE Restart
      BY <1>3, NilAssumption DEF Restart, Idle
<1>4. CASE OutsideMove
      BY <1>a, <1>4 DEF OutsideMove, worker, SeriesOK
<1> QED BY <1>a, <1>1, <1>2, <1>3, <1>4, StepKinds

\* Nothing is under way for j after the step, nor was before, and what is known
\* of j has not changed.
StaysQuiet(j) ==
    /\ Quiet(j) /\ intgs'[j] = intgs[j]
    /\ j \in resync => j \in resync'
    /\ ~snew'[j] => ~snew[j] /\ secrets'[j] = secrets[j]

\* The step that makes j quiet: the worker writes the status it had read.
WritesBack(j) ==
    /\ pc = "status" /\ req = j /\ intgs[j] = base /\ intgs'[j] = base
    /\ base.status = draft
    /\ delay > 0 => j \in resync'
    /\ UNCHANGED <<queue, secrets, snew>>

\* A version the cache already has is not a new one: an Integration is quiet
\* after a step only when the step did not change it.
LEMMA QuietVersion ==
    ASSUME IndInv, TypeOK', Moves, NEW j \in Integrations, intgs'[j] # Nil,
           icache'[j] = intgs'[j]
    PROVE  intgs'[j] = intgs[j]
<1>1. IntgMove(j) /\ CacheMove(j) /\ uids \in Nat
      BY DEF Moves
<1>2. CASE icache'[j] = icache[j]
  <2>1. /\ icache[j].uid \in Nat /\ icache[j].gen \in Nat /\ icache[j].uid <= uids
        /\ intgs[j] # Nil => Follows(intgs[j], icache[j])
        BY <1>2, VersionTypes DEF IndInv, CachedOK
  <2>2. intgs[j] # Nil => intgs[j].gen \in Nat
        BY VersionTypes DEF IndInv
  <2>3. pc # "idle" /\ req = j /\ intgs[j] = base => icache[j] = base
        BY DEF IndInv, HeldOK
  <2> QED BY <1>1, <1>2, <2>1, <2>2, <2>3 DEF IntgMove, Follows
<1>3. CASE icache'[j] = intgs[j] /\ intgs' = intgs
      BY <1>3
<1> QED BY <1>1, <1>2, <1>3 DEF CacheMove

LEMMA QuietStep ==
    ASSUME IndInv, TypeOK', [Next]_vars, Moves,
           NEW j \in Integrations, intgs'[j] # Nil, Quiet(j)'
    PROVE  StaysQuiet(j) \/ WritesBack(j)
<1>a. TypeOK
      BY DEF IndInv
<1>b. intgs'[j] = intgs[j] /\ icache'[j] = intgs'[j] /\ j \notin queue' /\ req' # j
      BY QuietVersion DEF Quiet
<1>c. ~snew'[j] => ~snew[j] /\ secrets'[j] = secrets[j]
      BY <1>b, StepSecrets DEF SecretMove
<1>d. ASSUME icache'[j] = icache[j], j \notin queue, req # j, j \in resync => j \in resync'
      PROVE  StaysQuiet(j)
      BY <1>b, <1>c, <1>d DEF StaysQuiet, Quiet
<1>1. ASSUME NEW i \in Integrations, Reconcile(i)
      PROVE  StaysQuiet(j)
  <2>1. icache' = icache /\ queue' = queue \ {i} /\ resync' = resync
        BY <1>1 DEF Reconcile, caches
  <2>2. req # j
        BY <1>a, <1>1, NilAssumption DEF Reconcile, TypeOK, WorkerTypeOK
  <2>3. i # j
    <3> SUFFICES ASSUME i = j PROVE FALSE
        OBVIOUS
    <3>1. icache[j] # Nil /\ icache[j] = intgs[j]
          BY <1>b, <2>1
    <3>2. FirstStep(icache[j]) = "idle"
          BY <1>b, <1>1, <3>1 DEF Reconcile
    <3>3. icache[j].deleting /\ ~icache[j].finalizer
          BY <3>2 DEF FirstStep
    <3> QED BY <3>1, <3>3 DEF IndInv, StoredOK
  <2> QED BY <1>b, <1>d, <2>1, <2>2, <2>3
<1>2. ASSUME NEW up \in BOOLEAN, WorkerStep(up)
      PROVE  StaysQuiet(j) \/ WritesBack(j)
  <2>1. /\ pc # "idle" /\ req \in Integrations
        /\ icache' = icache /\ queue \subseteq queue' /\ resync \subseteq resync'
        /\ req' = req \/ (Idle /\ (req \in queue' \/ Return))
        BY <1>a, <1>2, WorkerFrames
  <2>2. CASE req # j
        BY <1>b, <1>d, <2>1, <2>2
  <2>3. CASE req = j
    <3>1. Return /\ req \notin queue'
          BY <1>b, <2>1, <2>3
    <3>2. ~Retry
          BY <3>1 DEF Retry
    <3>3. Idle /\ pc' = "idle" /\ queue' = queue
          BY <3>1 DEF Return, Idle
    <3>4. CASE AddFinalizer(up)
      <4>1. pc = "addFinalizer" /\ Fresh /\ intgs' = [intgs EXCEPT ![req] = WithFinalizer(base)]
            BY <3>2, <3>4 DEF AddFinalizer
      <4>2. base \in IntegrationObject /\ ~base.finalizer
            BY <1>a, <4>1 DEF TypeOK, WorkerTypeOK, IndInv, HeldOK
      <4>3. intgs'[req] = WithFinalizer(base)
            BY <1>a, <2>1, <4>1 DEF TypeOK
      <4>4. WithFinalizer(base).finalizer
            BY <4>2 DEF WithFinalizer, IntegrationObject
      <4>5. intgs'[req] = base
            BY <1>b, <2>3, <4>1 DEF Fresh
      <4> QED BY <4>2, <4>3, <4>4, <4>5
    <3>5. CASE UpdateStatus(up)
      <4>1. /\ pc = "status" /\ Fresh /\ RequeueAfter(req, delay)
            /\ intgs' = [intgs EXCEPT ![req] = WithStatus(intgs[req], draft)]
            /\ UNCHANGED <<secrets, snew>>
            BY <3>2, <3>5 DEF UpdateStatus, objects
      <4>2. base \in IntegrationObject
            BY <1>a, <4>1 DEF TypeOK, WorkerTypeOK
      <4>3. intgs'[req] = WithStatus(base, draft) /\ intgs'[req] = base
            BY <1>a, <1>b, <2>1, <2>3, <4>1 DEF TypeOK, Fresh
      <4>4. WithStatus(base, draft).status = draft
            BY <4>2 DEF WithStatus, IntegrationObject
      <4>5. delay > 0 => j \in resync'
            BY <2>3, <4>1 DEF RequeueAfter
      <4>6. base.status = draft
            BY <4>3, <4>4
      <4>7. intgs[j] = base /\ intgs'[j] = base
            BY <2>3, <4>1, <4>3 DEF Fresh
      <4> QED BY <2>3, <3>3, <4>1, <4>5, <4>6, <4>7 DEF WritesBack
    <3>6. CASE Release(up)
      <4>1. intgs' = [intgs EXCEPT ![req] = Nil]
            BY <3>2, <3>6 DEF Release
      <4> QED BY <1>a, <2>1, <2>3, <4>1 DEF TypeOK
    <3>7. CASE CheckTenant(up) \/ ResolveAuthSecret(up) \/ ReconcileConnectionSecret(up) \/ Probe
               \/ Fail(up) \/ DeleteConnectionSecret(up)
      <4>1. pc' # "idle" \/ Retry
            BY <3>7 DEF CheckTenant, ResolveAuthSecret, ReconcileConnectionSecret, Probe, Fail,
               DeleteConnectionSecret, BlockOnDependency, Finish, Goto, GotoWith
      <4> QED BY <3>2, <3>3, <4>1
    <3> QED BY <1>2, <3>4, <3>5, <3>6, <3>7 DEF WorkerStep
  <2> QED BY <2>2, <2>3
<1>3. CASE Restart
      BY <1>b, <1>3 DEF Restart
<1>4. CASE OutsideMove
  <2>1. req' = req
        BY <1>4 DEF OutsideMove, worker
  <2> QED BY <1>b, <1>d, <1>4, <2>1 DEF OutsideMove
<1> QED BY <1>a, <1>1, <1>2, <1>3, <1>4, StepKinds

LEMMA WakeupStep ==
    ASSUME IndInv, TypeOK', [Next]_vars, Moves
    PROVE  NoLostWakeup' /\ ConnectionInPlace'
<1>a. TypeOK
      BY DEF IndInv
<1>1. ASSUME NEW j \in Integrations, intgs'[j] # Nil, Quiet(j)'
      PROVE  StaysQuiet(j) \/ WritesBack(j)
      BY <1>1, QuietStep
<1>2. ASSUME NEW j \in Integrations, WritesBack(j)
      PROVE  /\ base \in IntegrationObject /\ draft \in IntegrationStatus /\ delay \in Int
             /\ base.finalizer /\ ~base.deleting
             /\ draft.observedGeneration = base.gen
             /\ \/ delay > 0
                \/ draft.phase = "Disabled" /\ base.spec.suspend
  <2>1. pc = "status" /\ base.status = draft
        BY <1>2 DEF WritesBack
  <2>2. /\ base \in IntegrationObject /\ draft \in IntegrationStatus /\ delay \in Int
        /\ base.finalizer /\ ~base.deleting
        BY <1>a, <2>1 DEF TypeOK, WorkerTypeOK, IndInv, HeldOK
  <2>3. draft.phase # "Degraded"
    <3>1. draft.phase = "Degraded" => draft.retries = Incremented(draft.retries)
          BY <2>1 DEF IndInv, DraftOK
    <3>2. draft.retries \in Word(CounterWidth)
          BY <2>2 DEF IntegrationStatus
    <3> QED BY <3>1, <3>2, IncrementedChanges
  <2> QED BY <2>1, <2>2, <2>3 DEF IndInv, DraftOK
<1>3. NoLostWakeup'
  <2> SUFFICES ASSUME NEW j \in Integrations, intgs'[j] # Nil, Quiet(j)', j \notin resync'
               PROVE  /\ ~intgs'[j].deleting /\ intgs'[j].spec.suspend
                      /\ intgs'[j].status.phase = "Disabled"
                      /\ intgs'[j].status.observedGeneration = intgs'[j].gen
      BY DEF NoLostWakeup, Quiet
  <2>1. CASE StaysQuiet(j)
    <3>1. Quiet(j) /\ intgs'[j] = intgs[j] /\ j \notin resync
          BY <2>1 DEF StaysQuiet
    <3> QED BY <3>1 DEF IndInv, NoLostWakeup
  <2>2. CASE WritesBack(j)
    <3>1. intgs'[j] = base /\ base.status = draft /\ ~(delay > 0)
          BY <2>2 DEF WritesBack
    <3> QED BY <1>2, <2>2, <3>1
  <2> QED BY <1>1, <2>1, <2>2
<1>4. ConnectionInPlace'
  <2> SUFFICES ASSUME NEW j \in Integrations, intgs'[j] # Nil, Quiet(j)', ~snew'[j],
                      intgs'[j].status.phase \in ProbedPhases
               PROVE  InPlace(j, intgs[j])'
      BY DEF ConnectionInPlace, Quiet, InPlace
  <2>1. CASE StaysQuiet(j)
    <3>1. Quiet(j) /\ intgs'[j] = intgs[j] /\ ~snew[j] /\ secrets'[j] = secrets[j]
          BY <2>1 DEF StaysQuiet
    <3>2. InPlace(j, intgs[j])
          BY <3>1 DEF IndInv, ConnectionInPlace
    <3> QED BY <3>1, <3>2 DEF InPlace
  <2>2. CASE WritesBack(j)
    <3>1. /\ pc = "status" /\ req = j /\ intgs'[j] = base /\ base.status = draft
          /\ UNCHANGED <<queue, secrets, snew>>
          BY <2>2 DEF WritesBack
    <3>2. j \notin queue
          BY <3>1 DEF Quiet
    <3>3. InPlace(j, base)
          BY <3>1, <3>2 DEF IndInv, SecretsOK
    <3> QED BY <3>1, <3>3 DEF InPlace
  <2> QED BY <1>1, <2>1, <2>2
<1> QED BY <1>3, <1>4

-----------------------------------------------------------------------------
\* The inductive invariant and what follows from it.

LEMMA IndInit == Init => IndInv
<1> SUFFICES ASSUME Init PROVE IndInv
    OBVIOUS
<1>1. TypeOK
      BY TypeInit
<1>2. StoredOK /\ CachedOK /\ HeldOK /\ DraftOK
      BY DEF Init, StoredOK, CachedOK, HeldOK, DraftOK
<1>3. SecretsOK /\ SeriesOK /\ CredentialsGoFirst
      BY NilAssumption DEF Init, SecretsOK, SeriesOK, CredentialsGoFirst
<1>4. ReadyStatusIsCoherent /\ NoLostWakeup /\ ConnectionInPlace
      BY DEF Init, ReadyStatusIsCoherent, NoLostWakeup, ConnectionInPlace
<1> QED BY <1>1, <1>2, <1>3, <1>4 DEF IndInv

LEMMA IndStep == IndInv /\ [Next]_vars => IndInv'
<1> SUFFICES ASSUME IndInv, [Next]_vars PROVE IndInv'
    OBVIOUS
<1>1. TypeOK'
      BY TypeStep DEF IndInv
<1>2. Moves
      BY <1>1, StepMoves
<1>3. StoredOK' /\ CachedOK' /\ HeldOK' /\ ReadyStatusIsCoherent'
      BY <1>1, <1>2, StoredStep, CachedStep, HeldStep, ReadyStep
<1>4. DraftOK' /\ SecretsOK' /\ SeriesOK' /\ CredentialsGoFirst'
      BY <1>1, DraftStep, SecretsStep, SeriesStep, CredentialsStep
<1>5. NoLostWakeup' /\ ConnectionInPlace'
      BY <1>1, <1>2, WakeupStep
<1> QED BY <1>1, <1>3, <1>4, <1>5 DEF IndInv

\* The strengthening is an invariant for every set of Integrations, specs,
\* endpoints and credentials and for any number of edits, API errors, restarts
\* and out-of-band changes: what the cache and the worker hold is a version of
\* the stored object or of a predecessor, the draft says what the pass has
\* established, and the Secret the pass wrote is in place or an event of it is due.
THEOREM InductiveInvariant == Spec => []IndInv
<1>1. Init => IndInv
      BY IndInit
<1>2. IndInv /\ [Next]_vars => IndInv'
      BY IndStep
<1> QED BY <1>1, <1>2, PTL DEF Spec

\* However stale the cache, credentials are published and an endpoint is probed
\* only for an Integration object that exists and has its finalizer
\* (reconcileIntegration).
THEOREM WorksOnExistingHolds == Spec => []WorksOnExisting
<1>1. IndInv => WorksOnExisting
  <2> SUFFICES ASSUME IndInv, pc \in ProvisionSteps
               PROVE  intgs[req] # Nil /\ intgs[req].uid = base.uid /\ intgs[req].finalizer
      BY DEF WorksOnExisting
  <2>1. pc # "idle"
        BY DEF ProvisionSteps
  <2> QED BY <2>1 DEF IndInv, HeldOK, Follows
<1> QED BY <1>1, InductiveInvariant, PTL

\* finalize drops the finalizer of an Integration whose status names a
\* connection Secret only once that Secret is gone.
THEOREM CredentialsGoFirstHolds == Spec => []CredentialsGoFirst
<1>1. IndInv => CredentialsGoFirst
      BY DEF IndInv
<1> QED BY <1>1, InductiveInvariant, PTL

\* A Ready status of the current generation comes from a pass that went all the
\* way to a successful probe of the endpoint in the spec (markConnected).
THEOREM ReadyStatusIsCoherentHolds == Spec => []ReadyStatusIsCoherent
<1>1. IndInv => ReadyStatusIsCoherent
      BY DEF IndInv
<1> QED BY <1>1, InductiveInvariant, PTL

\* No phase series outlives an Integration whose deletion has been observed and
\* for which no request is left (NotFound, finalize).
THEOREM NoLeakedSeriesHolds == Spec => []NoLeakedSeries
<1>1. IndInv => NoLeakedSeries
      BY DEF IndInv, SeriesOK, NoLeakedSeries
<1> QED BY <1>1, InductiveInvariant, PTL

\* An Integration nothing will bring back is a suspended one that says so, for
\* every retry policy: a computed backoff of zero or less sets no timer, but
\* then the incremented retry counter makes the status write an event.
THEOREM NoLostWakeupHolds == Spec => []NoLostWakeup
<1>1. IndInv => NoLostWakeup
      BY DEF IndInv
<1> QED BY <1>1, InductiveInvariant, PTL

\* Between two probes the connection Secret is the Integration's own and names
\* the endpoint of its spec, whoever deleted or overwrote it (Owns(Secret)).
THEOREM ConnectionInPlaceHolds == Spec => []ConnectionInPlace
<1>1. IndInv => ConnectionInPlace
      BY DEF IndInv
<1> QED BY <1>1, InductiveInvariant, PTL

\* Every failed probe that is reported adds one to the counter the API server
\* has, although the counter was read from a cache (probeAndFinish).
THEOREM EveryFailureIsCounted == Spec => EveryFailureCounted
<1>1. IndInv /\ [Next]_vars =>
        [/\ pc = "status" /\ pc' = "idle" /\ upsets' = upsets /\ req \notin queue'
         /\ draft.phase \in {"Degraded", "Failed"}
         => intgs'[req].status.retries = Incremented(intgs[req].status.retries)]_vars
  <2> SUFFICES ASSUME IndInv, [Next]_vars, pc = "status", pc' = "idle", upsets' = upsets,
                      req \notin queue', draft.phase \in {"Degraded", "Failed"}
               PROVE  intgs'[req].status.retries = Incremented(intgs[req].status.retries)
      OBVIOUS
  <2>a. TypeOK /\ upsets \in Nat
        BY DEF IndInv, TypeOK
  <2>1. PICK up \in BOOLEAN : WorkerStep(up)
    <3>1. ~Restart
          BY <2>a DEF Restart, Upset
    <3>2. ~OutsideMove
          BY DEF OutsideMove, worker
    <3>3. \A i \in Integrations : ~Reconcile(i)
          BY DEF Reconcile
    <3> QED BY <2>a, <3>1, <3>2, <3>3, StepKinds
  <2>2. UpdateStatus(up)
        BY <2>1 DEF WorkerStep, AddFinalizer, CheckTenant, ResolveAuthSecret,
           ReconcileConnectionSecret, Probe, Fail, DeleteConnectionSecret, Release
  <2>3. Fresh /\ intgs' = [intgs EXCEPT ![req] = WithStatus(intgs[req], draft)]
        BY <2>2 DEF UpdateStatus, Retry
  <2>4. req \in Integrations /\ base \in IntegrationObject
        BY <2>a DEF TypeOK, WorkerTypeOK
  <2>5. intgs'[req] = WithStatus(base, draft) /\ WithStatus(base, draft).status = draft
        BY <2>a, <2>3, <2>4 DEF TypeOK, Fresh, WithStatus, IntegrationObject
  <2>6. draft.retries = Incremented(base.status.retries)
        BY DEF IndInv, DraftOK
  <2> QED BY <2>3, <2>5, <2>6 DEF Fresh
<1> QED BY <1>1, InductiveInvariant, PTL DEF Spec, EveryFailureCounted
==============================================================================
