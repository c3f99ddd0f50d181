-------------------------- MODULE EnvironmentProofs --------------------------
(***************************************************************************)
(* Machine-checked proofs about the Environment reconciler, for any number *)
(* of Environments, specs, tenants and upsets.                             *)
(***************************************************************************)
EXTENDS Environment, CommonProofs

-----------------------------------------------------------------------------
\* Lemmas about the operators the model is built from.

LEMMA WorkloadNameType ==
    \A e \in Environments, tn \in TenantNamespaces : WorkloadName(e, tn) \in Workloads
BY DEF Workloads

\* The phase derived from an engine's report is a phase.
LEMMA DerivedPhaseType == \A s : DerivedPhase(s) \in Phases
BY DEF DerivedPhase, Phases

\* A report, in either engine's words, becomes a sync phase.
LEMMA NormalizeType ==
    \A r : NormalizeArgoSync(r) \in SyncPhases /\ NormalizeFluxReady(r) \in SyncPhases
BY DEF NormalizeArgoSync, NormalizeFluxReady, SyncPhases

\* The three statuses that are not Ready.
LEMMA NotReadyEffects ==
    ASSUME NEW o \in EnvironmentObject, NEW phase \in Phases
    PROVE  /\ NotReadyStatus(o, phase) \in EnvironmentStatus
           /\ NotReadyStatus(o, phase).observedGeneration = o.gen
           /\ NotReadyStatus(o, phase).phase = phase
           /\ ~IsTrue(NotReadyStatus(o, phase).conditions, "Ready")
<1> DEFINE c == MarkFalse(o.status.conditions, "Ready")
<1>1. /\ o.status \in EnvironmentStatus /\ o.gen \in Nat
      /\ o.status.conditions \in [ConditionTypes -> ConditionStatus]
      BY DEF EnvironmentObject, EnvironmentStatus
<1>2. c \in [ConditionTypes -> ConditionStatus]
      BY <1>1, ConditionHelpersType DEF ConditionTypes
<1>3. c["Ready"] = "False"
      BY <1>1 DEF MarkFalse, ConditionTypes
<1> HIDE DEF c
<1>4. NotReadyStatus(o, phase) = [o.status EXCEPT !.phase = phase, !.conditions = c,
                                                 !.observedGeneration = o.gen]
      BY DEF NotReadyStatus, c
<1> QED BY <1>1, <1>2, <1>3, <1>4 DEF EnvironmentStatus, IsTrue

LEMMA FailedEffects ==
    ASSUME NEW o \in EnvironmentObject, NEW w \in Workloads
    PROVE  /\ FailedStatus(o, w) \in EnvironmentStatus
           /\ FailedStatus(o, w).observedGeneration = o.gen
           /\ ~IsTrue(FailedStatus(o, w).conditions, "Ready")
<1> DEFINE c0 == MarkTrue(o.status.conditions, "Progressing")
           c1 == MarkTrue(c0, "Degraded")
           c  == MarkFalse(c1, "Ready")
<1>1. /\ o.status \in EnvironmentStatus /\ o.gen \in Nat /\ "Failed" \in Phases
      /\ o.status.conditions \in [ConditionTypes -> ConditionStatus]
      BY DEF EnvironmentObject, EnvironmentStatus, Phases
<1>2. c0 \in [ConditionTypes -> ConditionStatus]
      BY <1>1, ConditionHelpersType DEF ConditionTypes
<1>3. c1 \in [ConditionTypes -> ConditionStatus]
  <2> HIDE DEF c0
  <2> QED BY <1>2, ConditionHelpersType DEF ConditionTypes
<1>4. c \in [ConditionTypes -> ConditionStatus] /\ c["Ready"] = "False"
  <2> HIDE DEF c1
  <2>1. c \in [ConditionTypes -> ConditionStatus]
        BY <1>3, ConditionHelpersType DEF ConditionTypes
  <2> QED BY <1>3, <2>1 DEF MarkFalse, ConditionTypes
<1>5. FailedStatus(o, w) = [o.status EXCEPT !.phase = "Failed", !.conditions = c,
                                            !.observedGeneration = o.gen, !.workload = w]
      BY DEF FailedStatus
<1> HIDE DEF c
<1> QED BY <1>1, <1>4, <1>5 DEF EnvironmentStatus, IsTrue

\* A complete pass, and what it says of the spec it was over.
LEMMA ProvisionedEffects ==
    ASSUME NEW o \in EnvironmentObject, NEW w \in Workloads,
           NEW s \in SyncPhases \cup {Nil}
    PROVE  LET st == ProvisionedStatus(o, w, s)
           IN  /\ st \in EnvironmentStatus /\ st.observedGeneration = o.gen
               /\ st.phase = DerivedPhase(s) /\ st.workload = w /\ st.sync = s
               /\ st.conditions["Progressing"] = "False"
               /\ s = "Error" <=> st.conditions["Degraded"] = "True"
<1> DEFINE C  == [ConditionTypes -> ConditionStatus]
           c0 == MarkTrue(o.status.conditions, "Progressing")
           cr == MarkTrue(c0, "Ready")
           c1 == Remove(cr, "Degraded")
           c2 == IF s = "Error" THEN MarkTrue(c1, "Degraded") ELSE c1
           c  == MarkFalse(c2, "Progressing")
<1>1. o.gen \in Nat /\ o.status.conditions \in C
      BY DEF EnvironmentObject, EnvironmentStatus
<1>2. c0 \in C
      BY <1>1, ConditionHelpersType DEF ConditionTypes
<1>3. cr \in C
  <2> HIDE DEF c0
  <2> QED BY <1>2, ConditionHelpersType DEF ConditionTypes
<1>4. c1 \in C /\ c1["Degraded"] = "Absent"
  <2> HIDE DEF cr
  <2>1. c1 \in C
        BY <1>3, ConditionHelpersType DEF ConditionTypes
  <2> QED BY <1>3, <2>1 DEF Remove, ConditionTypes
<1>5. c2 \in C /\ (s = "Error" <=> c2["Degraded"] = "True")
  <2> HIDE DEF c1
  <2>1. MarkTrue(c1, "Degraded") \in C
        BY <1>4, ConditionHelpersType DEF ConditionTypes
  <2> QED BY <1>4, <2>1 DEF MarkTrue, ConditionTypes
<1>6. /\ c \in C /\ c["Progressing"] = "False"
      /\ s = "Error" <=> c["Degraded"] = "True"
  <2> HIDE DEF c2
  <2>1. c \in C
        BY <1>5, ConditionHelpersType DEF ConditionTypes
  <2> QED BY <1>5, <2>1 DEF MarkFalse, ConditionTypes
<1>7. ProvisionedStatus(o, w, s) =
        [phase |-> DerivedPhase(s), conditions |-> c, observedGeneration |-> o.gen,
         workload |-> w, sync |-> s]
      BY DEF ProvisionedStatus
<1> HIDE DEF c, C
<1> QED BY <1>1, <1>6, <1>7, DerivedPhaseType DEF EnvironmentStatus, C

\* A new Environment, and every edit of one, is an Environment.
LEMMA NewEnvironmentEffects ==
    ASSUME NEW s \in Specs, NEW u \in Nat, now \in Nat
    PROVE  /\ NewEnvironment(s, u) \in EnvironmentObject
           /\ NewEnvironment(s, u).uid = u
           /\ NewEnvironment(s, u).gen = 1
           /\ ~NewEnvironment(s, u).finalizer /\ ~NewEnvironment(s, u).deleting
           /\ NewEnvironment(s, u).status.observedGeneration = 0
<1>1. NewStatus \in EnvironmentStatus /\ NewStatus.observedGeneration = 0
      BY DEF NewStatus, EnvironmentStatus, Phases, ConditionStatus
<1> QED BY <1>1 DEF NewEnvironment, EnvironmentObject

LEMMA EditEffects ==
    ASSUME NEW o \in EnvironmentObject, NEW s \in Specs, NEW st \in EnvironmentStatus
    PROVE  /\ WithSpec(o, s) \in EnvironmentObject
           /\ WithSpec(o, s).uid = o.uid /\ WithSpec(o, s).gen = o.gen + 1
           /\ WithSpec(o, s).finalizer = o.finalizer
           /\ WithSpec(o, s).deleting = o.deleting
           /\ WithSpec(o, s).status = o.status
           /\ WithFinalizer(o) \in EnvironmentObject
           /\ WithFinalizer(o).uid = o.uid /\ WithFinalizer(o).gen = o.gen
           /\ WithFinalizer(o).finalizer /\ WithFinalizer(o).deleting = o.deleting
           /\ WithFinalizer(o).spec = o.spec /\ WithFinalizer(o).status = o.status
           /\ WithStatus(o, st) \in EnvironmentObject
           /\ WithStatus(o, st).uid = o.uid /\ WithStatus(o, st).gen = o.gen
           /\ WithStatus(o, st).finalizer = o.finalizer
           /\ WithStatus(o, st).deleting = o.deleting
           /\ WithStatus(o, st).spec = o.spec /\ WithStatus(o, st).status = st
<1>1. PICK g \in Nat : g = o.gen + 1
      BY DEF EnvironmentObject
<1>2. WithSpec(o, s) = [o EXCEPT !.spec = s, !.gen = g]
      BY <1>1 DEF WithSpec
<1>3. LET n == [o EXCEPT !.spec = s, !.gen = g]
      IN  /\ n \in EnvironmentObject /\ n.uid = o.uid /\ n.gen = g
          /\ n.finalizer = o.finalizer /\ n.deleting = o.deleting /\ n.status = o.status
      BY DEF EnvironmentObject
<1>4. /\ WithFinalizer(o) \in EnvironmentObject
      /\ WithFinalizer(o).uid = o.uid /\ WithFinalizer(o).gen = o.gen
      /\ WithFinalizer(o).finalizer /\ WithFinalizer(o).deleting = o.deleting
      /\ WithFinalizer(o).spec = o.spec /\ WithFinalizer(o).status = o.status
      BY DEF WithFinalizer, EnvironmentObject
<1>5. /\ WithStatus(o, st) \in EnvironmentObject
      /\ WithStatus(o, st).uid = o.uid /\ WithStatus(o, st).gen = o.gen
      /\ WithStatus(o, st).finalizer = o.finalizer
      /\ WithStatus(o, st).deleting = o.deleting
      /\ WithStatus(o, st).spec = o.spec /\ WithStatus(o, st).status = st
      BY DEF WithStatus, EnvironmentObject
<1> QED BY <1>1, <1>2, <1>3, <1>4, <1>5

\* A Delete leaves nothing, or the same object, deleting.
LEMMA DeletedEffects ==
    ASSUME NEW o \in EnvironmentObject
    PROVE  LET n == Deleted(o)
           IN  \/ ~o.finalizer /\ n = Nil
               \/ o.finalizer /\ o.deleting /\ n = o
               \/ /\ o.finalizer /\ ~o.deleting /\ n \in EnvironmentObject
                  /\ n.uid = o.uid /\ n.gen = o.gen + 1 /\ n.finalizer /\ n.deleting
                  /\ n.status = o.status
<1>1. o # Nil /\ o.finalizer \in BOOLEAN /\ o.deleting \in BOOLEAN
      BY NilAssumption DEF EnvironmentObject
<1>2. PICK g \in Nat : g = o.gen + 1
      BY DEF EnvironmentObject
<1>3. CASE ~o.finalizer
      BY <1>1, <1>3 DEF Deleted
<1>4. CASE o.finalizer /\ o.deleting
      BY <1>1, <1>4 DEF Deleted
<1>5. CASE o.finalizer /\ ~o.deleting
  <2>1. Deleted(o) = [o EXCEPT !.deleting = TRUE, !.gen = g]
        BY <1>1, <1>2, <1>5 DEF Deleted
  <2>2. LET n == [o EXCEPT !.deleting = TRUE, !.gen = g]
        IN  /\ n \in EnvironmentObject /\ n.uid = o.uid /\ n.gen = g
            /\ n.finalizer = o.finalizer /\ n.deleting /\ n.status = o.status
        BY DEF EnvironmentObject
  <2> QED BY <1>2, <1>5, <2>1, <2>2
<1> QED BY <1>1, <1>3, <1>4, <1>5

-----------------------------------------------------------------------------
\* Types.

\* Writes of workload namespaces, their objects and GitOps objects.
LEMMA WriteNamespaceType ==
    ASSUME TypeOK, NEW n \in Workloads, NEW o \in NamespaceObject \cup {Nil},
           WriteNamespace(n, o)
    PROVE  /\ namespaces' \in [Workloads -> NamespaceObject \cup {Nil}]
           /\ nsnew' \in [Workloads -> BOOLEAN]
           /\ children' = children /\ knew' = knew
BY DEF WriteNamespace, TypeOK

LEMMA WriteChildType ==
    ASSUME TypeOK, NEW n \in Workloads, NEW k \in Kinds,
           NEW o \in ChildValues(k) \cup {Nil}, WriteChild(n, k, o)
    PROVE  /\ ChildTypeOK(children') /\ knew' \in [Workloads -> [Kinds -> BOOLEAN]]
           /\ namespaces' = namespaces /\ nsnew' = nsnew
<1>1. /\ children = [m \in Workloads |-> [j \in Kinds |-> children[m][j]]]
      /\ \A m \in Workloads, j \in Kinds : children[m][j] \in ChildValues(j) \cup {Nil}
      BY DEF TypeOK, ChildTypeOK
<1>2. children' = [m \in Workloads |-> [j \in Kinds |->
                    IF m = n /\ j = k THEN o ELSE children[m][j]]]
      BY <1>1 DEF WriteChild
<1>3. children' = [m \in Workloads |-> [j \in Kinds |-> children'[m][j]]]
      BY <1>2
<1>4. \A m \in Workloads, j \in Kinds : children'[m][j] \in ChildValues(j) \cup {Nil}
      BY <1>1, <1>2
<1>5. knew' \in [Workloads -> [Kinds -> BOOLEAN]]
      BY DEF WriteChild, TypeOK
<1> QED BY <1>3, <1>4, <1>5 DEF WriteChild, ChildTypeOK

LEMMA WriteEngineType ==
    ASSUME TypeOK, NEW e \in Environments, NEW k \in EngineKinds,
           NEW o \in EngineObject(k) \cup {Nil}, engines' = [engines EXCEPT ![e][k] = o]
    PROVE  /\ EngineTypeOK'
           /\ \A d \in Environments, j \in EngineKinds :
                engines'[d][j] = IF d = e /\ j = k THEN o ELSE engines[d][j]
<1>1. /\ engines = [d \in Environments |-> [j \in EngineKinds |-> engines[d][j]]]
      /\ \A d \in Environments, j \in EngineKinds :
            engines[d][j] \in EngineObject(j) \cup {Nil}
      BY DEF TypeOK, EngineTypeOK
<1>2. engines' = [d \in Environments |-> [j \in EngineKinds |->
                    IF d = e /\ j = k THEN o ELSE engines[d][j]]]
      BY <1>1
<1>3. engines' = [d \in Environments |-> [j \in EngineKinds |-> engines'[d][j]]]
      BY <1>2
<1>4. \A d \in Environments, j \in EngineKinds :
        engines'[d][j] = IF d = e /\ j = k THEN o ELSE engines[d][j]
      BY <1>2
<1>5. \A d \in Environments, j \in EngineKinds :
            engines'[d][j] \in EngineObject(j) \cup {Nil}
      BY <1>1, <1>4
<1> QED BY <1>3, <1>4, <1>5 DEF EngineTypeOK

\* A namespace on its way out is a namespace.
LEMMA TerminatingType ==
    ASSUME NEW o \in NamespaceObject
    PROVE  [o EXCEPT !.terminating = TRUE] \in NamespaceObject
<1> DEFINE all == {Labels(e, s) : e \in Environments, s \in Specs} \cup {Nil}
<1>1. NamespaceObject = [terminating : BOOLEAN, labels : all]
      BY DEF NamespaceObject
<1> HIDE DEF all
<1> QED BY <1>1

\* A GitOps object its engine has reported on, or that was told to go, is one.
LEMMA EditedEngineType ==
    ASSUME NEW k \in EngineKinds, NEW o \in EngineObject(k), NEW r \in Reports(k)
    PROVE  /\ [o EXCEPT !.report = r] \in EngineObject(k)
           /\ [o EXCEPT !.report = r].owner = o.owner
           /\ [o EXCEPT !.report = r].terminating = o.terminating
           /\ [o EXCEPT !.terminating = TRUE] \in EngineObject(k)
           /\ [o EXCEPT !.terminating = TRUE].terminating = TRUE
<1> DEFINE all   == {Delivery(s, n) : s \in Specs, n \in Workloads}
           shape == [owner : Nat, terminating : BOOLEAN, report : Reports(k), delivery : all]
<1>1. EngineObject(k) = shape
      BY DEF EngineObject
<1> HIDE DEF all
<1>2. o \in shape
      BY <1>1
<1> HIDE <1>1
<1>3. /\ [o EXCEPT !.report = r] \in shape
      /\ [o EXCEPT !.report = r].owner = o.owner
      /\ [o EXCEPT !.report = r].terminating = o.terminating
      BY <1>2
<1>4. /\ [o EXCEPT !.terminating = TRUE] \in shape
      /\ [o EXCEPT !.terminating = TRUE].terminating = TRUE
      BY <1>2
<1> HIDE DEF shape
<1> QED BY <1>1, <1>3, <1>4

\* What a Delete leaves is such an object, and not an active one.
LEMMA TerminatedType ==
    ASSUME NEW k \in EngineKinds, NEW o \in EngineObject(k) \cup {Nil}
    PROVE  /\ Terminated(o) \in EngineObject(k) \cup {Nil}
           /\ Terminated(o) = Nil \/ Terminated(o).terminating
<1>1. "" \in Reports(k)
      BY DEF Reports, EngineKinds
<1>2. CASE o = Nil
      BY <1>2 DEF Terminated
<1>3. CASE o # Nil
  <2>1. o \in EngineObject(k) /\ Terminated(o) = [o EXCEPT !.terminating = TRUE]
        BY <1>3 DEF Terminated
  <2> QED BY <1>1, <2>1, EditedEngineType
<1> QED BY <1>2, <1>3

\* What a worker step never touches, and the rest of what it may.
WorkerFrame == UNCHANGED <<tenantNs, sources, ecache, nscache, kcache, now, uids>>

ObjectsTypeOK ==
    /\ namespaces' \in [Workloads -> NamespaceObject \cup {Nil}]
    /\ nsnew' \in [Workloads -> BOOLEAN]
    /\ ChildTypeOK(children') /\ knew' \in [Workloads -> [Kinds -> BOOLEAN]]

RestTypeOK ==
    /\ envs' \in [Environments -> EnvironmentObject \cup {Nil}]
    /\ EngineTypeOK'
    /\ queue' \subseteq Environments /\ resync' \subseteq Environments
    /\ gauge' \in [Environments -> Phases]

LEMMA WorkerTypes ==
    ASSUME TypeOK, WorkerFrame, upsets' \in Nat, WorkerTypeOK', ObjectsTypeOK, RestTypeOK
    PROVE  TypeOK'
BY DEF TypeOK, WorkerFrame, ObjectsTypeOK, RestTypeOK

\* What the worker holds while it runs.
LEMMA HeldTypes ==
    ASSUME TypeOK, pc # "idle"
    PROVE  /\ req \in Environments /\ base \in EnvironmentObject /\ base # Nil
           /\ base.status \in EnvironmentStatus /\ base.gen \in Nat /\ base.uid \in Nat
           /\ base.spec \in Specs /\ sync \in SyncPhases \cup {Nil}
           /\ pc \in ProvisionSteps => workload \in Workloads
           /\ pc \notin ProvisionSteps => workload = Nil
BY NilAssumption DEF TypeOK, WorkerTypeOK, EnvironmentObject

\* A CreateOrUpdate of the workload namespace leaves a namespace behind.
LEMMA NamespaceResultType ==
    ASSUME TypeOK, pc = "namespace"
    PROVE  LET n       == workload
               labels  == Labels(req, base.spec)
               desired == IF nscache[n] = Nil
                          THEN [terminating |-> FALSE, labels |-> labels]
                          ELSE [nscache[n] EXCEPT !.labels = labels]
               result  == CreateOrUpdate(nscache[n], namespaces[n], ~nsnew[n], Nil, desired)
           IN  n \in Workloads /\ result.object \in NamespaceObject \cup {Nil}
<1> DEFINE n       == workload
           labels  == Labels(req, base.spec)
           desired == IF nscache[n] = Nil
                      THEN [terminating |-> FALSE, labels |-> labels]
                      ELSE [nscache[n] EXCEPT !.labels = labels]
           result  == CreateOrUpdate(nscache[n], namespaces[n], ~nsnew[n], Nil, desired)
<1>1. n \in Workloads /\ req \in Environments /\ base.spec \in Specs
      BY HeldTypes DEF ProvisionSteps
<1>2. /\ nscache[n] \in NamespaceObject \cup {Nil}
      /\ namespaces[n] \in NamespaceObject \cup {Nil}
      BY <1>1 DEF TypeOK
<1>3. labels \in {Labels(e, s) : e \in Environments, s \in Specs} \cup {Nil}
      BY <1>1
<1> HIDE DEF labels, n
<1>4. desired \in NamespaceObject
      BY <1>2, <1>3 DEF NamespaceObject
<1> HIDE DEF desired
<1>5. result.object \in {namespaces[n], desired}
      BY DEF CreateOrUpdate, Ok, Failed
<1> QED BY <1>1, <1>2, <1>4, <1>5 DEF n, desired, labels

\* So does that of an object in it.
LEMMA ChildResultType ==
    ASSUME TypeOK, NEW k \in Kinds, pc = k
    PROVE  /\ workload \in Workloads
           /\ ApplyChild(workload, k).object \in ChildValues(k) \cup {Nil}
<1> DEFINE n == workload
           available == sources[req.namespace]
           desired == Desired(base.spec, available, k)
<1>1. /\ n \in Workloads /\ base.spec \in Specs /\ req \in Environments
      BY HeldTypes DEF ProvisionSteps, Kinds
<1>2. available \in SUBSET Secrets
  <2>1. req.namespace \in Homes
        BY <1>1 DEF Homes
  <2> QED BY <2>1 DEF TypeOK
<1>3. desired \in ChildValues(k)
  <2> HIDE DEF available
  <2> QED BY <1>1, <1>2 DEF ChildValues
<1>4. children[n][k] \in ChildValues(k) \cup {Nil}
      BY <1>1 DEF TypeOK, ChildTypeOK
<1> HIDE DEF desired, n
<1>5. ApplyChild(n, k).object \in {Nil, desired, children[n][k]}
      BY DEF ApplyChild, CreateOrUpdate, Ok, Failed, desired
<1> QED BY <1>1, <1>3, <1>4, <1>5 DEF n

LEMMA AppliedEngineType ==
    ASSUME TypeOK, pc \in EngineKinds, NEW k \in EngineKinds
    PROVE  /\ AppliedEngine(k) \in EngineObject(k)
           /\ AppliedEngine(k).owner = base.uid /\ AppliedEngine(k) # Nil
<1>1. /\ req \in Environments /\ base.spec \in Specs /\ base.uid \in Nat
      /\ workload \in Workloads
      BY HeldTypes DEF ProvisionSteps, EngineKinds
<1>2. engines[req][k] \in EngineObject(k) \cup {Nil}
      BY <1>1 DEF TypeOK, EngineTypeOK
<1>3. "" \in Reports(k)
      BY DEF Reports, EngineKinds
<1>4. AppliedEngine(k) \in EngineObject(k)
  <2> DEFINE report   == IF engines[req][k] = Nil THEN "" ELSE engines[req][k].report
             ending   == engines[req][k] # Nil /\ engines[req][k].terminating
             delivery == Delivery(base.spec, workload)
             all      == {Delivery(s, n) : s \in Specs, n \in Workloads}
  <2>1. EngineObject(k) = [owner : Nat, terminating : BOOLEAN, report : Reports(k),
                           delivery : all]
        BY DEF EngineObject
  <2>2. delivery \in all
        BY <1>1
  <2>3. AppliedEngine(k) = [owner |-> base.uid, terminating |-> ending,
                            report |-> report, delivery |-> delivery]
        BY DEF AppliedEngine
  <2> HIDE DEF delivery, all
  <2>4. report \in Reports(k)
    <3>1. CASE engines[req][k] = Nil
          BY <1>3, <3>1
    <3>2. CASE engines[req][k] # Nil
      <4>1. PICK o \in EngineObject(k) : o = engines[req][k]
            BY <1>2, <3>2
      <4>2. o.report \in Reports(k)
            BY <2>1, <4>1
      <4> QED BY <3>2, <4>1, <4>2
    <3> QED BY <3>1, <3>2
  <2>5. ending \in BOOLEAN
        OBVIOUS
  <2> HIDE DEF report, ending
  <2> QED BY <1>1, <2>1, <2>2, <2>3, <2>4, <2>5
<1> QED BY <1>4, NilAssumption DEF AppliedEngine

\* Every step of the worker keeps the types.
LEMMA WorkerStepType ==
    ASSUME TypeOK, NEW up \in BOOLEAN, WorkerStep(up)
    PROVE  TypeOK'
<1>1. WorkerFrame /\ upsets' \in Nat
      BY DEF WorkerStep, WorkerFrame, world, caches, TypeOK
<1>2. ASSUME Idle PROVE WorkerTypeOK'
      BY <1>2 DEF Idle, WorkerTypeOK
<1>3. ASSUME UNCHANGED objects PROVE ObjectsTypeOK
      BY <1>3 DEF objects, ObjectsTypeOK, TypeOK
<1>4. ASSUME UNCHANGED engines PROVE EngineTypeOK'
      BY <1>4 DEF TypeOK, EngineTypeOK
\* A step that goes on with the same Environment, at a step of the same kind.
<1>5. ASSUME pc # "idle", UNCHANGED <<req, base, workload>>,
             sync' \in SyncPhases \cup {Nil}, pc' # "teardown",
             \/ pc \in ProvisionSteps /\ pc' \in ProvisionSteps
             \/ pc \in FinalizeSteps /\ pc' \in FinalizeSteps
      PROVE  WorkerTypeOK'
  <2>1. /\ req \in Environments /\ base \in EnvironmentObject
        /\ IF pc \in ProvisionSteps THEN workload \in Workloads ELSE workload = Nil
        BY <1>5, HeldTypes
  <2>2. pc \in ProvisionSteps <=> pc' \in ProvisionSteps
        BY <1>5 DEF ProvisionSteps, FinalizeSteps, StopSteps, Kinds, EngineKinds
  <2>3. pc' \in Steps \ {"idle"}
        BY <1>5 DEF Steps, ProvisionSteps, FinalizeSteps, StopSteps, Kinds, EngineKinds
  <2> QED BY <1>5, <2>1, <2>2, <2>3 DEF WorkerTypeOK
\* A step that returns, having written the Environment or not.
<1>6. ASSUME pc # "idle", Return \/ Retry, UNCHANGED <<objects, engines>>,
             NEW o \in EnvironmentObject \cup {Nil},
             envs' = envs \/ envs' = [envs EXCEPT ![req] = o],
             resync' = resync \/ resync' = resync \cup {req},
             NEW phase \in Phases,
             gauge' = gauge \/ gauge' = [gauge EXCEPT ![req] = phase]
      PROVE  TypeOK'
  <2>1. req \in Environments
        BY <1>6, HeldTypes
  <2>2. /\ envs \in [Environments -> EnvironmentObject \cup {Nil}]
        /\ queue \subseteq Environments /\ resync \subseteq Environments
        /\ gauge \in [Environments -> Phases]
        BY DEF TypeOK
  <2>3. queue' \subseteq Environments /\ Idle
        BY <1>6, <2>1, <2>2 DEF Return, Retry
  <2>4. RestTypeOK
        BY <1>4, <1>6, <2>1, <2>2, <2>3 DEF RestTypeOK
  <2> QED BY <1>1, <1>2, <1>3, <1>6, <2>3, <2>4, WorkerTypes
<1>7. /\ "Suspended" \in Phases /\ "Pending" \in Phases /\ "Failed" \in Phases
      /\ "None" \in Phases
      BY DEF Phases
<1>8. CASE AddFinalizer(up)
  <2>1. pc # "idle" /\ WithFinalizer(base) \in EnvironmentObject
        BY <1>8, HeldTypes, EditEffects DEF AddFinalizer
  <2>2. /\ Return \/ Retry
        /\ envs' = envs \/ envs' = [envs EXCEPT ![req] = WithFinalizer(base)]
        /\ UNCHANGED <<objects, engines, resync, gauge>>
        BY <1>8 DEF AddFinalizer
  <2> QED BY <1>6, <1>7, <2>1, <2>2
<1>9. CASE Suspend(up)
  <2>1. pc # "idle" /\ SuspendedStatus(base) \in EnvironmentStatus
        BY <1>7, <1>9, HeldTypes, NotReadyEffects DEF Suspend, SuspendedStatus
  <2>2. WithStatus(base, SuspendedStatus(base)) \in EnvironmentObject
        BY <2>1, HeldTypes, EditEffects
  <2>3. /\ Return \/ Retry
        /\ envs' = envs \/ envs' = [envs EXCEPT ![req] = WithStatus(base, SuspendedStatus(base))]
        /\ gauge' = [gauge EXCEPT ![req] = "Suspended"]
        /\ UNCHANGED <<objects, engines, resync>>
        BY <1>9 DEF Suspend, SetPhase
  <2> QED BY <1>6, <1>7, <2>1, <2>2, <2>3
<1>10. CASE BlockOnDependency(up)
  <2>1. pc # "idle" /\ BlockedStatus(base) \in EnvironmentStatus
        BY <1>7, <1>10, HeldTypes, NotReadyEffects DEF BlockOnDependency, BlockedStatus
  <2>2. WithStatus(base, BlockedStatus(base)) \in EnvironmentObject
        BY <2>1, HeldTypes, EditEffects
  <2>3. /\ Return \/ Retry
        /\ envs' = envs \/ envs' = [envs EXCEPT ![req] = WithStatus(base, BlockedStatus(base))]
        /\ gauge' = [gauge EXCEPT ![req] = "Pending"]
        /\ resync' = resync \/ resync' = resync \cup {req}
        /\ UNCHANGED <<objects, engines>>
        BY <1>10 DEF BlockOnDependency, SetPhase, RequeueAfter
  <2> QED BY <1>6, <1>7, <2>1, <2>2, <2>3
<1>11. CASE Expire(up)
  <2>1. pc # "idle" /\ req \in Environments
        BY <1>11, HeldTypes DEF Expire
  <2>2. Deleted(envs[req]) \in EnvironmentObject \cup {Nil}
    <3>1. CASE envs[req] = Nil
          BY <3>1 DEF Deleted
    <3>2. CASE envs[req] # Nil
      <4>1. envs[req] \in EnvironmentObject
            BY <2>1, <3>2 DEF TypeOK
      <4> QED BY <4>1, DeletedEffects
    <3> QED BY <3>1, <3>2
  <2>3. /\ Return \/ Retry
        /\ envs' = envs \/ envs' = [envs EXCEPT ![req] = Deleted(envs[req])]
        /\ UNCHANGED <<objects, engines, resync, gauge>>
        BY <1>11 DEF Expire
  <2> QED BY <1>6, <1>7, <2>1, <2>2, <2>3
<1>12. CASE ReconcileNamespace(up)
  <2> DEFINE n       == workload
             labels  == Labels(req, base.spec)
             desired == IF nscache[n] = Nil
                        THEN [terminating |-> FALSE, labels |-> labels]
                        ELSE [nscache[n] EXCEPT !.labels = labels]
             result  == CreateOrUpdate(nscache[n], namespaces[n], ~nsnew[n], Nil, desired)
  <2>1. pc = "namespace" /\ pc' \in {"quota", "fail"}
        BY <1>12 DEF ReconcileNamespace, Goto
  <2>2. /\ UNCHANGED <<envs, engines, resync, gauge, queue, req, base, workload, sync>>
        /\ WriteNamespace(n, result.object) \/ UNCHANGED objects
        BY <1>12 DEF ReconcileNamespace, Goto
  <2>3. n \in Workloads /\ result.object \in NamespaceObject \cup {Nil}
        BY <2>1, NamespaceResultType
  <2> HIDE DEF result, n
  <2>4. ObjectsTypeOK
    <3>1. ASSUME WriteNamespace(n, result.object) PROVE ObjectsTypeOK
          BY <2>3, <3>1, WriteNamespaceType DEF ObjectsTypeOK, TypeOK
    <3> QED BY <1>3, <2>2, <3>1
  <2>5. WorkerTypeOK'
        BY <1>5, <2>1, <2>2, HeldTypes DEF ProvisionSteps, Kinds
  <2> QED BY <1>1, <1>4, <2>2, <2>4, <2>5, WorkerTypes DEF RestTypeOK, TypeOK
<1>13. ASSUME NEW k \in Kinds, ReconcileChild(k, up) PROVE TypeOK'
  <2> DEFINE object == ApplyChild(workload, k).object
  <2>1. pc = k /\ pc' \in {StepAfter(k), "fail"}
        BY <1>13 DEF ReconcileChild, Goto
  <2>2. /\ UNCHANGED <<envs, engines, resync, gauge, queue, req, base, workload, sync>>
        /\ WriteChild(workload, k, object) \/ UNCHANGED objects
        BY <1>13 DEF ReconcileChild, Goto
  <2>3. workload \in Workloads /\ object \in ChildValues(k) \cup {Nil}
        BY <2>1, ChildResultType
  <2> HIDE DEF object
  <2>4. ObjectsTypeOK
    <3>1. ASSUME WriteChild(workload, k, object) PROVE ObjectsTypeOK
          BY <2>3, <3>1, WriteChildType DEF ObjectsTypeOK, TypeOK
    <3> QED BY <1>3, <2>2, <3>1
  <2>5. pc' \in ProvisionSteps /\ pc \in ProvisionSteps /\ pc # "idle" /\ pc' # "teardown"
        BY <2>1 DEF StepAfter, ProvisionSteps, Kinds, EngineKinds
  <2>6. WorkerTypeOK'
        BY <1>5, <2>2, <2>5, HeldTypes
  <2> QED BY <1>1, <1>4, <2>2, <2>4, <2>6, WorkerTypes DEF RestTypeOK, TypeOK
\* The three GitOps objects.
<1>14. ASSUME NEW k \in EngineKinds, pc = k, NEW observed \in SyncPhases \cup {Nil},
              NEW step \in {"status", "kustomization"}, WriteEngine(k, up, observed, step),
              UNCHANGED <<envs, objects, resync, gauge>>
       PROVE  TypeOK'
  <2>1. /\ AppliedEngine(k) \in EngineObject(k)
        /\ req \in Environments /\ sync \in SyncPhases \cup {Nil}
        /\ pc # "idle" /\ pc \in ProvisionSteps
        BY <1>14, HeldTypes, AppliedEngineType DEF EngineKinds, ProvisionSteps
  <2>2. /\ UNCHANGED <<queue, req, base, workload>>
        /\ pc' \in {"status", "kustomization", "fail"}
        /\ sync' \in SyncPhases \cup {Nil}
        /\ engines' = engines \/ engines' = [engines EXCEPT ![req][k] = AppliedEngine(k)]
        BY <1>14, <2>1 DEF WriteEngine, Goto
  <2>3. EngineTypeOK'
        BY <1>4, <2>1, <2>2, WriteEngineType
  <2>4. WorkerTypeOK'
        BY <1>5, <2>1, <2>2 DEF ProvisionSteps, EngineKinds
  <2> QED BY <1>1, <1>3, <1>14, <2>2, <2>3, <2>4, WorkerTypes DEF RestTypeOK, TypeOK
<1>15. CASE ReconcileArgo(up) \/ ReconcileFluxRepo(up) \/ ReconcileFluxKustomization(up)
       BY <1>14, <1>15, NormalizeType
       DEF ReconcileArgo, ReconcileFluxRepo, ReconcileFluxKustomization, EngineKinds
<1>16. CASE WriteStatus(up)
  <2> DEFINE st == ProvisionedStatus(base, workload, sync)
  <2>1. pc = "status" /\ pc # "idle" /\ workload \in Workloads
        BY <1>16, HeldTypes DEF WriteStatus, ProvisionSteps
  <2>2. st \in EnvironmentStatus
        BY <2>1, HeldTypes, ProvisionedEffects
  <2>3. /\ Return \/ Retry
        /\ envs' = envs \/ envs' = [envs EXCEPT ![req] = WithStatus(base, st)]
        /\ gauge' = [gauge EXCEPT ![req] = DerivedPhase(sync)]
        /\ resync' = resync \/ resync' = resync \cup {req}
        /\ UNCHANGED <<objects, engines>>
        BY <1>16 DEF WriteStatus, SetPhase, RequeueAfter
  <2> HIDE DEF st
  <2>4. WithStatus(base, st) \in EnvironmentObject
        BY <2>1, <2>2, HeldTypes, EditEffects
  <2> QED BY <1>6, <2>1, <2>3, <2>4, DerivedPhaseType
<1>17. CASE Fail(up)
  <2> DEFINE st == FailedStatus(base, workload)
  <2>1. pc = "fail" /\ pc # "idle" /\ workload \in Workloads
        BY <1>17, HeldTypes DEF Fail, ProvisionSteps
  <2>2. st \in EnvironmentStatus
        BY <2>1, HeldTypes, FailedEffects
  <2>3. /\ Retry
        /\ envs' = envs \/ envs' = [envs EXCEPT ![req] = WithStatus(base, st)]
        /\ gauge' = [gauge EXCEPT ![req] = "Failed"]
        /\ UNCHANGED <<objects, engines, resync>>
        BY <1>17 DEF Fail, SetPhase
  <2> HIDE DEF st
  <2>4. WithStatus(base, st) \in EnvironmentObject
        BY <2>1, <2>2, HeldTypes, EditEffects
  <2> QED BY <1>6, <1>7, <2>1, <2>3, <2>4
<1>18. ASSUME NEW step \in StopSteps, DeleteGitOps(step, up) PROVE TypeOK'
  <2>1. pc = step /\ pc # "idle" /\ pc \in FinalizeSteps /\ Stopped(step) \in EngineKinds
        BY <1>18 DEF DeleteGitOps, StopSteps, FinalizeSteps, Stopped, EngineKinds
  <2>2. UNCHANGED <<envs, objects, resync, gauge>>
        BY <1>18 DEF DeleteGitOps
  <2>3. CASE ~up
    <3>1. Retry /\ UNCHANGED engines
          BY <1>18, <2>3 DEF DeleteGitOps
    <3> QED BY <1>6, <1>7, <2>1, <2>2, <3>1
  <2>4. CASE up
    <3>1. /\ engines' = [engines EXCEPT ![req][Stopped(step)] =
                                Terminated(engines[req][Stopped(step)])]
          /\ Goto(StepAfterStop(step))
          BY <1>18, <2>4 DEF DeleteGitOps
    <3>2. EngineTypeOK'
      <4>1. PICK e \in Environments, k \in EngineKinds : e = req /\ k = Stopped(step)
            BY <2>1, HeldTypes
      <4>2. engines[e][k] \in EngineObject(k) \cup {Nil}
            BY DEF TypeOK, EngineTypeOK
      <4>3. PICK o \in EngineObject(k) \cup {Nil} : o = Terminated(engines[e][k])
            BY <4>2, TerminatedType
      <4>4. engines' = [engines EXCEPT ![e][k] = o]
            BY <3>1, <4>1, <4>3
      <4> QED BY <4>4, WriteEngineType
    <3>3. /\ pc' \in FinalizeSteps
          /\ pc' = "teardown" => base.status.workload # Nil
          /\ UNCHANGED <<queue, req, base, workload, sync>>
          BY <3>1 DEF Goto, StepAfterStop, StopSteps, FinalizeSteps
    <3>4. WorkerTypeOK'
      <4>1. /\ req \in Environments /\ base \in EnvironmentObject
            /\ sync \in SyncPhases \cup {Nil} /\ workload = Nil
            BY <2>1, HeldTypes DEF ProvisionSteps, FinalizeSteps, StopSteps, Kinds,
               EngineKinds
      <4>2. pc' \in Steps \ {"idle"} /\ pc' \notin ProvisionSteps
            BY <3>3 DEF Steps, ProvisionSteps, FinalizeSteps, StopSteps, Kinds,
               EngineKinds
      <4> QED BY <3>3, <4>1, <4>2 DEF WorkerTypeOK
    <3> QED BY <1>1, <1>3, <2>2, <3>2, <3>3, <3>4, WorkerTypes DEF RestTypeOK, TypeOK
  <2> QED BY <2>3, <2>4
<1>19. CASE Teardown(up)
  <2> DEFINE n == base.status.workload
  <2>1. pc = "teardown" /\ pc # "idle" /\ UNCHANGED <<envs, engines, resync, gauge>>
        BY <1>19 DEF Teardown
  <2>2. n \in Workloads
    <3>1. base.status.workload # Nil
          BY <2>1 DEF TypeOK, WorkerTypeOK
    <3>2. base.status \in EnvironmentStatus
          BY <2>1, HeldTypes
    <3> QED BY <3>1, <3>2 DEF EnvironmentStatus
  <2>3. CASE ~up
    <3>1. Retry /\ UNCHANGED objects
          BY <1>19, <2>3 DEF Teardown
    <3> QED BY <1>6, <1>7, <2>1, <3>1
  <2>4. CASE up
    <3>1. /\ Goto("release")
          /\ \/ /\ namespaces[n] # Nil
                /\ WriteNamespace(n, [namespaces[n] EXCEPT !.terminating = TRUE])
             \/ UNCHANGED objects
          BY <1>19, <2>4 DEF Teardown
    <3> HIDE DEF n
    <3>2. ObjectsTypeOK
      <4>1. ASSUME namespaces[n] # Nil,
                   WriteNamespace(n, [namespaces[n] EXCEPT !.terminating = TRUE])
            PROVE  ObjectsTypeOK
        <5>1. namespaces[n] \in NamespaceObject
              BY <2>2, <4>1 DEF TypeOK
        <5>2. [namespaces[n] EXCEPT !.terminating = TRUE] \in NamespaceObject
              BY <5>1, TerminatingType
        <5> QED BY <2>2, <4>1, <5>2, WriteNamespaceType DEF ObjectsTypeOK, TypeOK
      <4> QED BY <1>3, <3>1, <4>1
    <3>3. WorkerTypeOK'
          BY <1>5, <2>1, <3>1, HeldTypes DEF Goto, FinalizeSteps
    <3> QED BY <1>1, <1>4, <2>1, <3>1, <3>2, <3>3, WorkerTypes DEF RestTypeOK, TypeOK, Goto
  <2> QED BY <2>3, <2>4
<1>20. CASE Release(up)
  <2>1. /\ pc # "idle"
        /\ Return \/ Retry
        /\ envs' = envs \/ envs' = [envs EXCEPT ![req] = Nil]
        /\ gauge' = [gauge EXCEPT ![req] = "None"]
        /\ UNCHANGED <<objects, engines, resync>>
        BY <1>20 DEF Release, ClearPhase
  <2> QED BY <1>6, <1>7, <2>1
<1> QED BY <1>8, <1>9, <1>10, <1>11, <1>12, <1>13, <1>15, <1>16, <1>17, <1>18, <1>19, <1>20
        DEF WorkerStep

\* A pass that provisions knows its workload namespace.
LEMMA ReconcileType ==
    ASSUME TypeOK, NEW e \in Environments, Reconcile(e)
    PROVE  TypeOK'
<1>1. UNCHANGED <<envs, namespaces, children, nsnew, knew, engines, tenantNs, sources,
                  ecache, nscache, kcache, resync, now, uids, upsets>>
      BY DEF Reconcile, objects, world, caches, bounds
<1>2. pc = "idle" /\ queue' = queue \ {e}
      BY DEF Reconcile
<1>3. ASSUME WorkerTypeOK', gauge' \in [Environments -> Phases] PROVE TypeOK'
      BY <1>1, <1>2, <1>3 DEF TypeOK, EngineTypeOK
<1>4. CASE ecache[e] = Nil
  <2>1. /\ gauge' \in [Environments -> Phases]
        /\ UNCHANGED <<pc, req, base, workload, sync>>
        BY <1>4 DEF Reconcile, NotFound, ClearPhase, worker, TypeOK, Phases
  <2>2. WorkerTypeOK'
        BY <2>1 DEF TypeOK, WorkerTypeOK
  <2> QED BY <1>3, <2>1, <2>2
<1>5. CASE ecache[e] # Nil
  <2> DEFINE env  == ecache[e]
             step == FirstStep(env)
             name == WorkloadName(e, tenantNs[env.spec.tenant])
  <2>1. env \in EnvironmentObject /\ env.spec \in Specs
        BY <1>5 DEF TypeOK, EnvironmentObject
  <2>2. /\ step \in {"idle", "stopArgo", "addFinalizer", "suspend", "block", "expire",
                     "namespace"}
        /\ step = "namespace" => tenantNs[env.spec.tenant] \notin {Nil, <<>>}
        BY DEF FirstStep
  <2>3. step = "namespace" => name \in Workloads
    <3>1. env.spec.tenant \in Tenants
          BY <2>1, SpecsAssumption
    <3>2. tenantNs[env.spec.tenant] \in TenantNamespaces \cup {<<>>, Nil}
          BY <3>1 DEF TypeOK
    <3> QED BY <2>2, <3>2, WorkloadNameType
  <2>4. /\ pc' = step
        /\ step = "idle" => UNCHANGED <<req, base, workload, sync>>
        /\ step # "idle" => /\ req' = e /\ base' = env /\ sync' = Nil
                            /\ workload' = IF step = "namespace" THEN name ELSE Nil
        /\ gauge' = gauge \/ gauge' = [gauge EXCEPT ![e] = "Terminating"]
        BY <1>5 DEF Reconcile, SetPhase
  <2>5. gauge' \in [Environments -> Phases]
        BY <2>4 DEF TypeOK, Phases
  <2> HIDE DEF env, step, name
  <2>6. WorkerTypeOK'
    <3>1. CASE step = "idle"
          BY <1>2, <2>4, <3>1 DEF TypeOK, WorkerTypeOK
    <3>2. CASE step # "idle"
      <4>1. /\ step \in Steps \ {"idle"} /\ step # "teardown"
            /\ step \in ProvisionSteps <=> step = "namespace"
            BY <2>2, <3>2 DEF Steps, ShortSteps, ProvisionSteps, FinalizeSteps, StopSteps,
               Kinds, EngineKinds
      <4> QED BY <2>1, <2>3, <2>4, <3>2, <4>1 DEF WorkerTypeOK
    <3> QED BY <3>1, <3>2
  <2> QED BY <1>3, <2>5, <2>6
<1> QED BY <1>4, <1>5

\* Every step keeps the types.
LEMMA TypeStep == TypeOK /\ [Next]_vars => TypeOK'
<1> SUFFICES ASSUME TypeOK, [Next]_vars PROVE TypeOK'
    OBVIOUS
\* Writes of Environments by users.
<1>1. ASSUME NEW e \in Environments, NEW o \in EnvironmentObject \cup {Nil},
             envs' = [envs EXCEPT ![e] = o], uids' \in Nat,
             UNCHANGED <<objects, engines, world, caches, queue, resync, worker, gauge,
                         now, upsets>>
      PROVE  TypeOK'
  <2>1. envs' \in [Environments -> EnvironmentObject \cup {Nil}]
        BY <1>1 DEF TypeOK
  <2> QED BY <1>1, <2>1 DEF TypeOK, EngineTypeOK, WorkerTypeOK, objects, world, caches, worker
<1>2. ASSUME NEW e \in Environments, NEW s \in Specs, CreateEnvironment(e, s)
      PROVE  TypeOK'
  <2>1. uids + 1 \in Nat /\ now \in Nat
        BY DEF TypeOK
  <2>2. NewEnvironment(s, uids + 1) \in EnvironmentObject
        BY <2>1, NewEnvironmentEffects
  <2> QED BY <1>1, <1>2, <2>1, <2>2 DEF CreateEnvironment
<1>3. ASSUME NEW e \in Environments, NEW s \in Specs, UpdateEnvironment(e, s)
      PROVE  TypeOK'
  <2>1. envs[e] \in EnvironmentObject /\ envs[e].status \in EnvironmentStatus /\ uids \in Nat
        BY <1>3 DEF UpdateEnvironment, TypeOK, EnvironmentObject
  <2>2. WithSpec(envs[e], s) \in EnvironmentObject
        BY <2>1, EditEffects
  <2> QED BY <1>1, <1>3, <2>1, <2>2 DEF UpdateEnvironment, bounds
<1>4. ASSUME NEW e \in Environments, DeleteEnvironment(e) PROVE TypeOK'
  <2>1. envs[e] \in EnvironmentObject /\ uids \in Nat
        BY <1>4 DEF DeleteEnvironment, TypeOK
  <2>2. Deleted(envs[e]) \in EnvironmentObject \cup {Nil}
        BY <2>1, DeletedEffects
  <2> QED BY <1>1, <1>4, <2>1, <2>2 DEF DeleteEnvironment, bounds
<1>5. CASE Tick
      BY <1>5 DEF Tick, TypeOK, EngineTypeOK, WorkerTypeOK, objects, world, caches, worker
<1>6. ASSUME NEW e \in Environments, Reconcile(e) PROVE TypeOK'
      BY <1>6, ReconcileType
<1>7. ASSUME NEW e \in Environments, Resync(e) PROVE TypeOK'
      BY <1>7 DEF Resync, TypeOK, EngineTypeOK, WorkerTypeOK, objects, world, caches,
         worker, bounds
<1>8. ASSUME NEW up \in BOOLEAN, WorkerStep(up) PROVE TypeOK'
      BY <1>8, WorkerStepType
<1>9. ASSUME NEW e \in Environments, CacheEnvironment(e) PROVE TypeOK'
      BY <1>9 DEF CacheEnvironment, TypeOK, EngineTypeOK, WorkerTypeOK, objects, world,
         worker, bounds
<1>10. ASSUME NEW n \in Workloads, CacheNamespace(n) PROVE TypeOK'
      BY <1>10 DEF CacheNamespace, TypeOK, EngineTypeOK, WorkerTypeOK, world, worker, bounds
<1>11. ASSUME NEW n \in Workloads, NEW k \in Kinds, CacheChild(n, k) PROVE TypeOK'
  <2>1. /\ kcache = [m \in Workloads |-> [j \in Kinds |-> kcache[m][j]]]
        /\ \A m \in Workloads, j \in Kinds : kcache[m][j] \in ChildValues(j) \cup {Nil}
        /\ children[n][k] \in ChildValues(k) \cup {Nil}
        BY DEF TypeOK, ChildTypeOK
  <2>2. kcache' = [m \in Workloads |-> [j \in Kinds |->
                    IF m = n /\ j = k THEN children[n][k] ELSE kcache[m][j]]]
        BY <1>11, <2>1 DEF CacheChild
  <2>3. kcache' = [m \in Workloads |-> [j \in Kinds |-> kcache'[m][j]]]
        BY <2>2
  <2>4. \A m \in Workloads, j \in Kinds : kcache'[m][j] \in ChildValues(j) \cup {Nil}
        BY <2>1, <2>2
  <2>5. ChildTypeOK(kcache')
        BY <2>3, <2>4 DEF ChildTypeOK
  <2>6. knew' \in [Workloads -> [Kinds -> BOOLEAN]]
        BY <1>11 DEF CacheChild, TypeOK
  <2> QED BY <1>11, <2>5, <2>6
          DEF CacheChild, TypeOK, EngineTypeOK, WorkerTypeOK, world, worker, bounds
\* Writes in workload namespaces by others.
<1>12. ASSUME ObjectsTypeOK, upsets' \in Nat,
              UNCHANGED <<envs, engines, world, caches, queue, resync, worker, gauge,
                          now, uids>>
       PROVE  TypeOK'
       BY <1>12 DEF ObjectsTypeOK, TypeOK, EngineTypeOK, WorkerTypeOK, world, caches, worker
<1>13. ASSUME NEW n \in Workloads, NEW k \in Kinds,
              DrainNamespace(n, k) \/ AdminDeletesChild(n, k)
       PROVE  TypeOK'
  <2>1. /\ WriteChild(n, k, Nil)
        /\ UNCHANGED <<envs, engines, world, caches, queue, resync, worker, gauge, now, uids>>
        /\ upsets' = upsets \/ upsets' = upsets + 1
        BY <1>13 DEF DrainNamespace, AdminDeletesChild, Upset, bounds
  <2>2. ObjectsTypeOK
        BY <2>1, WriteChildType DEF ObjectsTypeOK, TypeOK
  <2>3. upsets' \in Nat
        BY <2>1 DEF TypeOK
  <2> QED BY <1>12, <2>1, <2>2, <2>3
<1>14. ASSUME NEW n \in Workloads, NamespaceGone(n) \/ AdminDeletesNamespace(n)
       PROVE  TypeOK'
  <2>1. PICK o : /\ o = Nil \/ o = [namespaces[n] EXCEPT !.terminating = TRUE]
                 /\ WriteNamespace(n, o)
        BY <1>14 DEF NamespaceGone, AdminDeletesNamespace
  <2>2. /\ namespaces[n] # Nil
        /\ UNCHANGED <<envs, engines, world, caches, queue, resync, worker, gauge, now, uids>>
        /\ upsets' = upsets \/ upsets' = upsets + 1
        BY <1>14 DEF NamespaceGone, AdminDeletesNamespace, Admits, Upset, bounds
  <2>3. namespaces[n] \in NamespaceObject
        BY <2>2 DEF TypeOK
  <2>4. o \in NamespaceObject \cup {Nil}
        BY <2>1, <2>3, TerminatingType
  <2>5. ObjectsTypeOK
        BY <2>1, <2>4, WriteNamespaceType DEF ObjectsTypeOK, TypeOK
  <2>6. upsets' \in Nat
        BY <2>2 DEF TypeOK
  <2> QED BY <1>12, <2>2, <2>5, <2>6
<1>15. ASSUME NEW e \in Environments, NEW k \in EngineKinds, NEW r \in Reports(k),
              EngineReports(e, k, r)
       PROVE  TypeOK'
  <2>1. engines[e][k] \in EngineObject(k)
        BY <1>15 DEF EngineReports, TypeOK, EngineTypeOK
  <2>2. [engines[e][k] EXCEPT !.report = r] \in EngineObject(k)
        BY <2>1, EditedEngineType
  <2>3. EngineTypeOK'
        BY <1>15, <2>2, WriteEngineType DEF EngineReports
  <2> QED BY <1>15, <2>3
          DEF EngineReports, TypeOK, WorkerTypeOK, objects, world, caches, worker
<1>16. ASSUME NEW t \in Tenants, NEW v \in TenantNamespaces \cup {<<>>, Nil},
              TenantChanges(t, v)
       PROVE  TypeOK'
       BY <1>16 DEF TenantChanges, Upset, TypeOK, EngineTypeOK, WorkerTypeOK, objects,
          caches, worker
<1>17. ASSUME NEW h \in Homes, NEW a \in SUBSET Secrets, SourcesChange(h, a)
       PROVE  TypeOK'
       BY <1>17 DEF SourcesChange, Upset, TypeOK, EngineTypeOK, WorkerTypeOK, objects,
          caches, worker
<1>18. CASE Restart
  <2>1. /\ ecache' = envs /\ nscache' = namespaces /\ kcache' = children
        /\ nsnew' = [n \in Workloads |-> FALSE]
        /\ knew' = [n \in Workloads |-> [k \in Kinds |-> FALSE]]
        /\ queue' = {e \in Environments : envs[e] # Nil} /\ resync' = {}
        /\ gauge' = [e \in Environments |-> "None"] /\ upsets' = upsets + 1
        /\ UNCHANGED <<envs, namespaces, children, engines, tenantNs, sources, now, uids>>
        BY <1>18 DEF Restart, Upset, world
  <2>2. WorkerTypeOK'
        BY <1>18 DEF Restart, Idle, WorkerTypeOK
  <2>3. nsnew' \in [Workloads -> BOOLEAN] /\ knew' \in [Workloads -> [Kinds -> BOOLEAN]]
        BY <2>1
  <2>4. gauge' \in [Environments -> Phases]
        BY <2>1 DEF Phases
  <2>5. EngineTypeOK' /\ ChildTypeOK(children)' /\ ChildTypeOK(kcache)'
        BY <2>1 DEF TypeOK, EngineTypeOK, ChildTypeOK
  <2>6. queue' \subseteq Environments /\ resync' \subseteq Environments /\ upsets' \in Nat
        BY <2>1 DEF TypeOK
  <2> QED BY <2>1, <2>2, <2>3, <2>4, <2>5, <2>6 DEF TypeOK
<1>19. ASSUME NEW e \in Environments, NEW k \in EngineKinds, EngineGone(e, k)
       PROVE  TypeOK'
  <2>1. engines' = [engines EXCEPT ![e][k] = Nil] /\ Nil \in EngineObject(k) \cup {Nil}
        BY <1>19 DEF EngineGone
  <2>2. EngineTypeOK'
        BY <2>1, WriteEngineType
  <2> QED BY <1>19, <2>2
          DEF EngineGone, TypeOK, WorkerTypeOK, objects, world, caches, worker, bounds
<1>20. CASE UNCHANGED vars
       BY <1>20 DEF vars, TypeOK, EngineTypeOK, WorkerTypeOK, objects, world, caches,
          worker, bounds
<1> QED BY <1>2, <1>3, <1>4, <1>5, <1>6, <1>7, <1>8, <1>9, <1>10, <1>11, <1>13, <1>14,
           <1>15, <1>16, <1>17, <1>18, <1>19, <1>20
        DEF Next, Users, Informers, ClusterControllers, Upsets

\* The initial states are well typed.
LEMMA TypeInit == Init => TypeOK
BY DEF Init, TypeOK, EngineTypeOK, ChildTypeOK, WorkerTypeOK, Phases

\* Type correctness: whatever the specs, the upsets and the staleness of the
\* caches, every object the controller writes is well formed, and the worker
\* holds a request, an Environment and, while it provisions, a workload
\* namespace exactly while it runs.
THEOREM TypeCorrect == Spec => []TypeOK
<1>1. Init => TypeOK
      BY TypeInit
<1>2. TypeOK /\ [Next]_vars => TypeOK'
      BY TypeStep
<1> QED BY <1>1, <1>2, PTL DEF Spec

-----------------------------------------------------------------------------
\* What any step may do to an Environment, to the cache of it and to the
\* worker's hold on it, abstracted from the actions.

\* The steps that write the Environment the worker holds.
WriteSteps == {"addFinalizer", "suspend", "block", "status", "fail"}

\* An Environment is created with a fresh UID, edited or deleted by a user (or
\* at the end of its lifetime) under a new generation, written by the worker
\* that holds its current version and then returns, removed before it got a
\* finalizer, or released by the worker.
EnvMove(e) ==
    \/ envs'[e] = envs[e]
    \/ /\ envs[e] = Nil /\ envs'[e] # Nil
       /\ envs'[e].uid = uids + 1 /\ uids' = uids + 1
       /\ ~envs'[e].finalizer /\ ~envs'[e].deleting
       /\ envs'[e].gen = 1 /\ envs'[e].status.observedGeneration = 0
    \/ /\ envs[e] # Nil /\ envs'[e] # Nil
       /\ envs'[e].uid = envs[e].uid /\ envs'[e].gen = envs[e].gen + 1
       /\ envs'[e].finalizer = envs[e].finalizer
       /\ envs[e].deleting => envs'[e].deleting
       /\ envs'[e].deleting => envs[e].deleting \/ envs'[e].finalizer
       /\ envs'[e].status = envs[e].status
    \/ /\ pc \in WriteSteps /\ pc' = "idle"
       /\ e = req /\ envs[e] = base /\ envs'[e] # Nil
       /\ envs'[e].uid = base.uid /\ envs'[e].gen = base.gen
       /\ base.finalizer => envs'[e].finalizer
       /\ envs'[e].deleting = base.deleting
       /\ envs'[e].spec = base.spec
       /\ envs'[e].status.observedGeneration <= base.gen
       /\ \/ envs'[e].status = base.status
          \/ IsTrue(envs'[e].status.conditions, "Ready") =>
                Coherent(base.spec, envs'[e].status)
    \/ envs[e] # Nil /\ ~envs[e].finalizer /\ envs'[e] = Nil
    \/ /\ pc = "release" /\ pc' = "idle"
       /\ e = req /\ envs[e] = base /\ envs'[e] = Nil

\* The cache stays or catches up, and then the Environment is queued.
CacheMove(e) ==
    \/ ecache'[e] = ecache[e]
    \/ /\ ecache'[e] = envs[e] /\ envs' = envs /\ uids' = uids
       /\ e \in queue' \/ pc' = "idle"

\* The worker waits, returns, starts on what the cache has, or goes on with the
\* Environment it holds: within a provisioning pass, or within finalization.
WorkerMove ==
    \/ UNCHANGED <<pc, req, base>> /\ queue \subseteq queue'
    \/ pc' = "idle"
    \/ /\ pc = "idle" /\ req' \in Environments /\ ecache[req'] # Nil
       /\ base' = ecache[req'] /\ pc' = FirstStep(ecache[req'])
       /\ UNCHANGED <<envs, ecache, uids>>
    \/ /\ UNCHANGED <<req, base, envs, ecache, uids, queue>>
       /\ \/ pc \in ProvisionSteps /\ pc' \in ProvisionSteps
          \/ pc \in FinalizeSteps /\ pc' \in FinalizeSteps

Moves ==
    /\ \A e \in Environments : EnvMove(e) /\ CacheMove(e)
    /\ WorkerMove
    /\ uids \in Nat /\ uids' \in Nat /\ uids <= uids'

\* Field types of the versions in play, in the form the arithmetic needs.
LEMMA VersionTypes ==
    ASSUME TypeOK
    PROVE  /\ \A e \in Environments :
                /\ envs[e] # Nil => /\ envs[e] \in EnvironmentObject
                                    /\ envs[e].uid \in Nat /\ envs[e].gen \in Nat
                                    /\ envs[e].status.observedGeneration \in Nat
                /\ ecache[e] # Nil => /\ ecache[e] \in EnvironmentObject
                                      /\ ecache[e].uid \in Nat /\ ecache[e].gen \in Nat
           /\ pc # "idle" => /\ req \in Environments /\ base \in EnvironmentObject
                             /\ base # Nil /\ base.uid \in Nat /\ base.gen \in Nat
BY NilAssumption DEF TypeOK, WorkerTypeOK, EnvironmentObject, EnvironmentStatus

\* A Delete, by a user or at the end of a lifetime, is one of the moves.
LEMMA DeletedMoves ==
    ASSUME TypeOK, NEW d \in Environments, envs[d] # Nil,
           envs' = [envs EXCEPT ![d] = Deleted(envs[d])]
    PROVE  \A e \in Environments : EnvMove(e)
<1>1. envs[d] \in EnvironmentObject
      BY DEF TypeOK
<1>2. envs'[d] = Deleted(envs[d]) /\ \A e \in Environments \ {d} : envs'[e] = envs[e]
      BY DEF TypeOK
<1>3. \/ ~envs[d].finalizer /\ envs'[d] = Nil
      \/ envs'[d] = envs[d]
      \/ /\ envs[d].finalizer /\ envs'[d] # Nil
         /\ envs'[d].uid = envs[d].uid /\ envs'[d].gen = envs[d].gen + 1
         /\ envs'[d].finalizer /\ envs'[d].deleting /\ envs'[d].status = envs[d].status
      BY <1>1, <1>2, DeletedEffects, NilAssumption
<1>4. envs[d].finalizer \in BOOLEAN
      BY <1>1 DEF EnvironmentObject
<1>5. CASE envs'[d].finalizer = TRUE /\ envs[d].finalizer = TRUE
      BY <1>2, <1>3, <1>5 DEF EnvMove
<1>6. CASE ~envs[d].finalizer /\ envs'[d] = Nil
      BY <1>2, <1>6 DEF EnvMove
<1>7. CASE envs'[d] = envs[d]
      BY <1>2, <1>7 DEF EnvMove
<1>8. CASE /\ envs[d].finalizer /\ envs'[d] # Nil
           /\ envs'[d].uid = envs[d].uid /\ envs'[d].gen = envs[d].gen + 1
           /\ envs'[d].finalizer /\ envs'[d].deleting /\ envs'[d].status = envs[d].status
  <2>1. envs'[d] \in EnvironmentObject
        BY <1>1, <1>2, <1>8, DeletedEffects
  <2>2. envs'[d].finalizer = TRUE /\ envs[d].finalizer = TRUE
        BY <1>4, <1>8, <2>1 DEF EnvironmentObject
  <2> QED BY <1>5, <2>2
<1> QED BY <1>3, <1>6, <1>7, <1>8

\* Every worker step makes only these moves.
LEMMA WorkerMoves ==
    ASSUME IndInv, TypeOK', NEW up \in BOOLEAN, WorkerStep(up)
    PROVE  Moves
<1>a. TypeOK /\ uids \in Nat /\ UNCHANGED <<ecache, uids>>
      BY DEF IndInv, TypeOK, WorkerStep, caches
<1>b. ASSUME \A e \in Environments : EnvMove(e), WorkerMove
      PROVE  Moves
      BY <1>a, <1>b DEF Moves, CacheMove
\* Steps that go on, and steps that return without a write.
<1>c. ASSUME UNCHANGED <<envs, req, base, queue>>,
             \/ pc \in ProvisionSteps /\ pc' \in ProvisionSteps
             \/ pc \in FinalizeSteps /\ pc' \in FinalizeSteps
      PROVE  Moves
      BY <1>a, <1>b, <1>c DEF EnvMove, WorkerMove
<1>d. ASSUME UNCHANGED envs, Idle
      PROVE  Moves
      BY <1>b, <1>d DEF EnvMove, WorkerMove, Idle
\* An accepted write of the Environment the worker holds.
<1>e. ASSUME pc \in WriteSteps, Idle, Fresh,
             NEW o \in EnvironmentObject, envs' = [envs EXCEPT ![req] = o],
             o.uid = base.uid, o.gen = base.gen, base.finalizer => o.finalizer,
             o.deleting = base.deleting, o.spec = base.spec,
             o.status.observedGeneration <= base.gen,
             \/ o.status = base.status
             \/ IsTrue(o.status.conditions, "Ready") => Coherent(base.spec, o.status)
      PROVE  Moves
  <2>1. pc # "idle" /\ req \in Environments
        BY <1>a, <1>e, HeldTypes DEF WriteSteps
  <2>2. envs'[req] = o /\ \A e \in Environments \ {req} : envs'[e] = envs[e]
        BY <1>a, <1>e, <2>1 DEF TypeOK
  <2>3. \A e \in Environments : EnvMove(e)
        BY <1>e, <2>2, NilAssumption DEF EnvMove, Fresh, Idle
  <2> QED BY <1>b, <1>e, <2>3 DEF WorkerMove, Idle
\* In particular, of its status.
<1>f. ASSUME pc \in WriteSteps, Idle, Fresh, NEW st \in EnvironmentStatus,
             envs' = [envs EXCEPT ![req] = WithStatus(base, st)],
             st.observedGeneration = base.gen,
             IsTrue(st.conditions, "Ready") => Coherent(base.spec, st)
      PROVE  Moves
  <2>1. pc # "idle" /\ base \in EnvironmentObject /\ base.spec \in Specs /\ base.gen \in Nat
        BY <1>a, <1>f, HeldTypes DEF WriteSteps
  <2>2. LET n == WithStatus(base, st)
        IN  /\ n \in EnvironmentObject /\ n.uid = base.uid /\ n.gen = base.gen
            /\ n.finalizer = base.finalizer /\ n.deleting = base.deleting
            /\ n.spec = base.spec /\ n.status = st
        BY <1>f, <2>1, EditEffects
  <2>3. st.observedGeneration <= base.gen
        BY <1>f, <2>1
  <2> QED BY <1>e, <1>f, <2>2, <2>3
<1>1. CASE AddFinalizer(up)
  <2>1. pc = "addFinalizer" /\ pc # "idle" /\ Idle
        BY <1>1 DEF AddFinalizer, Return, Retry
  <2>2. /\ base \in EnvironmentObject /\ base.spec \in Specs /\ base.gen \in Nat
        /\ base.status \in EnvironmentStatus /\ req \in Environments /\ base # Nil
        BY <1>a, <2>1, HeldTypes
  <2>3. LET n == WithFinalizer(base)
        IN  /\ n \in EnvironmentObject /\ n.uid = base.uid /\ n.gen = base.gen
            /\ n.finalizer /\ n.deleting = base.deleting
            /\ n.spec = base.spec /\ n.status = base.status
        BY <2>2, EditEffects
  <2>4. CASE up /\ Fresh
    <3>1. envs' = [envs EXCEPT ![req] = WithFinalizer(base)]
          BY <1>1, <2>4 DEF AddFinalizer
    <3>2. base.status.observedGeneration <= base.gen
          BY <2>2, <2>4 DEF Fresh, IndInv, StoredOK
    <3> QED BY <1>e, <2>1, <2>3, <2>4, <3>1, <3>2 DEF WriteSteps
  <2>5. CASE ~(up /\ Fresh)
        BY <1>d, <1>1, <2>1, <2>5 DEF AddFinalizer
  <2> QED BY <2>4, <2>5
<1>2. CASE Suspend(up)
  <2>1. pc = "suspend" /\ pc # "idle" /\ Idle
        BY <1>2 DEF Suspend, Return, Retry
  <2>2. CASE up /\ Fresh
    <3> DEFINE st == SuspendedStatus(base)
    <3>1. envs' = [envs EXCEPT ![req] = WithStatus(base, st)]
          BY <1>2, <2>2 DEF Suspend
    <3>2. base \in EnvironmentObject /\ "Suspended" \in Phases
          BY <1>a, <2>1, HeldTypes DEF Phases
    <3>3. /\ st \in EnvironmentStatus /\ st.observedGeneration = base.gen
          /\ ~IsTrue(st.conditions, "Ready")
          BY <3>2, NotReadyEffects DEF SuspendedStatus
    <3> HIDE DEF st
    <3> QED BY <1>f, <2>1, <2>2, <3>1, <3>3 DEF WriteSteps
  <2>3. CASE ~(up /\ Fresh)
        BY <1>d, <1>2, <2>1, <2>3 DEF Suspend
  <2> QED BY <2>2, <2>3
<1>3. CASE BlockOnDependency(up)
  <2>1. pc = "block" /\ pc # "idle" /\ Idle
        BY <1>3 DEF BlockOnDependency, Return, Retry
  <2>2. CASE up /\ Fresh
    <3> DEFINE st == BlockedStatus(base)
    <3>1. envs' = [envs EXCEPT ![req] = WithStatus(base, st)]
          BY <1>3, <2>2 DEF BlockOnDependency
    <3>2. base \in EnvironmentObject /\ "Pending" \in Phases
          BY <1>a, <2>1, HeldTypes DEF Phases
    <3>3. /\ st \in EnvironmentStatus /\ st.observedGeneration = base.gen
          /\ ~IsTrue(st.conditions, "Ready")
          BY <3>2, NotReadyEffects DEF BlockedStatus
    <3> HIDE DEF st
    <3> QED BY <1>f, <2>1, <2>2, <3>1, <3>3 DEF WriteSteps
  <2>3. CASE ~(up /\ Fresh)
        BY <1>d, <1>3, <2>1, <2>3 DEF BlockOnDependency
  <2> QED BY <2>2, <2>3
<1>4. CASE Expire(up)
  <2>1. pc = "expire" /\ pc # "idle" /\ Idle
        BY <1>4 DEF Expire, Return, Retry
  <2>2. req \in Environments /\ envs[req] # Nil
        BY <1>a, <2>1, HeldTypes DEF IndInv, HeldOK, FinalizeSteps, StopSteps
  <2>3. CASE up
    <3>1. \A e \in Environments : EnvMove(e)
          BY <1>a, <1>4, <2>2, <2>3, DeletedMoves DEF Expire
    <3> QED BY <1>b, <2>1, <3>1 DEF WorkerMove, Idle
  <2>4. CASE ~up
        BY <1>d, <1>4, <2>1, <2>4 DEF Expire
  <2> QED BY <2>3, <2>4
<1>5. CASE \/ ReconcileNamespace(up) \/ (\E k \in Kinds : ReconcileChild(k, up))
           \/ ReconcileArgo(up) \/ ReconcileFluxRepo(up) \/ ReconcileFluxKustomization(up)
  <2>1. UNCHANGED <<envs, req, base, queue>>
        BY <1>5 DEF ReconcileNamespace, ReconcileChild, ReconcileArgo, ReconcileFluxRepo,
           ReconcileFluxKustomization, WriteEngine, Goto
  <2>2. pc \in ProvisionSteps
        BY <1>5 DEF ReconcileNamespace, ReconcileChild, ReconcileArgo, ReconcileFluxRepo,
           ReconcileFluxKustomization, ProvisionSteps, EngineKinds
  <2>3. \A k \in Kinds : StepAfter(k) \in ProvisionSteps
        BY DEF StepAfter, Kinds, ProvisionSteps, EngineKinds
  <2>4. pc' \in ProvisionSteps
        BY <1>5, <2>3 DEF ReconcileNamespace, ReconcileChild, ReconcileArgo,
           ReconcileFluxRepo, ReconcileFluxKustomization, WriteEngine, Goto,
           ProvisionSteps, Kinds, EngineKinds
  <2> QED BY <1>c, <2>1, <2>2, <2>4
<1>6. CASE WriteStatus(up)
  <2>1. pc = "status" /\ pc # "idle" /\ Idle
        BY <1>6 DEF WriteStatus, Return, Retry
  <2>2. CASE up /\ Fresh
    <3> DEFINE st == ProvisionedStatus(base, workload, sync)
    <3>1. envs' = [envs EXCEPT ![req] = WithStatus(base, st)]
          BY <1>6, <2>2 DEF WriteStatus
    <3>2. /\ base \in EnvironmentObject /\ workload \in Workloads
          /\ sync \in SyncPhases \cup {Nil}
          BY <1>a, <2>1, HeldTypes DEF ProvisionSteps
    <3>3. /\ st \in EnvironmentStatus /\ st.observedGeneration = base.gen
          /\ st.phase = DerivedPhase(sync) /\ st.workload = workload /\ st.sync = sync
          /\ st.conditions["Progressing"] = "False"
          /\ sync = "Error" <=> st.conditions["Degraded"] = "True"
          BY <3>2, ProvisionedEffects
    <3>4. ~base.spec.suspend /\ (sync = Nil <=> base.spec.provider = "none")
          BY <2>1 DEF IndInv, PassOK, ProvisionSteps
    <3> HIDE DEF st
    <3>5. Coherent(base.spec, st)
          BY <3>2, <3>3, <3>4, NilAssumption DEF Coherent
    <3> QED BY <1>f, <2>1, <2>2, <3>1, <3>3, <3>5 DEF WriteSteps
  <2>3. CASE ~(up /\ Fresh)
        BY <1>d, <1>6, <2>1, <2>3 DEF WriteStatus
  <2> QED BY <2>2, <2>3
<1>7. CASE Fail(up)
  <2>1. pc = "fail" /\ pc # "idle" /\ Idle
        BY <1>7 DEF Fail, Retry
  <2>2. CASE up /\ Fresh
    <3> DEFINE st == FailedStatus(base, workload)
    <3>1. envs' = [envs EXCEPT ![req] = WithStatus(base, st)]
          BY <1>7, <2>2 DEF Fail
    <3>2. base \in EnvironmentObject /\ workload \in Workloads
          BY <1>a, <2>1, HeldTypes DEF ProvisionSteps
    <3>3. /\ st \in EnvironmentStatus /\ st.observedGeneration = base.gen
          /\ ~IsTrue(st.conditions, "Ready")
          BY <3>2, FailedEffects
    <3> HIDE DEF st
    <3> QED BY <1>f, <2>1, <2>2, <3>1, <3>3 DEF WriteSteps
  <2>3. CASE ~(up /\ Fresh)
        BY <1>d, <1>7, <2>1, <2>3 DEF Fail
  <2> QED BY <2>2, <2>3
<1>8. CASE (\E step \in StopSteps : DeleteGitOps(step, up)) \/ Teardown(up)
  <2>1. pc \in FinalizeSteps /\ UNCHANGED envs
        BY <1>8 DEF DeleteGitOps, Teardown, FinalizeSteps
  <2>2. \A step \in StopSteps : StepAfterStop(step) \in FinalizeSteps
        BY DEF StepAfterStop, StopSteps, FinalizeSteps
  <2>3. Idle \/ (pc' \in FinalizeSteps /\ UNCHANGED <<req, base, queue>>)
        BY <1>8, <2>2 DEF DeleteGitOps, Teardown, Goto, Retry, FinalizeSteps
  <2> QED BY <1>c, <1>d, <2>1, <2>3
<1>9. CASE Release(up)
  <2>1. pc = "release" /\ pc # "idle" /\ Idle
        BY <1>9 DEF Release, Return, Retry
  <2>2. CASE up /\ Fresh
    <3>1. envs' = [envs EXCEPT ![req] = Nil] /\ req \in Environments
          BY <1>a, <1>9, <2>1, <2>2, HeldTypes DEF Release
    <3>2. \A e \in Environments : EnvMove(e)
          BY <1>a, <2>1, <2>2, <3>1 DEF EnvMove, Fresh, Idle, TypeOK
    <3> QED BY <1>b, <2>1, <3>2 DEF WorkerMove, Idle
  <2>3. CASE ~(up /\ Fresh)
        BY <1>d, <1>9, <2>1, <2>3 DEF Release
  <2> QED BY <2>2, <2>3
<1> QED BY <1>1, <1>2, <1>3, <1>4, <1>5, <1>6, <1>7, <1>8, <1>9 DEF WorkerStep

\* Everybody else: no request is lost, a timer or a cache that changes queues
\* its Environment, and no GitOps object becomes active or changes hands.
OutsideMove ==
    /\ UNCHANGED <<pc, req, base, sync, gauge>> /\ queue \subseteq queue'
    /\ \A e \in Environments :
        /\ e \notin queue' => ecache'[e] = ecache[e] /\ (e \in resync => e \in resync')
        /\ \A k \in EngineKinds :
            engines'[e][k] # Nil /\ ~engines'[e][k].terminating =>
                /\ engines[e][k] # Nil /\ ~engines[e][k].terminating
                /\ engines'[e][k].owner = engines[e][k].owner

\* A step is one of the worker's, a restart, or outside of both; whichever it
\* is, it makes only the moves above.
LEMMA StepKinds ==
    ASSUME IndInv, TypeOK', [Next]_vars
    PROVE  /\ Moves
           /\ \/ \E e \in Environments : Reconcile(e)
              \/ \E up \in BOOLEAN : WorkerStep(up)
              \/ Restart
              \/ OutsideMove
<1>a. uids \in Nat /\ uids' \in Nat /\ TypeOK
      BY DEF IndInv, TypeOK
<1>b. ASSUME UNCHANGED <<envs, ecache>>
      PROVE  \A e \in Environments : EnvMove(e) /\ CacheMove(e)
      BY <1>b DEF EnvMove, CacheMove
\* Steps that change Environments, and nothing the worker knows of.
<1>c. ASSUME \A e \in Environments : EnvMove(e), uids <= uids',
             UNCHANGED <<ecache, pc, req, base, sync, gauge, queue, resync, engines>>
      PROVE  Moves /\ OutsideMove
      BY <1>a, <1>c DEF Moves, WorkerMove, CacheMove, OutsideMove
<1>1. ASSUME NEW e \in Environments, NEW s \in Specs, CreateEnvironment(e, s)
      PROVE  Moves /\ OutsideMove
  <2>1. /\ envs' = [envs EXCEPT ![e] = NewEnvironment(s, uids + 1)]
        /\ envs[e] = Nil /\ uids' = uids + 1 /\ uids <= uids'
        /\ UNCHANGED <<ecache, pc, req, base, sync, gauge, queue, resync, engines>>
        BY <1>a, <1>1 DEF CreateEnvironment, caches, worker
  <2>2. LET n == NewEnvironment(s, uids + 1)
        IN  /\ n \in EnvironmentObject /\ n.uid = uids + 1 /\ n.gen = 1
            /\ ~n.finalizer /\ ~n.deleting /\ n.status.observedGeneration = 0
    <3>1. uids + 1 \in Nat /\ now \in Nat
          BY <1>a DEF TypeOK
    <3> QED BY <3>1, NewEnvironmentEffects
  <2>3. \A d \in Environments : EnvMove(d)
        BY <1>a, <2>1, <2>2, NilAssumption DEF EnvMove, TypeOK
  <2> QED BY <1>c, <2>1, <2>3
<1>2. ASSUME NEW e \in Environments, NEW s \in Specs, UpdateEnvironment(e, s)
      PROVE  Moves /\ OutsideMove
  <2>1. /\ envs' = [envs EXCEPT ![e] = WithSpec(envs[e], s)]
        /\ envs[e] \in EnvironmentObject /\ envs[e] # Nil /\ uids' = uids /\ uids <= uids'
        /\ UNCHANGED <<ecache, pc, req, base, sync, gauge, queue, resync, engines>>
        BY <1>a, <1>2 DEF UpdateEnvironment, caches, bounds, worker, TypeOK
  <2>2. LET n == WithSpec(envs[e], s)
        IN  /\ n \in EnvironmentObject /\ n.uid = envs[e].uid /\ n.gen = envs[e].gen + 1
            /\ n.finalizer = envs[e].finalizer /\ n.deleting = envs[e].deleting
            /\ n.status = envs[e].status
    <3>1. envs[e].status \in EnvironmentStatus
          BY <2>1 DEF EnvironmentObject
    <3> QED BY <2>1, <3>1, EditEffects
  <2>3. \A d \in Environments : EnvMove(d)
        BY <1>a, <2>1, <2>2, NilAssumption DEF EnvMove, TypeOK
  <2> QED BY <1>c, <2>1, <2>3
<1>3. ASSUME NEW e \in Environments, DeleteEnvironment(e)
      PROVE  Moves /\ OutsideMove
  <2>1. /\ envs' = [envs EXCEPT ![e] = Deleted(envs[e])]
        /\ envs[e] # Nil /\ uids' = uids /\ uids <= uids'
        /\ UNCHANGED <<ecache, pc, req, base, sync, gauge, queue, resync, engines>>
        BY <1>a, <1>3 DEF DeleteEnvironment, caches, bounds, worker
  <2>2. \A d \in Environments : EnvMove(d)
        BY <1>a, <2>1, DeletedMoves
  <2> QED BY <1>c, <2>1, <2>2
<1>4. ASSUME NEW e \in Environments, Reconcile(e)
      PROVE  Moves
  <2>1. UNCHANGED <<envs, ecache, uids>>
        BY <1>4 DEF Reconcile, caches, bounds
  <2>2. ASSUME WorkerMove PROVE Moves
        BY <1>a, <1>b, <2>1, <2>2 DEF Moves
  <2>3. CASE ecache[e] = Nil \/ FirstStep(ecache[e]) = "idle"
    <3>1. pc' = "idle"
          BY <1>4, <2>3 DEF Reconcile, worker
    <3> QED BY <2>2, <3>1 DEF WorkerMove
  <2>4. CASE ecache[e] # Nil /\ FirstStep(ecache[e]) # "idle"
    <3>1. pc = "idle" /\ pc' = FirstStep(ecache[e]) /\ req' = e /\ base' = ecache[e]
          BY <1>4, <2>4 DEF Reconcile
    <3> QED BY <2>1, <2>2, <2>4, <3>1 DEF WorkerMove
  <2> QED BY <2>3, <2>4
<1>5. ASSUME NEW up \in BOOLEAN, WorkerStep(up)
      PROVE  Moves
      BY <1>5, WorkerMoves
<1>6. ASSUME NEW e \in Environments, CacheEnvironment(e)
      PROVE  Moves /\ OutsideMove
  <2>1. /\ ecache' = [ecache EXCEPT ![e] = envs[e]] /\ queue' = queue \cup {e}
        /\ UNCHANGED <<envs, uids, pc, req, base, sync, gauge, resync, engines>>
        BY <1>6 DEF CacheEnvironment, worker, bounds
  <2>2. \A d \in Environments : EnvMove(d) /\ CacheMove(d)
        BY <1>a, <2>1 DEF EnvMove, CacheMove, TypeOK
  <2>3. Moves
        BY <1>a, <2>1, <2>2 DEF Moves, WorkerMove
  <2> QED BY <1>a, <2>1, <2>3 DEF OutsideMove, TypeOK
<1>7. ASSUME NEW e \in Environments, Resync(e)
      PROVE  Moves /\ OutsideMove
  <2>1. /\ queue' = queue \cup {e} /\ resync' = resync \ {e}
        /\ UNCHANGED <<envs, ecache, uids, pc, req, base, sync, gauge, engines>>
        BY <1>7 DEF Resync, caches, worker, bounds
  <2> QED BY <1>a, <1>b, <2>1 DEF Moves, WorkerMove, OutsideMove
\* Steps around the worker and the Environments.
<1>8. ASSUME UNCHANGED <<envs, ecache, uids, pc, req, base, sync, gauge, queue, resync,
                         engines>>
      PROVE  Moves /\ OutsideMove
      BY <1>a, <1>b, <1>c, <1>8
<1>9. ASSUME NEW n, NEW k,
             \/ Tick \/ CacheNamespace(n) \/ CacheChild(n, k) \/ NamespaceGone(n)
             \/ DrainNamespace(n, k) \/ TenantChanges(n, k) \/ SourcesChange(n, k)
             \/ AdminDeletesNamespace(n) \/ AdminDeletesChild(n, k)
      PROVE  Moves /\ OutsideMove
      BY <1>8, <1>9 DEF Tick, CacheNamespace, CacheChild, NamespaceGone, DrainNamespace,
         TenantChanges, SourcesChange, AdminDeletesNamespace, AdminDeletesChild, caches,
         worker, bounds
<1>10. ASSUME NEW e \in Environments, NEW k \in EngineKinds, NEW r \in Reports(k),
              EngineReports(e, k, r)
       PROVE  Moves /\ OutsideMove
  <2>1. /\ engines[e][k] # Nil
        /\ engines' = [engines EXCEPT ![e][k] = [engines[e][k] EXCEPT !.report = r]]
        /\ UNCHANGED <<envs, ecache, uids, pc, req, base, sync, gauge, queue, resync>>
        BY <1>10 DEF EngineReports, caches, worker
  <2>2. engines[e][k] \in EngineObject(k)
        BY <1>a, <2>1 DEF TypeOK, EngineTypeOK
  <2>3. PICK o \in EngineObject(k) : /\ o = [engines[e][k] EXCEPT !.report = r]
                                    /\ o.owner = engines[e][k].owner
                                    /\ o.terminating = engines[e][k].terminating
        BY <2>2, EditedEngineType
  <2>4. engines' = [engines EXCEPT ![e][k] = o] /\ o \in EngineObject(k) \cup {Nil}
        BY <2>1, <2>3
  <2>5. \A d \in Environments, j \in EngineKinds :
            engines'[d][j] = IF d = e /\ j = k THEN o ELSE engines[d][j]
        BY <1>a, <2>4, WriteEngineType, Zenon
  <2>6. \A d \in Environments, j \in EngineKinds :
            engines'[d][j] # Nil /\ ~engines'[d][j].terminating =>
                /\ engines[d][j] # Nil /\ ~engines[d][j].terminating
                /\ engines'[d][j].owner = engines[d][j].owner
        BY <2>1, <2>3, <2>5
  <2> QED BY <1>a, <1>b, <2>1, <2>6 DEF Moves, WorkerMove, OutsideMove
<1>11. CASE Restart
  <2>1. ecache' = envs /\ UNCHANGED <<envs, uids>> /\ pc' = "idle"
        BY <1>11 DEF Restart, Idle
  <2> QED BY <1>a, <1>11, <2>1 DEF Moves, EnvMove, CacheMove, WorkerMove
<1>12. ASSUME NEW e \in Environments, NEW k \in EngineKinds, EngineGone(e, k)
       PROVE  Moves /\ OutsideMove
  <2>1. /\ engines' = [engines EXCEPT ![e][k] = Nil] /\ Nil \in EngineObject(k) \cup {Nil}
        /\ UNCHANGED <<envs, ecache, uids, pc, req, base, sync, gauge, queue, resync>>
        BY <1>12 DEF EngineGone, caches, worker, bounds
  <2>2. \A d \in Environments, j \in EngineKinds :
            engines'[d][j] = Nil \/ engines'[d][j] = engines[d][j]
        BY <1>a, <2>1, WriteEngineType
  <2> QED BY <1>a, <1>b, <2>1, <2>2 DEF Moves, WorkerMove, OutsideMove
<1>13. CASE UNCHANGED vars
       BY <1>8, <1>13 DEF vars, caches, worker, bounds
<1> QED BY <1>1, <1>2, <1>3, <1>4, <1>5, <1>6, <1>7, <1>9, <1>10, <1>11, <1>12, <1>13
        DEF Next, Users, Informers, ClusterControllers, Upsets

-----------------------------------------------------------------------------
\* The versions the API server, the cache and the worker hold.

LEMMA StoredStep ==
    ASSUME IndInv, TypeOK', Moves
    PROVE  StoredOK'
<1> SUFFICES ASSUME NEW e \in Environments, envs'[e] # Nil
             PROVE  /\ envs'[e].uid <= uids'
                    /\ envs'[e].status.observedGeneration <= envs'[e].gen
                    /\ envs'[e].deleting => envs'[e].finalizer
    BY DEF StoredOK
<1>1. EnvMove(e) /\ uids \in Nat /\ uids' \in Nat /\ uids <= uids'
      BY DEF Moves
<1>2. envs[e] # Nil => /\ envs[e].uid \in Nat /\ envs[e].gen \in Nat
                       /\ envs[e].status.observedGeneration \in Nat
                       /\ envs[e].uid <= uids
                       /\ envs[e].status.observedGeneration <= envs[e].gen
                       /\ envs[e].deleting => envs[e].finalizer
      BY VersionTypes DEF IndInv, StoredOK
<1>3. pc \in WriteSteps => base # Nil
      BY VersionTypes DEF IndInv, WriteSteps
<1> QED BY <1>1, <1>2, <1>3 DEF EnvMove

\* A later version still follows an earlier one.
LEMMA FollowsStep ==
    ASSUME IndInv, TypeOK', Moves, NEW e \in Environments, NEW old,
           old.uid \in Nat, old.gen \in Nat, old.uid <= uids,
           envs[e] # Nil => Follows(envs[e], old),
           envs'[e] # Nil
    PROVE  Follows(envs'[e], old)
<1>1. EnvMove(e) /\ uids \in Nat /\ uids' \in Nat
      BY DEF Moves
<1>2. /\ envs[e] # Nil => envs[e].uid \in Nat /\ envs[e].gen \in Nat
      /\ pc # "idle" => base # Nil /\ base.uid \in Nat /\ base.gen \in Nat
      BY VersionTypes DEF IndInv
<1> QED BY <1>1, <1>2 DEF EnvMove, Follows, WriteSteps

\* An Environment is released only while it is deleting.
LEMMA ReleasedIsDeleting ==
    ASSUME IndInv, pc = "release", envs[req] = base
    PROVE  ecache[req] = base /\ base.deleting
BY DEF IndInv, HeldOK, FinalizeSteps

LEMMA CachedStep ==
    ASSUME IndInv, TypeOK', Moves
    PROVE  CachedOK'
<1> SUFFICES ASSUME NEW e \in Environments, ecache'[e] # Nil
             PROVE  /\ ecache'[e].uid <= uids'
                    /\ envs'[e] # Nil => Follows(envs'[e], ecache'[e])
                    /\ ecache'[e].finalizer /\ ~ecache'[e].deleting =>
                        envs'[e] # Nil /\ envs'[e].uid = ecache'[e].uid
    BY DEF CachedOK
<1>1. EnvMove(e) /\ CacheMove(e) /\ uids \in Nat /\ uids' \in Nat /\ uids <= uids'
      BY DEF Moves
<1>2. CASE ecache'[e] = ecache[e]
  <2>1. /\ ecache[e].uid \in Nat /\ ecache[e].gen \in Nat /\ ecache[e].uid <= uids
        /\ envs[e] # Nil => Follows(envs[e], ecache[e])
        /\ ecache[e].finalizer /\ ~ecache[e].deleting =>
            envs[e] # Nil /\ envs[e].uid = ecache[e].uid
        BY <1>2, VersionTypes DEF IndInv, CachedOK
  <2>2. envs'[e] # Nil => Follows(envs'[e], ecache[e])
        BY <2>1, FollowsStep
  <2>3. ASSUME ecache[e].finalizer, ~ecache[e].deleting
        PROVE  envs'[e] # Nil /\ envs'[e].uid = ecache[e].uid
    <3>1. envs[e] # Nil /\ envs[e].uid = ecache[e].uid /\ envs[e].finalizer
          BY <2>1, <2>3 DEF Follows
    <3>2. ~(pc = "release" /\ e = req /\ envs[e] = base)
          BY <2>3, ReleasedIsDeleting
    <3> QED BY <1>1, <3>1, <3>2 DEF EnvMove
  <2> QED BY <1>1, <1>2, <2>1, <2>2, <2>3
<1>3. CASE ecache'[e] = envs[e] /\ envs' = envs /\ uids' = uids
  <2>1. envs[e].uid \in Nat /\ envs[e].gen \in Nat /\ envs[e].uid <= uids
        BY <1>3, VersionTypes DEF IndInv, StoredOK
  <2> QED BY <1>3, <2>1 DEF Follows
<1> QED BY <1>1, <1>2, <1>3 DEF CacheMove

\* A pass starts where the version in the cache sends it.
LEMMA FirstStepHeld ==
    ASSUME NEW o, o.finalizer \in BOOLEAN, o.deleting \in BOOLEAN
    PROVE  /\ FirstStep(o) = "addFinalizer" => ~o.finalizer
           /\ FirstStep(o) \in FinalizeSteps => o.deleting
           /\ FirstStep(o) \notin FinalizeSteps \cup {"idle"} => ~o.deleting
           /\ FirstStep(o) \notin FinalizeSteps \cup {"idle", "addFinalizer"} => o.finalizer
           /\ FirstStep(o) \in ProvisionSteps => ~o.deleting /\ ~o.spec.suspend
           /\ FirstStep(o) = "suspend" => o.spec.suspend
           /\ FirstStep(o) \in {"idle", "stopArgo", "addFinalizer", "suspend", "block",
                                "expire", "namespace"}
<1>1. CASE o.deleting
      BY <1>1 DEF FirstStep, FinalizeSteps, StopSteps, ProvisionSteps, Kinds, EngineKinds
<1>2. CASE ~o.deleting /\ ~o.finalizer
      BY <1>2 DEF FirstStep, FinalizeSteps, StopSteps, ProvisionSteps, Kinds, EngineKinds
<1>3. CASE ~o.deleting /\ o.finalizer /\ o.spec.suspend
      BY <1>3 DEF FirstStep, FinalizeSteps, StopSteps, ProvisionSteps, Kinds, EngineKinds
<1>4. CASE ~o.deleting /\ o.finalizer /\ ~o.spec.suspend
      BY <1>4 DEF FirstStep, FinalizeSteps, StopSteps, ProvisionSteps, Kinds, EngineKinds
<1> QED BY <1>1, <1>2, <1>3, <1>4

LEMMA HeldStep ==
    ASSUME IndInv, TypeOK', Moves
    PROVE  HeldOK'
<1>1. WorkerMove /\ uids \in Nat /\ uids' \in Nat /\ uids <= uids'
      BY DEF Moves
<1> SUFFICES ASSUME pc' # "idle" PROVE HeldOK'
    BY DEF HeldOK
<1>2. CASE UNCHANGED <<pc, req, base>> /\ queue \subseteq queue'
  <2>1. /\ req \in Environments /\ base # Nil /\ base.uid \in Nat /\ base.gen \in Nat
        /\ base.uid <= uids
        /\ envs[req] # Nil => Follows(envs[req], base)
        /\ envs[req] = base => ecache[req] = base
        /\ ecache[req] = base \/ req \in queue
        /\ pc = "addFinalizer" => ~base.finalizer
        /\ pc \in FinalizeSteps => base.deleting
        /\ pc \notin FinalizeSteps => ~base.deleting
        /\ pc \notin FinalizeSteps \cup {"addFinalizer"} =>
            /\ base.finalizer
            /\ envs[req] # Nil /\ envs[req].uid = base.uid
        BY <1>2, VersionTypes DEF IndInv, HeldOK
  <2>2. EnvMove(req) /\ CacheMove(req)
        BY <2>1 DEF Moves
  <2>3. envs[req] # Nil => envs[req].uid \in Nat /\ envs[req].gen \in Nat
        BY <2>1, VersionTypes DEF IndInv
  <2>4. envs'[req] # Nil => Follows(envs'[req], base)
        BY <2>1, FollowsStep
  <2>5. envs'[req] = base => ecache'[req] = base
    <3> SUFFICES ASSUME envs'[req] = base PROVE ecache'[req] = base
        OBVIOUS
    <3>1. envs[req] = base
          BY <1>1, <1>2, <2>1, <2>2, <2>3 DEF EnvMove, Follows
    <3> QED BY <2>1, <2>2, <3>1 DEF CacheMove
  <2>6. ecache'[req] = base \/ req \in queue'
        BY <1>2, <2>1, <2>2 DEF CacheMove
  <2>7. ASSUME pc \notin FinalizeSteps \cup {"addFinalizer"}
        PROVE  envs'[req] # Nil /\ envs'[req].uid = base.uid
    <3>1. envs[req] # Nil /\ envs[req].uid = base.uid /\ envs[req].finalizer
          BY <2>1, <2>7 DEF Follows
    <3> QED BY <1>2, <2>2, <2>7, <3>1 DEF EnvMove, WriteSteps, FinalizeSteps
  <2> QED BY <1>1, <1>2, <2>1, <2>4, <2>5, <2>6, <2>7 DEF HeldOK
<1>3. CASE /\ pc = "idle" /\ req' \in Environments /\ ecache[req'] # Nil
           /\ base' = ecache[req'] /\ pc' = FirstStep(ecache[req'])
           /\ UNCHANGED <<envs, ecache, uids>>
  <2>1. /\ base'.uid <= uids
        /\ envs[req'] # Nil => Follows(envs[req'], base')
        /\ base'.finalizer /\ ~base'.deleting =>
            envs[req'] # Nil /\ envs[req'].uid = base'.uid
        BY <1>3 DEF IndInv, CachedOK
  <2>2. base'.finalizer \in BOOLEAN /\ base'.deleting \in BOOLEAN
        BY <1>3 DEF IndInv, TypeOK, EnvironmentObject
  <2>3. /\ pc' = "addFinalizer" => ~base'.finalizer
        /\ pc' \in FinalizeSteps => base'.deleting
        /\ pc' \notin FinalizeSteps => ~base'.deleting
        /\ pc' \notin FinalizeSteps \cup {"addFinalizer"} => base'.finalizer
        BY <1>3, <2>2, FirstStepHeld
  <2> QED BY <1>3, <2>1, <2>3 DEF HeldOK
<1>4. CASE /\ UNCHANGED <<req, base, envs, ecache, uids, queue>>
           /\ \/ pc \in ProvisionSteps /\ pc' \in ProvisionSteps
              \/ pc \in FinalizeSteps /\ pc' \in FinalizeSteps
  <2>1. pc # "idle" /\ HeldOK
        BY <1>4 DEF IndInv, ProvisionSteps, FinalizeSteps, StopSteps, Kinds, EngineKinds
  <2>2. /\ pc \in ProvisionSteps => pc \notin FinalizeSteps \cup {"addFinalizer"}
        /\ pc' \in ProvisionSteps => pc' \notin FinalizeSteps \cup {"addFinalizer"}
        /\ pc' \in FinalizeSteps => pc' # "addFinalizer"
        BY DEF ProvisionSteps, FinalizeSteps, StopSteps, Kinds, EngineKinds
  <2> QED BY <1>4, <2>1, <2>2 DEF HeldOK
<1> QED BY <1>1, <1>2, <1>3, <1>4 DEF WorkerMove

\* The ways a status gets there keep a Ready one coherent.
LEMMA ReadyStep ==
    ASSUME IndInv, TypeOK', Moves
    PROVE  ReadyStatusIsCoherent'
<1> SUFFICES ASSUME NEW e \in Environments, envs'[e] # Nil,
                    IsTrue(envs'[e].status.conditions, "Ready"),
                    envs'[e].status.observedGeneration = envs'[e].gen
             PROVE  ~envs'[e].deleting /\ Coherent(envs'[e].spec, envs'[e].status)
    BY DEF ReadyStatusIsCoherent, Coherent, IsTrue
<1>1. EnvMove(e)
      BY DEF Moves
<1>2. envs[e] # Nil => /\ envs[e].gen \in Nat
                       /\ envs[e].status.observedGeneration \in Nat
                       /\ envs[e].status.observedGeneration <= envs[e].gen
      BY VersionTypes DEF IndInv, StoredOK
<1>3. envs[e] # Nil /\ IsTrue(envs[e].status.conditions, "Ready")
                    /\ envs[e].status.observedGeneration = envs[e].gen
      => ~envs[e].deleting /\ Coherent(envs[e].spec, envs[e].status)
      BY DEF IndInv, ReadyStatusIsCoherent
<1>4. pc # "idle" => base # Nil
      BY VersionTypes DEF IndInv
<1>5. pc \in WriteSteps => pc # "idle" /\ ~base.deleting
      BY DEF IndInv, HeldOK, WriteSteps, FinalizeSteps, StopSteps
<1> QED BY <1>1, <1>2, <1>3, <1>4, <1>5 DEF EnvMove

-----------------------------------------------------------------------------
\* What a pass has come to.

LEMMA PassStep ==
    ASSUME IndInv, TypeOK', [Next]_vars
    PROVE  PassOK'
<1>a. TypeOK /\ PassOK
      BY DEF IndInv
<1>b. ASSUME UNCHANGED <<pc, base, sync>> PROVE PassOK'
      BY <1>a, <1>b DEF PassOK
<1>c. ASSUME pc' \in {"idle", "fail"} \cup FinalizeSteps, pc' = "fail" => ~base'.spec.suspend
      PROVE  PassOK'
      BY <1>c DEF PassOK, FinalizeSteps, StopSteps, ProvisionSteps, Kinds, EngineKinds
<1>1. ASSUME NEW e \in Environments, Reconcile(e)
      PROVE  PassOK'
  <2>1. CASE ecache[e] = Nil
        BY <1>b, <1>1, <2>1 DEF Reconcile, worker
  <2>2. CASE ecache[e] # Nil /\ FirstStep(ecache[e]) = "idle"
        BY <1>c, <1>1, <2>2 DEF Reconcile
  <2>3. CASE ecache[e] # Nil /\ FirstStep(ecache[e]) # "idle"
    <3>1. pc' = FirstStep(ecache[e]) /\ base' = ecache[e] /\ sync' = Nil
          BY <1>1, <2>3 DEF Reconcile
    <3>2. ecache[e].finalizer \in BOOLEAN /\ ecache[e].deleting \in BOOLEAN
          BY <1>a, <2>3 DEF TypeOK, EnvironmentObject
    <3>3. /\ pc' \in ProvisionSteps => ~base'.spec.suspend
          /\ pc' = "suspend" => base'.spec.suspend
          /\ pc' \in {"idle", "stopArgo", "addFinalizer", "suspend", "block", "expire",
                      "namespace"}
          BY <3>1, <3>2, FirstStepHeld
    <3> QED BY <3>1, <3>3 DEF PassOK
  <2> QED BY <2>1, <2>2, <2>3
<1>2. ASSUME NEW up \in BOOLEAN, WorkerStep(up)
      PROVE  PassOK'
  \* A step of a provisioning pass that fails, and one that goes on.
  <2>1. ASSUME pc \in ProvisionSteps, Goto("fail")
        PROVE  PassOK'
        BY <1>a, <1>c, <2>1 DEF Goto, PassOK
  <2>2. ASSUME pc \in ProvisionSteps, UNCHANGED base, pc' \in ProvisionSteps,
               pc' \in {"namespace"} \cup Kinds => sync' = Nil,
               pc' = "argo" => base.spec.provider = "argocd",
               pc' \in {"repo", "kustomization"} => base.spec.provider = "flux",
               pc' = "status" => (sync' = Nil <=> base.spec.provider = "none")
        PROVE  PassOK'
    <3>1. ~base.spec.suspend
          BY <1>a, <2>2 DEF PassOK
    <3>2. pc' # "suspend"
          BY <2>2 DEF ProvisionSteps, Kinds, EngineKinds
    <3> QED BY <2>2, <3>1, <3>2 DEF PassOK
  <2>3. CASE ReconcileNamespace(up)
    <3>1. pc = "namespace" /\ (Goto("quota") \/ Goto("fail"))
          BY <2>3 DEF ReconcileNamespace
    <3>2. pc \in ProvisionSteps /\ sync = Nil
          BY <1>a, <3>1 DEF PassOK, ProvisionSteps
    <3>3. CASE Goto("quota")
          BY <2>2, <3>2, <3>3 DEF Goto, ProvisionSteps, Kinds
    <3> QED BY <2>1, <3>1, <3>2, <3>3
  <2>4. ASSUME NEW k \in Kinds, ReconcileChild(k, up)
        PROVE  PassOK'
    <3>1. pc = k /\ (Goto(StepAfter(k)) \/ Goto("fail"))
          BY <2>4 DEF ReconcileChild
    <3>2. pc \in ProvisionSteps /\ sync = Nil
          BY <1>a, <3>1 DEF PassOK, ProvisionSteps
    <3>3. CASE Goto(StepAfter(k))
      <4>1. pc' = StepAfter(k) /\ UNCHANGED <<base, sync>>
            BY <3>3 DEF Goto
      <4>2. base.spec.provider \in {"argocd", "flux", "none"}
        <5>1. base.spec \in Specs
              BY <1>a, <3>2, HeldTypes DEF ProvisionSteps, Kinds, EngineKinds
        <5> QED BY <5>1, SpecsAssumption
      <4>3. \/ StepAfter(k) \in {"config", "secrets"}
            \/ StepAfter(k) = "argo" /\ base.spec.provider = "argocd"
            \/ StepAfter(k) = "repo" /\ base.spec.provider = "flux"
            \/ StepAfter(k) = "status" /\ base.spec.provider = "none"
            BY <4>2 DEF StepAfter, Kinds
      <4>4. pc' \in ProvisionSteps
            BY <4>1, <4>3 DEF ProvisionSteps, Kinds, EngineKinds
      <4>5. /\ pc' = "argo" => base.spec.provider = "argocd"
            /\ pc' \in {"repo", "kustomization"} => base.spec.provider = "flux"
            /\ pc' = "status" => base.spec.provider = "none"
            BY <4>1, <4>3
      <4> QED BY <2>2, <3>2, <4>1, <4>4, <4>5
    <3> QED BY <2>1, <3>1, <3>2, <3>3
  <2>5. CASE ReconcileArgo(up) \/ ReconcileFluxKustomization(up)
    <3>1. /\ pc \in {"argo", "kustomization"}
          /\ \/ Goto("fail")
             \/ pc' = "status" /\ base' = base /\ sync' \in SyncPhases
          BY <2>5, NormalizeType DEF ReconcileArgo, ReconcileFluxKustomization, WriteEngine
    <3>2. pc \in ProvisionSteps /\ base.spec.provider # "none"
          BY <1>a, <3>1 DEF PassOK, ProvisionSteps, EngineKinds
    <3>3. CASE pc' = "status" /\ base' = base /\ sync' \in SyncPhases
          BY <2>2, <3>2, <3>3, NilAssumption DEF ProvisionSteps, Kinds
    <3> QED BY <2>1, <3>1, <3>2, <3>3
  <2>6. CASE ReconcileFluxRepo(up)
    <3>1. pc = "repo" /\ (Goto("fail") \/ (pc' = "kustomization" /\ base' = base))
          BY <2>6 DEF ReconcileFluxRepo, WriteEngine
    <3>2. pc \in ProvisionSteps /\ base.spec.provider = "flux"
          BY <1>a, <3>1 DEF PassOK, ProvisionSteps, EngineKinds
    <3>3. CASE pc' = "kustomization" /\ base' = base
          BY <2>2, <3>2, <3>3 DEF ProvisionSteps, Kinds, EngineKinds
    <3> QED BY <2>1, <3>1, <3>2, <3>3
  <2>7. CASE \/ AddFinalizer(up) \/ Suspend(up) \/ BlockOnDependency(up) \/ Expire(up)
             \/ WriteStatus(up) \/ Fail(up) \/ Release(up) \/ Teardown(up)
             \/ \E step \in StopSteps : DeleteGitOps(step, up)
    <3>1. \A step \in StopSteps : StepAfterStop(step) \in FinalizeSteps
          BY DEF StepAfterStop, StopSteps, FinalizeSteps
    <3>2. pc' \in {"idle"} \cup FinalizeSteps
          BY <2>7, <3>1 DEF AddFinalizer, Suspend, BlockOnDependency, Expire, WriteStatus,
             Fail, Release, Teardown, DeleteGitOps, Goto, Return, Retry, Idle, FinalizeSteps
    <3>3. pc' # "fail"
          BY <3>2 DEF FinalizeSteps, StopSteps
    <3> QED BY <1>c, <3>2, <3>3
  <2> QED BY <1>2, <2>3, <2>4, <2>5, <2>6, <2>7 DEF WorkerStep
<1>3. CASE Restart
      BY <1>c, <1>3 DEF Restart, Idle
<1>4. CASE OutsideMove
      BY <1>b, <1>4 DEF OutsideMove
<1> QED BY <1>1, <1>2, <1>3, <1>4, StepKinds

-----------------------------------------------------------------------------
\* GitOps objects.

\* DeleteGitOps tells one object to go and leaves the others alone.
LEMMA DeleteEffects ==
    ASSUME TypeOK, pc \in StopSteps, DeleteGitOps(pc, TRUE)
    PROVE  /\ req \in Environments
           /\ \A c \in Environments, i \in EngineKinds :
                IF c = req /\ i = Stopped(pc)
                THEN engines'[c][i] = Nil \/ engines'[c][i].terminating
                ELSE engines'[c][i] = engines[c][i]
<1>1. req \in Environments /\ Stopped(pc) \in EngineKinds
      BY HeldTypes DEF StopSteps, Stopped, EngineKinds
<1>2. PICK d \in Environments, j \in EngineKinds : d = req /\ j = Stopped(pc)
      BY <1>1
<1>3. engines[d][j] \in EngineObject(j) \cup {Nil}
      BY DEF TypeOK, EngineTypeOK
<1>4. PICK o \in EngineObject(j) \cup {Nil} :
        o = Terminated(engines[d][j]) /\ (o = Nil \/ o.terminating)
      BY <1>3, TerminatedType
<1>5. engines' = [engines EXCEPT ![d][j] = o]
      BY <1>2, <1>4 DEF DeleteGitOps
<1>6. \A c \in Environments, i \in EngineKinds :
        engines'[c][i] = IF c = d /\ i = j THEN o ELSE engines[c][i]
      BY <1>5, WriteEngineType
<1> QED BY <1>1, <1>2, <1>4, <1>6

\* A GitOps object active after a step was so before, under the same owner,
\* or the worker has just applied it for the Environment it holds.
LEMMA EngineMoves ==
    ASSUME IndInv, TypeOK', [Next]_vars, NEW e \in Environments, NEW k \in EngineKinds,
           Active(e, k)'
    PROVE  \/ Active(e, k) /\ engines'[e][k].owner = engines[e][k].owner
           \/ /\ pc \in EngineKinds /\ e = req /\ envs' = envs
              /\ engines'[e][k].owner = base.uid
<1>a. TypeOK /\ engines'[e][k] # Nil /\ ~engines'[e][k].terminating
      BY DEF IndInv, Active
<1> DEFINE Kept    == Active(e, k) /\ engines'[e][k].owner = engines[e][k].owner
           Applied == /\ pc \in EngineKinds /\ e = req /\ envs' = envs
                      /\ engines'[e][k].owner = base.uid
<1>1. ASSUME engines' = engines PROVE Kept
      BY <1>a, <1>1 DEF Active
<1>2. ASSUME NEW up \in BOOLEAN, WorkerStep(up)
      PROVE  Kept \/ Applied
  <2>1. ASSUME NEW j \in EngineKinds, pc = j,
               engines' = [engines EXCEPT ![req][j] = AppliedEngine(j)], envs' = envs
        PROVE  Kept \/ Applied
    <3>1. pc # "idle" /\ req \in Environments
          BY <1>a, <2>1, HeldTypes DEF EngineKinds
    <3>a. AppliedEngine(j).owner = base.uid
          BY DEF AppliedEngine
    <3>2. PICK o : o = AppliedEngine(j) /\ o.owner = base.uid
          BY <3>a
    <3>3. engines = [d \in Environments |-> [i \in EngineKinds |-> engines[d][i]]]
          BY <1>a DEF TypeOK, EngineTypeOK
    <3>4. engines' = [d \in Environments |-> [i \in EngineKinds |->
                        IF d = req /\ i = j THEN o ELSE engines[d][i]]]
          BY <2>1, <3>1, <3>2, <3>3
    <3>5. engines'[e][k] = IF e = req /\ k = j THEN o ELSE engines[e][k]
          BY <3>4
    <3>6. CASE e = req /\ k = j
          BY <2>1, <3>2, <3>5, <3>6
    <3>7. CASE ~(e = req /\ k = j)
      <4>1. engines'[e][k] = engines[e][k]
            BY <3>5, <3>7
      <4> QED BY <1>a, <4>1 DEF Active
    <3> QED BY <3>6, <3>7
  <2>2. CASE ReconcileArgo(up)
        BY <1>1, <2>1, <2>2 DEF ReconcileArgo, WriteEngine, EngineKinds
  <2>3. CASE ReconcileFluxRepo(up)
        BY <1>1, <2>1, <2>3 DEF ReconcileFluxRepo, WriteEngine, EngineKinds
  <2>4. CASE ReconcileFluxKustomization(up)
        BY <1>1, <2>1, <2>4 DEF ReconcileFluxKustomization, WriteEngine, EngineKinds
  <2>5. ASSUME NEW step \in StopSteps, DeleteGitOps(step, up)
        PROVE  Kept
    <3>1. CASE ~up
          BY <1>1, <2>5, <3>1 DEF DeleteGitOps
    <3>2. CASE up
      <4>1. TypeOK /\ pc \in StopSteps /\ DeleteGitOps(pc, TRUE)
            BY <1>a, <2>5, <3>2 DEF DeleteGitOps
      <4>2. \/ engines'[e][k] = Nil \/ engines'[e][k].terminating
            \/ engines'[e][k] = engines[e][k]
            BY <4>1, DeleteEffects
      <4>3. engines'[e][k] = engines[e][k]
            BY <1>a, <4>2
      <4> QED BY <1>a, <4>3 DEF Active
    <3> QED BY <3>1, <3>2
  <2>6. CASE \/ AddFinalizer(up) \/ Suspend(up) \/ BlockOnDependency(up) \/ Expire(up)
             \/ ReconcileNamespace(up) \/ (\E j \in Kinds : ReconcileChild(j, up))
             \/ WriteStatus(up) \/ Fail(up) \/ Teardown(up) \/ Release(up)
    <3>1. engines' = engines
          BY <2>6 DEF AddFinalizer, Suspend, BlockOnDependency, Expire, ReconcileNamespace,
             ReconcileChild, WriteStatus, Fail, Teardown, Release
    <3> QED BY <1>1, <3>1
  <2> QED BY <1>2, <2>2, <2>3, <2>4, <2>5, <2>6 DEF WorkerStep
<1>3. CASE Restart \/ \E d \in Environments : Reconcile(d)
  <2>1. engines' = engines
        BY <1>3 DEF Restart, Reconcile
  <2> QED BY <1>1, <2>1
<1>4. CASE OutsideMove
      BY <1>a, <1>4 DEF OutsideMove, Active
<1> QED BY <1>2, <1>3, <1>4, StepKinds

\* A GitOps object is applied only for an Environment that exists and has its
\* finalizer, and the finalizer is dropped only when none is active.
LEMMA EnginesStep ==
    ASSUME IndInv, TypeOK', [Next]_vars, Moves
    PROVE  NoOrphanedEngines'
<1> SUFFICES ASSUME NEW e \in Environments, NEW k \in EngineKinds, Active(e, k)'
             PROVE  /\ envs'[e] # Nil /\ envs'[e].uid = engines'[e][k].owner
                    /\ envs'[e].finalizer
    BY DEF NoOrphanedEngines
<1>1. CASE Active(e, k) /\ engines'[e][k].owner = engines[e][k].owner
  <2>1. envs[e] # Nil /\ envs[e].uid = engines[e][k].owner /\ envs[e].finalizer
        BY <1>1 DEF IndInv, NoOrphanedEngines
  <2>2. ~(pc = "release" /\ e = req)
    <3>1. pc = "release" => k \in StoppedBefore(pc)
          BY DEF StoppedBefore
    <3> QED BY <1>1, <3>1 DEF IndInv, StoppedOK
  <2>3. EnvMove(e)
        BY DEF Moves
  <2> QED BY <1>1, <2>1, <2>2, <2>3 DEF EnvMove
<1>2. CASE /\ pc \in EngineKinds /\ e = req /\ envs' = envs
           /\ engines'[e][k].owner = base.uid
  <2>1. pc # "idle" /\ pc \notin FinalizeSteps \cup {"addFinalizer"}
        BY <1>2 DEF EngineKinds, FinalizeSteps, StopSteps
  <2>2. /\ base.finalizer /\ envs[req] # Nil /\ envs[req].uid = base.uid
        /\ Follows(envs[req], base)
        BY <2>1 DEF IndInv, HeldOK
  <2> QED BY <1>2, <2>2 DEF Follows
<1> QED BY <1>1, <1>2, EngineMoves

\* DeleteGitOps goes through the kinds; none comes back meanwhile.
LEMMA StoppedStep ==
    ASSUME IndInv, TypeOK', [Next]_vars
    PROVE  StoppedOK'
<1>a. TypeOK /\ StoppedOK
      BY DEF IndInv
<1>b. ASSUME pc' \notin {"stopKustomization", "stopRepo", "teardown", "release"}
      PROVE  StoppedOK'
      BY <1>b DEF StoppedOK, StoppedBefore
<1>1. ASSUME NEW e \in Environments, Reconcile(e)
      PROVE  StoppedOK'
  <2>1. pc' = "idle" \/ (ecache[e] # Nil /\ pc' = FirstStep(ecache[e]))
        BY <1>1 DEF Reconcile, worker
  <2>2. CASE ecache[e] # Nil /\ pc' = FirstStep(ecache[e])
    <3>1. ecache[e].finalizer \in BOOLEAN /\ ecache[e].deleting \in BOOLEAN
          BY <1>a, <2>2 DEF TypeOK, EnvironmentObject
    <3> QED BY <1>b, <2>2, <3>1, FirstStepHeld
  <2> QED BY <1>b, <2>1, <2>2
<1>2. ASSUME NEW up \in BOOLEAN, WorkerStep(up)
      PROVE  StoppedOK'
  <2>1. ASSUME NEW step \in StopSteps, DeleteGitOps(step, up)
        PROVE  StoppedOK'
    <3>1. CASE ~up
          BY <1>b, <2>1, <3>1 DEF DeleteGitOps, Retry, Idle
    <3>2. CASE up
      <4>1. pc = step /\ pc' = StepAfterStop(step) /\ req' = req
            BY <2>1, <3>2 DEF DeleteGitOps, Goto
      <4>2. req \in Environments /\ Stopped(step) \in EngineKinds
            BY <1>a, <4>1, HeldTypes DEF StopSteps, Stopped, EngineKinds
      <4>3. \A k \in EngineKinds :
                IF k = Stopped(step)
                THEN engines'[req][k] = Nil \/ engines'[req][k].terminating
                ELSE engines'[req][k] = engines[req][k]
        <5>1. TypeOK /\ pc \in StopSteps /\ DeleteGitOps(pc, TRUE) /\ pc = step
              BY <1>a, <2>1, <3>2 DEF DeleteGitOps
        <5> QED BY <5>1, DeleteEffects
      <4>4. StoppedBefore(pc') = StoppedBefore(pc) \cup {Stopped(step)}
            BY <4>1 DEF StopSteps, StepAfterStop, StoppedBefore, Stopped, EngineKinds
      <4>5. StoppedBefore(pc) \subseteq EngineKinds
            BY DEF StoppedBefore, EngineKinds
      <4> QED BY <1>a, <4>1, <4>2, <4>3, <4>4, <4>5 DEF StoppedOK, Active
    <3> QED BY <3>1, <3>2
  <2>2. CASE Teardown(up)
    <3>1. /\ pc = "teardown" /\ engines' = engines
          /\ pc' = "idle" \/ (pc' = "release" /\ req' = req)
          BY <2>2 DEF Teardown, Goto, Retry, Idle
    <3>2. CASE pc' = "release" /\ req' = req
      <4>1. StoppedBefore(pc') = StoppedBefore(pc)
            BY <3>1, <3>2 DEF StoppedBefore
      <4> QED BY <1>a, <3>1, <3>2, <4>1 DEF StoppedOK, Active
    <3> QED BY <1>b, <3>1, <3>2
  <2>3. CASE \/ AddFinalizer(up) \/ Suspend(up) \/ BlockOnDependency(up) \/ Expire(up)
             \/ WriteStatus(up) \/ Fail(up) \/ Release(up)
    <3>1. pc' = "idle"
          BY <2>3 DEF AddFinalizer, Suspend, BlockOnDependency, Expire, WriteStatus, Fail,
             Release, Return, Retry, Idle
    <3> QED BY <1>b, <3>1
  <2>4. CASE \/ ReconcileNamespace(up) \/ (\E k \in Kinds : ReconcileChild(k, up))
             \/ ReconcileArgo(up) \/ ReconcileFluxRepo(up) \/ ReconcileFluxKustomization(up)
    <3>1. \A k \in Kinds :
            StepAfter(k) \in {"config", "secrets", "argo", "repo", "status"}
          BY DEF StepAfter, Kinds
    <3>2. pc' \in {"quota", "config", "secrets", "argo", "repo", "kustomization", "status",
                   "fail"}
          BY <2>4, <3>1 DEF ReconcileNamespace, ReconcileChild, ReconcileArgo,
             ReconcileFluxRepo, ReconcileFluxKustomization, WriteEngine, Goto
    <3> QED BY <1>b, <3>2
  <2> QED BY <1>2, <2>1, <2>2, <2>3, <2>4 DEF WorkerStep
<1>3. CASE Restart
      BY <1>b, <1>3 DEF Restart, Idle
<1>4. CASE OutsideMove
  <2>1. CASE pc \in {"stopKustomization", "stopRepo", "teardown", "release"}
    <3>1. req \in Environments /\ StoppedBefore(pc) \subseteq EngineKinds
          BY <1>a, <2>1, HeldTypes DEF StoppedBefore, EngineKinds
    <3> QED BY <1>a, <1>4, <3>1 DEF OutsideMove, StoppedOK, Active
  <2>2. CASE pc \notin {"stopKustomization", "stopRepo", "teardown", "release"}
        BY <1>b, <1>4, <2>2 DEF OutsideMove
  <2> QED BY <2>1, <2>2
<1> QED BY <1>1, <1>2, <1>3, <1>4, StepKinds

-----------------------------------------------------------------------------
\* Phase series, requests and timers.

\* A worker step sets the series of its own request, keeps what the cache has
\* and loses no request.
LEMMA WorkerFrames ==
    ASSUME TypeOK, NEW up \in BOOLEAN, WorkerStep(up)
    PROVE  /\ pc # "idle" /\ req \in Environments
           /\ \A d \in Environments \ {req} : gauge'[d] = gauge[d]
           /\ ecache' = ecache /\ queue \subseteq queue' /\ resync \subseteq resync'
           /\ req' = req \/ (req' = Nil /\ Idle /\ (req \in queue' \/ Return))
<1>1. /\ ecache' = ecache
      /\ \/ AddFinalizer(up) \/ Suspend(up) \/ BlockOnDependency(up) \/ Expire(up)
         \/ ReconcileNamespace(up) \/ (\E k \in Kinds : ReconcileChild(k, up))
         \/ ReconcileArgo(up) \/ ReconcileFluxRepo(up) \/ ReconcileFluxKustomization(up)
         \/ WriteStatus(up) \/ Fail(up)
         \/ (\E step \in StopSteps : DeleteGitOps(step, up)) \/ Teardown(up) \/ Release(up)
      BY DEF WorkerStep, caches
<1>2. pc # "idle"
      BY <1>1 DEF AddFinalizer, Suspend, BlockOnDependency, Expire, ReconcileNamespace,
         ReconcileChild, Kinds, ReconcileArgo, ReconcileFluxRepo,
         ReconcileFluxKustomization, WriteStatus, Fail, DeleteGitOps, StopSteps, Teardown,
         Release
<1>3. req \in Environments /\ gauge \in [Environments -> Phases]
      BY <1>2, HeldTypes DEF TypeOK
<1>4. gauge' = gauge \/ \E p : gauge' = [gauge EXCEPT ![req] = p]
      BY <1>1 DEF AddFinalizer, Suspend, BlockOnDependency, Expire, ReconcileNamespace,
         ReconcileChild, ReconcileArgo, ReconcileFluxRepo, ReconcileFluxKustomization,
         WriteStatus, Fail, DeleteGitOps, Teardown, Release, SetPhase, ClearPhase
<1>5. \A d \in Environments \ {req} : gauge'[d] = gauge[d]
      BY <1>3, <1>4
<1>6. queue \subseteq queue'
      BY <1>1 DEF AddFinalizer, Suspend, BlockOnDependency, Expire, ReconcileNamespace,
         ReconcileChild, ReconcileArgo, ReconcileFluxRepo, ReconcileFluxKustomization,
         WriteEngine, WriteStatus, Fail, DeleteGitOps, Teardown, Release, Goto, Return, Retry
<1>7. resync \subseteq resync'
      BY <1>1 DEF AddFinalizer, Suspend, BlockOnDependency, Expire, ReconcileNamespace,
         ReconcileChild, ReconcileArgo, ReconcileFluxRepo, ReconcileFluxKustomization,
         WriteStatus, Fail, DeleteGitOps, Teardown, Release, RequeueAfter
<1>8. req' = req \/ Retry \/ Return
      BY <1>1 DEF AddFinalizer, Suspend, BlockOnDependency, Expire, ReconcileNamespace,
         ReconcileChild, ReconcileArgo, ReconcileFluxRepo, ReconcileFluxKustomization,
         WriteEngine, WriteStatus, Fail, DeleteGitOps, Teardown, Release, Goto
<1>9. req' = req \/ (req' = Nil /\ Idle /\ (req \in queue' \/ Return))
      BY <1>8 DEF Return, Retry, Idle
<1> QED BY <1>1, <1>2, <1>3, <1>5, <1>6, <1>7, <1>9

LEMMA SeriesStep ==
    ASSUME IndInv, TypeOK', [Next]_vars
    PROVE  SeriesOK'
<1>a. TypeOK /\ SeriesOK
      BY DEF IndInv
<1> SUFFICES ASSUME NEW d \in Environments, ecache'[d] = Nil, d \notin queue'
             PROVE  gauge'[d] = "None"
    BY DEF SeriesOK
<1>1. ASSUME NEW e \in Environments, Reconcile(e)
      PROVE  gauge'[d] = "None"
  <2>1. gauge \in [Environments -> Phases] /\ ecache' = ecache /\ queue' = queue \ {e}
        BY <1>a, <1>1 DEF TypeOK, Reconcile, caches
  <2>2. CASE ecache[e] = Nil
    <3>1. gauge' = [gauge EXCEPT ![e] = "None"]
          BY <1>1, <2>2 DEF Reconcile, NotFound, ClearPhase
    <3> QED BY <1>a, <2>1, <3>1 DEF SeriesOK
  <2>3. CASE ecache[e] # Nil
    <3>1. d # e
          BY <2>1, <2>3
    <3>2. gauge' = gauge \/ gauge' = [gauge EXCEPT ![e] = "Terminating"]
          BY <1>1, <2>3 DEF Reconcile, SetPhase
    <3> QED BY <1>a, <2>1, <3>1, <3>2 DEF SeriesOK
  <2> QED BY <2>2, <2>3
<1>2. ASSUME NEW up \in BOOLEAN, WorkerStep(up)
      PROVE  gauge'[d] = "None"
  <2>1. /\ pc # "idle" /\ req \in Environments /\ ecache' = ecache /\ queue \subseteq queue'
        /\ \A c \in Environments \ {req} : gauge'[c] = gauge[c]
        BY <1>a, <1>2, WorkerFrames
  <2>2. d # req
    <3>1. base # Nil
          BY <1>a, <2>1, HeldTypes
    <3>2. ecache[req] = base \/ req \in queue
          BY <2>1 DEF IndInv, HeldOK
    <3> QED BY <2>1, <3>1, <3>2
  <2> QED BY <1>a, <2>1, <2>2 DEF SeriesOK
<1>3. CASE Restart
      BY <1>3 DEF Restart
<1>4. CASE OutsideMove
      BY <1>a, <1>4 DEF OutsideMove, SeriesOK
<1> QED BY <1>1, <1>2, <1>3, <1>4, StepKinds

\* Nothing will bring e back by itself.
Quiet(e) == ecache[e] = envs[e] /\ e \notin queue /\ e \notin resync /\ req # e

\* A suspended Environment that says so.
AtRest(env) ==
    /\ ~env.deleting /\ env.spec.suspend
    /\ env.status.phase = "Suspended" /\ env.status.observedGeneration = env.gen

\* A version the cache already has is not a new one.
LEMMA QuietVersion ==
    ASSUME IndInv, TypeOK', Moves, NEW e \in Environments, envs'[e] # Nil,
           ecache'[e] = envs'[e]
    PROVE  envs'[e] = envs[e]
<1>1. EnvMove(e) /\ CacheMove(e) /\ uids \in Nat
      BY DEF Moves
<1>2. CASE ecache'[e] = ecache[e]
  <2>1. /\ ecache[e].uid \in Nat /\ ecache[e].gen \in Nat /\ ecache[e].uid <= uids
        /\ envs[e] # Nil => Follows(envs[e], ecache[e])
        BY <1>2, VersionTypes DEF IndInv, CachedOK
  <2>2. envs[e] # Nil => envs[e].gen \in Nat
        BY VersionTypes DEF IndInv
  <2>3. pc # "idle" /\ req = e /\ envs[e] = base => ecache[e] = base
        BY DEF IndInv, HeldOK
  <2> QED BY <1>1, <1>2, <2>1, <2>2, <2>3 DEF EnvMove, Follows, WriteSteps
<1>3. CASE ecache'[e] = envs[e] /\ envs' = envs
      BY <1>3
<1> QED BY <1>1, <1>2, <1>3 DEF CacheMove

\* The step that leaves an Environment quiet is the one that reports it
\* suspended; every other return sets a timer, retries, or makes an event.
LEMMA WakeupStep ==
    ASSUME IndInv, TypeOK', [Next]_vars, Moves
    PROVE  NoLostWakeup'
<1>a. TypeOK
      BY DEF IndInv
<1> SUFFICES ASSUME NEW d \in Environments, envs'[d] # Nil, ecache'[d] = envs'[d],
                    d \notin queue', d \notin resync', req' # d
             PROVE  AtRest(envs'[d])
    BY DEF NoLostWakeup, AtRest
<1>b. envs'[d] = envs[d]
      BY QuietVersion
<1>c. ASSUME Quiet(d) PROVE AtRest(envs'[d])
      BY <1>b, <1>c DEF Quiet, AtRest, IndInv, NoLostWakeup
<1>1. ASSUME NEW e \in Environments, Reconcile(e)
      PROVE  AtRest(envs'[d])
  <2>1. ecache' = ecache /\ queue' = queue \ {e} /\ resync' = resync
        BY <1>1 DEF Reconcile, caches
  <2>2. req # d
        BY <1>a, <1>1, NilAssumption DEF Reconcile, TypeOK, WorkerTypeOK
  <2>3. e # d
    <3> SUFFICES ASSUME e = d PROVE FALSE
        OBVIOUS
    <3>1. ecache[d] # Nil /\ ecache[d] = envs[d]
          BY <1>b, <2>1
    <3>2. FirstStep(ecache[d]) = "idle"
          BY <1>1, <3>1 DEF Reconcile
    <3>3. ecache[d].finalizer \in BOOLEAN /\ ecache[d].deleting \in BOOLEAN
          BY <1>a, <3>1 DEF TypeOK, EnvironmentObject
    <3>4. ecache[d].deleting /\ ~ecache[d].finalizer
      <4>1. CASE ~ecache[d].deleting /\ ecache[d].finalizer /\ ~ecache[d].spec.suspend
            BY <3>2, <4>1 DEF FirstStep
      <4>2. CASE ~ecache[d].deleting /\ ecache[d].finalizer /\ ecache[d].spec.suspend
            BY <3>2, <4>2 DEF FirstStep
      <4>3. CASE ecache[d].deleting \/ ~ecache[d].finalizer
            BY <3>2, <3>3, <4>3 DEF FirstStep
      <4> QED BY <3>3, <4>1, <4>2, <4>3
    <3> QED BY <3>1, <3>4 DEF IndInv, StoredOK
  <2> QED BY <1>b, <1>c, <2>1, <2>2, <2>3 DEF Quiet
<1>2. ASSUME NEW up \in BOOLEAN, WorkerStep(up)
      PROVE  AtRest(envs'[d])
  <2>1. /\ pc # "idle" /\ req \in Environments
        /\ ecache' = ecache /\ queue \subseteq queue' /\ resync \subseteq resync'
        /\ req' = req \/ (Idle /\ (req \in queue' \/ Return))
        BY <1>a, <1>2, WorkerFrames
  <2>2. CASE req # d
        BY <1>b, <1>c, <2>1, <2>2 DEF Quiet
  <2>3. CASE req = d
    <3>1. Return /\ req \notin queue' /\ req \notin resync'
          BY <2>1, <2>3
    <3>2. ~Retry
          BY <3>1 DEF Retry
    <3>3. pc' = "idle"
          BY <3>1 DEF Return, Idle
    <3>4. /\ base \in EnvironmentObject /\ base.status \in EnvironmentStatus
          /\ base.spec \in Specs
          BY <1>a, <2>1, HeldTypes
    <3>5. CASE AddFinalizer(up)
      <4>1. pc = "addFinalizer" /\ Fresh /\ envs' = [envs EXCEPT ![req] = WithFinalizer(base)]
            BY <3>2, <3>5 DEF AddFinalizer
      <4>2. ~base.finalizer
            BY <4>1 DEF IndInv, HeldOK
      <4>3. envs'[req] = WithFinalizer(base) /\ envs'[req] = base
            BY <1>a, <1>b, <2>1, <2>3, <4>1 DEF TypeOK, Fresh
      <4>4. WithFinalizer(base).finalizer
            BY <3>4, EditEffects
      <4> QED BY <4>2, <4>3, <4>4
    <3>6. CASE Suspend(up)
      <4>1. pc = "suspend" /\ envs' = [envs EXCEPT ![req] = WithStatus(base, SuspendedStatus(base))]
            BY <3>2, <3>6 DEF Suspend
      <4>2. base.spec.suspend /\ ~base.deleting
            BY <4>1 DEF IndInv, PassOK, HeldOK, FinalizeSteps, StopSteps
      <4>3. PICK st \in EnvironmentStatus :
                st = SuspendedStatus(base) /\ st.phase = "Suspended"
                    /\ st.observedGeneration = base.gen
        <5>1. "Suspended" \in Phases
              BY DEF Phases
        <5> QED BY <3>4, <5>1, NotReadyEffects DEF SuspendedStatus
      <4>4. envs'[d] = WithStatus(base, st)
            BY <1>a, <2>1, <2>3, <4>1, <4>3 DEF TypeOK
      <4>5. LET n == WithStatus(base, st)
            IN  n.deleting = base.deleting /\ n.spec = base.spec /\ n.gen = base.gen
                    /\ n.status = st
            BY <3>4, EditEffects
      <4> QED BY <4>2, <4>3, <4>4, <4>5 DEF AtRest
    <3>7. CASE BlockOnDependency(up) \/ WriteStatus(up)
      <4>1. RequeueAfter(req)
            BY <3>2, <3>7 DEF BlockOnDependency, WriteStatus
      <4> QED BY <3>1, <4>1 DEF RequeueAfter
    <3>8. CASE Expire(up)
      <4>1. pc = "expire" /\ envs' = [envs EXCEPT ![req] = Deleted(envs[req])]
            BY <3>2, <3>8 DEF Expire
      <4>2. /\ ~base.deleting /\ base.finalizer /\ envs[req] # Nil
            /\ ecache[req] = base \/ req \in queue
            BY <2>1, <4>1 DEF IndInv, HeldOK, FinalizeSteps, StopSteps
      <4>3. envs[req] = base
            BY <1>b, <2>1, <2>3, <3>1, <4>2
      <4>4. envs'[req] = Deleted(base)
            BY <1>a, <2>1, <4>1, <4>3 DEF TypeOK
      <4>5. Deleted(base).deleting
            BY <3>4, <4>2, DeletedEffects
      <4> QED BY <1>b, <2>3, <4>2, <4>3, <4>4, <4>5
    <3>9. CASE Release(up)
      <4>1. envs' = [envs EXCEPT ![req] = Nil]
            BY <3>2, <3>9 DEF Release
      <4> QED BY <1>a, <2>1, <2>3, <4>1 DEF TypeOK
    <3>10. CASE Fail(up) \/ Teardown(up) \/ \E step \in StopSteps : DeleteGitOps(step, up)
      <4>1. \A step \in StopSteps : StepAfterStop(step) # "idle"
            BY DEF StepAfterStop, StopSteps
      <4> QED BY <3>2, <3>3, <3>10, <4>1 DEF Fail, Teardown, DeleteGitOps, Goto
    <3>11. CASE \/ ReconcileNamespace(up) \/ (\E k \in Kinds : ReconcileChild(k, up))
                \/ ReconcileArgo(up) \/ ReconcileFluxRepo(up)
                \/ ReconcileFluxKustomization(up)
      <4>1. \A k \in Kinds : StepAfter(k) # "idle"
            BY DEF StepAfter, Kinds
      <4> QED BY <3>3, <3>11, <4>1 DEF ReconcileNamespace, ReconcileChild, ReconcileArgo,
                 ReconcileFluxRepo, ReconcileFluxKustomization, WriteEngine, Goto
    <3> QED BY <1>2, <3>5, <3>6, <3>7, <3>8, <3>9, <3>10, <3>11 DEF WorkerStep
  <2> QED BY <2>2, <2>3
<1>3. CASE Restart
      BY <1>b, <1>3 DEF Restart
<1>4. CASE OutsideMove
      BY <1>b, <1>c, <1>4 DEF OutsideMove, Quiet
<1> QED BY <1>1, <1>2, <1>3, <1>4, StepKinds

-----------------------------------------------------------------------------
\* The inductive invariant and what follows from it.

LEMMA IndInit == Init => IndInv
<1> SUFFICES ASSUME Init PROVE IndInv
    OBVIOUS
<1>1. TypeOK
      BY TypeInit
<1>2. StoredOK /\ CachedOK /\ HeldOK
      BY DEF Init, StoredOK, CachedOK, HeldOK
<1>3. PassOK /\ SeriesOK /\ NoOrphanedEngines
      BY DEF Init, PassOK, SeriesOK, NoOrphanedEngines, Active, ProvisionSteps, Kinds, EngineKinds
<1>4. StoppedOK
      BY DEF Init, StoppedOK, StoppedBefore
<1>5. ReadyStatusIsCoherent /\ NoLostWakeup
      BY DEF Init, ReadyStatusIsCoherent, NoLostWakeup
<1> QED BY <1>1, <1>2, <1>3, <1>4, <1>5 DEF IndInv

LEMMA IndStep == IndInv /\ [Next]_vars => IndInv'
<1> SUFFICES ASSUME IndInv, [Next]_vars PROVE IndInv'
    OBVIOUS
<1>1. TypeOK'
      BY TypeStep DEF IndInv
<1>2. Moves
      BY <1>1, StepKinds
<1>3. StoredOK' /\ CachedOK' /\ HeldOK' /\ ReadyStatusIsCoherent'
      BY <1>1, <1>2, StoredStep, CachedStep, HeldStep, ReadyStep
<1>4. PassOK' /\ StoppedOK' /\ SeriesOK'
      BY <1>1, PassStep, StoppedStep, SeriesStep
<1>5. NoOrphanedEngines' /\ NoLostWakeup'
      BY <1>1, <1>2, EnginesStep, WakeupStep
<1> QED BY <1>1, <1>3, <1>4, <1>5 DEF IndInv

\* The strengthening is an invariant for every set of Environments, specs,
\* tenants and sources and for any number of edits, API errors, restarts and
\* out-of-band changes: what the cache and the worker hold is a version of the
\* stored object or of a predecessor, a pass over a suspended spec never starts,
\* and finalize has told the GitOps objects of the steps behind it to go.
THEOREM InductiveInvariant == Spec => []IndInv
<1>1. Init => IndInv
      BY IndInit
<1>2. IndInv /\ [Next]_vars => IndInv'
      BY IndStep
<1> QED BY <1>1, <1>2, PTL DEF Spec

\* However stale the cache, the worker provisions for, and the lifetime check
\* deletes by name, only the Environment object that was read: never a successor
\* of the same name (reconcileEnvironment).
THEOREM WorksOnExistingHolds == Spec => []WorksOnExisting
<1>1. IndInv => WorksOnExisting
  <2> SUFFICES ASSUME IndInv, pc \in ProvisionSteps \cup {"expire"}
               PROVE  envs[req] # Nil /\ envs[req].uid = base.uid /\ envs[req].finalizer
      BY DEF WorksOnExisting
  <2>1. pc # "idle" /\ pc \notin FinalizeSteps \cup {"addFinalizer"}
        BY DEF ProvisionSteps, FinalizeSteps, StopSteps, Kinds, EngineKinds
  <2>2. /\ base.finalizer /\ envs[req] # Nil /\ envs[req].uid = base.uid
        /\ Follows(envs[req], base)
        BY <2>1 DEF IndInv, HeldOK
  <2> QED BY <2>2 DEF Follows
<1> QED BY <1>1, InductiveInvariant, PTL

\* No GitOps object that nobody has told to go outlives the Environment that
\* controls it, or is left to a successor: whatever an engine still has of a
\* deleted Environment is terminating (DeleteGitOps before RemoveFinalizer).
THEOREM NoOrphanedEnginesHolds == Spec => []NoOrphanedEngines
<1>1. IndInv => NoOrphanedEngines
      BY DEF IndInv
<1> QED BY <1>1, InductiveInvariant, PTL

\* finalize deletes the workload namespace, and drops the finalizer, only when
\* every GitOps object of the Environment has been told to go; that they are
\* gone by then is false (EngineGoneFirst).
THEOREM EngineStoppedFirstHolds == Spec => []EngineStoppedFirst
<1>1. IndInv => EngineStoppedFirst
  <2> SUFFICES ASSUME IndInv, pc \in {"teardown", "release"}
               PROVE  \A k \in EngineKinds : ~Active(req, k)
      BY DEF EngineStoppedFirst
  <2>1. StoppedBefore(pc) = EngineKinds
        BY DEF StoppedBefore
  <2> QED BY <2>1 DEF IndInv, StoppedOK
<1> QED BY <1>1, InductiveInvariant, PTL

\* A Ready status of the current generation comes from a complete pass over a
\* spec that is not suspended, and says what the engine said (derivePhase).
THEOREM ReadyStatusIsCoherentHolds == Spec => []ReadyStatusIsCoherent
<1>1. IndInv => ReadyStatusIsCoherent
      BY DEF IndInv
<1> QED BY <1>1, InductiveInvariant, PTL

\* No phase series outlives an Environment whose deletion has been observed and
\* for which no request is left (NotFound, finalize).
THEOREM NoLeakedSeriesHolds == Spec => []NoLeakedSeries
<1>1. IndInv => NoLeakedSeries
      BY DEF IndInv, SeriesOK, NoLeakedSeries
<1> QED BY <1>1, InductiveInvariant, PTL

\* An Environment nothing will bring back is a suspended one that says so: the
\* controller watches only Environments, so every other outcome sets a timer.
THEOREM NoLostWakeupHolds == Spec => []NoLostWakeup
<1>1. IndInv => NoLostWakeup
      BY DEF IndInv
<1> QED BY <1>1, InductiveInvariant, PTL
=============================================================================
