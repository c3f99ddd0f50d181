--------------------------- MODULE AdmissionProofs ---------------------------
(***************************************************************************)
(* Proofs about the admission webhooks, for every set of names, prefixes,  *)
(* labels, administrators and retry policies, and about the delay computed *)
(* under a stored policy, for every width of the words.                    *)
(***************************************************************************)
EXTENDS Admission, BackoffProofs

-----------------------------------------------------------------------------
\* Default.

\* What is filled in inside the optional structures stays filled in.
LEMMA DefaultSourceCompletes ==
    ASSUME NEW source \in {Nil} \cup GitSources({"", "v1"}, {""})
    PROVE  DefaultSource(source) \in {Nil} \cup GitSources({"HEAD", "v1"}, {"."})
BY DEF DefaultSource, GitSources, Or

LEMMA DefaultPolicyCompletes ==
    ASSUME NEW policy \in Policies
    PROVE  DefaultPolicy(policy) \in RetryPolicies({"fixed", "exponential"})
<1>1. CASE policy = Nil
      BY <1>1 DEF DefaultPolicy, defaultRetryPolicy, defaultMaxRetries, RetryPolicies
<1>2. CASE policy # Nil
  <2>1. policy \in RetryPolicies({"", "fixed", "exponential"})
        BY <1>2, PoliciesAssumption
  <2>2. DefaultPolicy(policy) = [policy EXCEPT !.backoff = Or(@, "exponential")]
        BY <1>2 DEF DefaultPolicy
  <2>3. Or(policy.backoff, "exponential") \in {"fixed", "exponential"}
        BY <2>1 DEF RetryPolicies, Or
  <2> QED BY <2>1, <2>2, <2>3 DEF RetryPolicies
<1> QED BY <1>1, <1>2

\* Defaulting completes whatever a user may send ...
LEMMA DefaultCompletes ==
    ASSUME NEW kind \in Kinds, NEW raw \in RawSpecs(kind)
    PROVE  Default(kind, raw) \in CompleteSpecs(kind)
<1>1. CASE kind = "Tenant"
  <2>1. raw \in TenantSpecs
        BY <1>1 DEF RawSpecs
  <2>2. Default(kind, raw) = DefaultTenant(raw)
        BY <1>1 DEF Default
  <2>3. DefaultTenant(raw) \in CompleteSpecs("Tenant")
        BY <2>1 DEF TenantSpecs, DefaultTenant, CompleteSpecs, Or, defaultPrefix
  <2> QED BY <1>1, <2>2, <2>3
<1>2. CASE kind = "Environment"
  <2>1. raw \in EnvironmentSpecs
        BY <1>2 DEF RawSpecs
  <2>2. Default(kind, raw) = DefaultEnvironment(raw)
        BY <1>2 DEF Default
  <2>3. DefaultSource(raw.source) \in {Nil} \cup GitSources({"HEAD", "v1"}, {"."})
        BY <2>1, DefaultSourceCompletes DEF EnvironmentSpecs
  <2>4. DefaultEnvironment(raw) \in CompleteSpecs("Environment")
        BY <2>1, <2>3 DEF DefaultEnvironment, EnvironmentSpecs, CompleteSpecs, Or
  <2> QED BY <1>2, <2>2, <2>4
<1>3. CASE kind = "Integration"
  <2>1. raw \in IntegrationSpecs
        BY <1>3 DEF RawSpecs
  <2>2. Default(kind, raw) = DefaultIntegration(raw)
        BY <1>3 DEF Default
  <2>3. DefaultPolicy(raw.retryPolicy) \in RetryPolicies({"fixed", "exponential"})
        BY <2>1, DefaultPolicyCompletes DEF IntegrationSpecs
  <2>4. DefaultIntegration(raw) \in CompleteSpecs("Integration")
        BY <2>1, <2>3 DEF DefaultIntegration, IntegrationSpecs, CompleteSpecs
  <2> QED BY <1>3, <2>2, <2>4
<1> QED BY <1>1, <1>2, <1>3 DEF Kinds

\* ... and leaves a complete spec alone.
LEMMA DefaultKeepsComplete ==
    ASSUME NEW kind \in Kinds, NEW spec \in CompleteSpecs(kind)
    PROVE  Default(kind, spec) = spec
<1>1. CASE kind = "Tenant"
  <2>1. Default(kind, spec) = DefaultTenant(spec) /\ spec \in CompleteSpecs("Tenant")
        BY <1>1 DEF Default
  <2> QED BY <2>1 DEF DefaultTenant, CompleteSpecs, Or, defaultPrefix
<1>2. CASE kind = "Environment"
  <2>1. Default(kind, spec) = DefaultEnvironment(spec) /\ spec \in CompleteSpecs("Environment")
        BY <1>2 DEF Default
  <2>2. DefaultSource(spec.source) = spec.source
        BY <2>1 DEF CompleteSpecs, DefaultSource, GitSources, Or
  <2> QED BY <2>1, <2>2 DEF DefaultEnvironment, CompleteSpecs, Or
<1>3. CASE kind = "Integration"
  <2>1. Default(kind, spec) = DefaultIntegration(spec) /\ spec \in CompleteSpecs("Integration")
        BY <1>3 DEF Default
  <2>2. spec.retryPolicy \in RetryPolicies({"fixed", "exponential"})
        BY <2>1 DEF CompleteSpecs
  <2>3. spec.retryPolicy # Nil
        BY <2>2, NilAssumption DEF RetryPolicies
  <2>4. DefaultPolicy(spec.retryPolicy) = spec.retryPolicy
    <3>1. Or(spec.retryPolicy.backoff, "exponential") = spec.retryPolicy.backoff
          BY <2>2 DEF RetryPolicies, Or
    <3>2. DefaultPolicy(spec.retryPolicy) =
            [spec.retryPolicy EXCEPT !.backoff = spec.retryPolicy.backoff]
          BY <2>3, <3>1 DEF DefaultPolicy
    <3> QED BY <2>2, <3>2 DEF RetryPolicies
  <2>5. (IF spec.healthCheck = Nil THEN "default" ELSE spec.healthCheck) = spec.healthCheck
        BY <2>1, NilAssumption DEF CompleteSpecs
  <2>6. spec \in [tenant : {"", "acme"}, type : IntegrationTypes,
                  endpoint : {"", "url", "dsn"},
                  retryPolicy : RetryPolicies({"fixed", "exponential"}),
                  healthCheck : {"default", "custom"}]
        BY <2>1 DEF CompleteSpecs
  <2>7. DefaultIntegration(spec) = [spec EXCEPT !.retryPolicy = spec.retryPolicy,
                                                !.healthCheck = spec.healthCheck]
        BY <2>4, <2>5, <2>6 DEF DefaultIntegration
  <2> QED BY <2>1, <2>6, <2>7
<1> QED BY <1>1, <1>2, <1>3 DEF Kinds

-----------------------------------------------------------------------------
\* The stored object.

\* Every stored object is complete and passes admission again.
Admissible == TypeOK /\ ReadmitsUnchanged

\* The effect of each step on the stored object.
LEMMA StoredEffects ==
    ASSUME Admissible, [Next]_vars, stored' # Nil
    PROVE  \/ stored' = stored
           \/ /\ stored' \in [kind : {stored'.kind}, name : TenantNames,
                              spec : CompleteSpecs(stored'.kind),
                              finalizer : BOOLEAN, deleting : BOOLEAN]
              /\ stored'.kind \in Kinds
              /\ ValidateInto(stored'.kind, stored'.name, stored'.spec)
<1> DEFINE Object(k) == [kind : {k}, name : TenantNames, spec : CompleteSpecs(k),
                         finalizer : BOOLEAN, deleting : BOOLEAN]
<1>a. ASSUME stored # Nil
      PROVE  /\ stored.kind \in Kinds /\ stored \in Object(stored.kind)
             /\ stored.spec \in CompleteSpecs(stored.kind)
             /\ Default(stored.kind, stored.spec) = stored.spec
             /\ ValidateInto(stored.kind, stored.name, stored.spec)
  <2>1. stored.kind \in Kinds /\ stored \in Object(stored.kind)
        BY <1>a DEF Admissible, TypeOK
  <2>2. stored.spec \in CompleteSpecs(stored.kind)
        BY <2>1
  <2>3. Default(stored.kind, stored.spec) = stored.spec
        BY <2>1, <2>2, DefaultKeepsComplete
  <2> QED BY <1>a, <2>1, <2>2, <2>3 DEF Admissible, ReadmitsUnchanged, Admitted, ValidateUpdate
<1>1. ASSUME NEW kind \in Kinds, NEW name \in TenantNames, NEW raw \in RawSpecs(kind),
             Create(kind, name, raw)
      PROVE  /\ stored = Nil /\ stored' \in Object(kind) /\ stored'.kind = kind
             /\ ValidateInto(kind, stored'.name, stored'.spec)
  <2>1. Default(kind, raw) \in CompleteSpecs(kind)
        BY DefaultCompletes
  <2>2. /\ stored = Nil /\ ValidateInto(kind, name, Default(kind, raw))
        /\ stored' = [kind |-> kind, name |-> name, spec |-> Default(kind, raw),
                      finalizer |-> FALSE, deleting |-> FALSE]
        BY <1>1 DEF Create, ValidateCreate
  <2> QED BY <2>1, <2>2
\* Writes of an object that is there.
<1>2. ASSUME stored # Nil, NEW spec \in CompleteSpecs(stored.kind), NEW f \in BOOLEAN,
             ValidateUpdate(stored.kind, stored.name, stored.spec, spec),
             stored' = [stored EXCEPT !.spec = spec, !.finalizer = f]
      PROVE  /\ stored' \in Object(stored.kind) /\ stored'.kind = stored.kind
             /\ ValidateInto(stored.kind, stored'.name, stored'.spec)
  <2>1. stored \in Object(stored.kind)
        BY <1>2, <1>a
  <2>2. /\ stored' \in Object(stored.kind) /\ stored'.kind = stored.kind
        /\ stored'.name = stored.name /\ stored'.spec = spec
        BY <1>2, <2>1
  <2> QED BY <1>2, <2>2 DEF ValidateUpdate
<1>3. ASSUME stored # Nil, NEW raw \in RawSpecs(stored.kind), Update(raw)
      PROVE  /\ stored' \in Object(stored.kind) /\ stored'.kind = stored.kind
             /\ ValidateInto(stored.kind, stored'.name, stored'.spec)
  <2>1. Default(stored.kind, raw) \in CompleteSpecs(stored.kind)
        BY <1>a, <1>3, DefaultCompletes
  <2>2. /\ ValidateUpdate(stored.kind, stored.name, stored.spec, Default(stored.kind, raw))
        /\ stored' = [stored EXCEPT !.spec = Default(stored.kind, raw)]
        BY <1>3 DEF Update, Admitted
  <2>3. /\ stored.finalizer \in BOOLEAN
        /\ stored' = [stored EXCEPT !.spec = Default(stored.kind, raw),
                                    !.finalizer = stored.finalizer]
        BY <1>a, <1>3, <2>2
  <2> QED BY <1>2, <1>3, <2>1, <2>2, <2>3
<1>4. ASSUME AddFinalizer
      PROVE  /\ stored # Nil
             /\ stored' \in Object(stored.kind) /\ stored'.kind = stored.kind
             /\ ValidateInto(stored.kind, stored'.name, stored'.spec)
  <2>1. stored # Nil
        BY <1>4 DEF AddFinalizer
  <2>2. Default(stored.kind, stored.spec) \in CompleteSpecs(stored.kind)
        BY <1>a, <2>1
  <2>3. /\ ValidateUpdate(stored.kind, stored.name, stored.spec,
                          Default(stored.kind, stored.spec))
        /\ stored' = [stored EXCEPT !.spec = Default(stored.kind, stored.spec),
                                    !.finalizer = TRUE]
        BY <1>4 DEF AddFinalizer, Admitted
  <2> QED BY <1>2, <2>1, <2>2, <2>3
<1>5. ASSUME Delete
      PROVE  /\ stored # Nil
             /\ stored' \in Object(stored.kind) /\ stored'.kind = stored.kind
             /\ stored'.name = stored.name /\ stored'.spec = stored.spec
  <2>1. stored # Nil /\ stored' = [stored EXCEPT !.deleting = TRUE]
        BY <1>5 DEF Delete
  <2> QED BY <1>a, <2>1
<1>6. ASSUME RemoveFinalizer PROVE FALSE
      BY <1>6 DEF RemoveFinalizer
<1>7. ASSUME Stamp \/ UNCHANGED vars PROVE stored' = stored
      BY <1>7 DEF Stamp, vars
<1> QED BY <1>a, <1>1, <1>3, <1>4, <1>5, <1>6, <1>7 DEF Next

LEMMA AdmissibleStep == Admissible /\ [Next]_vars => Admissible'
<1> SUFFICES ASSUME Admissible, [Next]_vars, stored' # Nil PROVE Admissible'
    BY DEF Admissible, TypeOK, ReadmitsUnchanged
<1>1. CASE stored' = stored
      BY <1>1 DEF Admissible, TypeOK, ReadmitsUnchanged, Admitted
<1>2. CASE /\ stored' \in [kind : {stored'.kind}, name : TenantNames,
                           spec : CompleteSpecs(stored'.kind),
                           finalizer : BOOLEAN, deleting : BOOLEAN]
           /\ stored'.kind \in Kinds
           /\ ValidateInto(stored'.kind, stored'.name, stored'.spec)
  <2>1. TypeOK'
        BY <1>2 DEF TypeOK
  <2>2. stored'.spec \in CompleteSpecs(stored'.kind)
        BY <1>2
  <2>3. Default(stored'.kind, stored'.spec) = stored'.spec
        BY <1>2, <2>2, DefaultKeepsComplete
  <2>4. ReadmitsUnchanged'
        BY <1>2, <2>3 DEF ReadmitsUnchanged, Admitted, ValidateUpdate
  <2> QED BY <2>1, <2>4 DEF Admissible
<1> QED BY <1>1, <1>2, StoredEffects

LEMMA AdmissibleAlways == Spec => []Admissible
<1>1. Init => Admissible
      BY DEF Init, Admissible, TypeOK, ReadmitsUnchanged
<1> QED BY <1>1, AdmissibleStep, PTL DEF Spec

\* A stored object has every default filled in, whatever was sent.
THEOREM TypeCorrect == Spec => []TypeOK
<1>1. Admissible => TypeOK
      BY DEF Admissible
<1> QED BY <1>1, AdmissibleAlways, PTL

\* Every stored object passes defaulting and validation again as it is, so no
\* update of a controller is refused, the one that removes a finalizer included.
THEOREM ReadmitsUnchangedHolds == Spec => []ReadmitsUnchanged
<1>1. Admissible => ReadmitsUnchanged
      BY DEF Admissible
<1> QED BY <1>1, AdmissibleAlways, PTL

\* What the reconcilers take for granted of a stored spec follows from what the
\* webhooks check, for names and prefixes of any length.
THEOREM StoredIsServableHolds == Spec => []StoredIsServable
<1>1. Admissible => StoredIsServable
  <2> SUFFICES ASSUME Admissible, stored # Nil PROVE StoredIsServable
      BY DEF StoredIsServable
  <2>1. /\ stored.kind \in Kinds /\ stored.spec \in CompleteSpecs(stored.kind)
        /\ ValidateInto(stored.kind, stored.name, stored.spec)
        BY DEF Admissible, TypeOK, ReadmitsUnchanged, Admitted, ValidateUpdate
  <2>2. CASE stored.kind = "Tenant"
    <3>1. stored.spec \in CompleteSpecs("Tenant") /\ ValidTenant(stored.name, stored.spec)
          BY <2>1, <2>2 DEF ValidateInto
    <3>2. Or(stored.spec.prefix, defaultPrefix) = stored.spec.prefix
          BY <3>1 DEF CompleteSpecs, Or
    <3> QED BY <2>2, <3>1, <3>2 DEF StoredIsServable, ValidTenant, maxNamespaceNameLength
  <2>3. CASE stored.kind = "Environment"
    <3>1. ValidEnvironment(stored.spec)
          BY <2>1, <2>3 DEF ValidateInto
    <3> QED BY <2>3, <3>1 DEF StoredIsServable, ValidEnvironment
  <2>4. CASE stored.kind = "Integration"
    <3>1. stored.spec \in CompleteSpecs("Integration") /\ ValidIntegration(stored.spec)
          BY <2>1, <2>4 DEF ValidateInto
    <3>2. stored.spec.retryPolicy.backoff \in {"fixed", "exponential"}
          BY <3>1 DEF CompleteSpecs, RetryPolicies
    <3>3. IsHTTPType(stored.spec.type) => stored.spec.endpoint = "url"
          BY <3>1 DEF ValidIntegration, IsHTTPType, isHTTPType
    <3> QED BY <2>4, <3>2, <3>3 DEF StoredIsServable
  <2> QED BY <2>1, <2>2, <2>3, <2>4 DEF Kinds
<1> QED BY <1>1, AdmissibleAlways, PTL

-----------------------------------------------------------------------------
\* Labels.

\* The owner and the component win over every extra label, the base labels only
\* over what is not among the extra ones.
LEMMA TenantLabelsWin ==
    ASSUME NEW name, NEW component, NEW extra, NEW old
    PROVE  LET new == MergeLabels(old, TenantLabels(name, component, extra))
           IN  /\ new.tenant = name /\ new.component = component
               /\ \A k \in DOMAIN BaseLabels \ DOMAIN extra : new[k] = BaseLabels[k]
<1> DEFINE own  == [tenant |-> name, component |-> component]
           all  == MergeLabels(BaseLabels, extra)
           mine == MergeLabels(all, own)
           new  == MergeLabels(old, mine)
<1>1. /\ DOMAIN own = {"tenant", "component"}
      /\ own["tenant"] = name /\ own["component"] = component
      OBVIOUS
<1>2. DOMAIN BaseLabels = {"managedBy", "partOf"}
      BY DEF BaseLabels
<1>3. /\ DOMAIN all = DOMAIN BaseLabels \cup DOMAIN extra
      /\ \A k \in DOMAIN BaseLabels \ DOMAIN extra : all[k] = BaseLabels[k]
      BY DEF MergeLabels
<1> HIDE DEF own, all
<1>4. /\ DOMAIN mine = DOMAIN all \cup DOMAIN own
      /\ \A k \in DOMAIN own : mine[k] = own[k]
      /\ \A k \in DOMAIN all \ DOMAIN own : mine[k] = all[k]
      BY DEF MergeLabels
<1> HIDE DEF mine
<1>5. \A k \in DOMAIN mine : new[k] = mine[k]
      BY DEF MergeLabels
<1>6. new = MergeLabels(old, TenantLabels(name, component, extra))
      BY DEF new, mine, all, own, TenantLabels
<1> HIDE DEF new
<1>7. new["tenant"] = name /\ new["component"] = component
      BY <1>1, <1>4, <1>5
<1>8. \A k \in DOMAIN BaseLabels \ DOMAIN extra : new[k] = BaseLabels[k]
      BY <1>1, <1>2, <1>3, <1>4, <1>5
<1> QED BY <1>6, <1>7, <1>8

\* The labels of a Tenant's namespace always name the Tenant, and a base label
\* no extra label overrides is brought back by the next pass (MergeLabels).
THEOREM OwnerLabelsAlwaysWin == Spec => OwnerLabelsWin
<1>1. [Next]_vars =>
        [labels' # labels /\ stored' # Nil
         => \/ labels' = NoLabels
            \/ /\ labels'.tenant = stored.name /\ labels'.component = "namespace"
               /\ \A k \in DOMAIN BaseLabels \ DOMAIN stored.spec.extraLabels :
                    labels'[k] = BaseLabels[k]]_vars
  <2> SUFFICES ASSUME [Next]_vars, labels' # labels, labels' # NoLabels
               PROVE  /\ labels'.tenant = stored.name /\ labels'.component = "namespace"
                      /\ \A k \in DOMAIN BaseLabels \ DOMAIN stored.spec.extraLabels :
                            labels'[k] = BaseLabels[k]
      OBVIOUS
  <2>1. Stamp
        BY DEF Next, vars, Create, Update, AddFinalizer, Delete, RemoveFinalizer
  <2>2. labels' = MergeLabels(labels, TenantLabels(stored.name, "namespace",
                                                   stored.spec.extraLabels))
        BY <2>1 DEF Stamp
  <2> QED BY <2>2, TenantLabelsWin
<1> QED BY <1>1, PTL DEF Spec, OwnerLabelsWin

-----------------------------------------------------------------------------
\* The delay.

\* What is shifted does not wrap when the largest product does not.
LEMMA ProductInRange ==
    ASSUME NEW policy, PolicyTypeOK(policy), WithinRange(policy),
           NEW s \in Nat, s <= ShiftCap
    PROVE  LET lo == InitialDelay(policy)
               p  == lo * 2^s
           IN  /\ p \in Nat /\ lo <= p
               /\ Signed(p, DurationWidth) = p
<1> DEFINE lo == InitialDelay(policy)
<1>1. lo \in Nat \ {0}
  <2>1. lo \in Int
        BY DEF PolicyTypeOK, InitialDelay, defaultInitialBackoff
  <2>2. lo > 0
        BY DEF WithinRange
  <2> QED BY <2>1, <2>2
<1>2. lo * 2^ShiftCap < 2^(DurationWidth - 1)
      BY DEF WithinRange
<1> HIDE DEF lo
<1>3. PICK q \in Nat \ {0} : q = 2^s
      BY PowerPositive
<1>4. PICK Q \in Nat \ {0} : Q = 2^ShiftCap
      BY PowerPositive, WidthAssumption
<1>5. q <= Q
      BY <1>3, <1>4, PowerMonotone, WidthAssumption
<1>6. PICK h \in Nat \ {0} : h = 2^(DurationWidth - 1)
      BY WordHalves, WidthAssumption
<1>7. lo * q \in Nat /\ lo <= lo * q /\ lo * q <= lo * Q
      BY <1>1, <1>5
<1>8. lo * q \in (-h)..(h - 1)
      BY <1>1, <1>2, <1>4, <1>6, <1>7
<1>9. Signed(lo * q, DurationWidth) = lo * q
      BY <1>6, <1>7, <1>8, SignedRange, WidthAssumption
<1> QED BY <1>3, <1>7, <1>9 DEF lo

\* computeBackoff is exponential and capped, whatever the counter holds.
LEMMA BackoffIsExponential ==
    ASSUME NEW policy, PolicyTypeOK(policy), WithinRange(policy),
           NEW n \in Word(CounterWidth)
    PROVE  LET lo == InitialDelay(policy)
               hi == MaxDelay(policy)
               d  == ComputeBackoff(policy, n)
           IN  /\ Smaller(lo, hi) <= d /\ d <= hi
               /\ n \in 1..(ShiftCap + 1) => d = Smaller(lo * 2^(n - 1), hi)
<1> DEFINE lo == InitialDelay(policy)
           hi == MaxDelay(policy)
           s  == Shift(n)
           d  == Signed(lo * ShiftedOne(s), DurationWidth)
<1>1. lo \in Nat \ {0} /\ hi \in Nat \ {0} /\ ~Fixed(policy)
  <2>1. lo \in Int /\ hi \in Int
        BY DEF PolicyTypeOK, InitialDelay, MaxDelay, defaultInitialBackoff, defaultMaxBackoff
  <2>2. lo > 0 /\ hi > 0 /\ ~Fixed(policy)
        BY DEF WithinRange
  <2> QED BY <2>1, <2>2
<1>2. ComputeBackoff(policy, n) = IF d <= 0 \/ d > hi THEN hi ELSE d
      BY <1>1 DEF ComputeBackoff
<1>3. n \in Int /\ s \in Int /\ s <= ShiftCap
  <2>1. n \in Int
        BY WordIsRange, WordHalves, WidthAssumption
  <2> QED BY <2>1, ShiftType
<1>4. CASE s < 0
  <2>1. lo * ShiftedOne(s) = 0
        BY <1>1, <1>4 DEF ShiftedOne
  <2>2. d = 0
    <3>1. PICK h \in Nat \ {0} : h = 2^(DurationWidth - 1)
          BY WordHalves, WidthAssumption
    <3> QED BY <2>1, <3>1, SignedRange, WidthAssumption
  <2>3. n \notin 1..(ShiftCap + 1)
    <3> SUFFICES ASSUME n \in 1..(ShiftCap + 1) PROVE FALSE
        OBVIOUS
    <3>1. PICK h \in Nat \ {0} : h = 2^(CounterWidth - 1) /\ n \in (-h)..(h - 1)
          BY WordHalves, WordIsRange, WidthAssumption
    <3>2. Signed(n - 1, CounterWidth) = n - 1
          BY <1>3, <3>1, SignedRange, WidthAssumption
    <3> QED BY <1>3, <1>4, <3>2, WidthAssumption DEF Shift
  <2> HIDE DEF lo, hi, d
  <2>4. ComputeBackoff(policy, n) = hi
        BY <1>2, <2>2
  <2>5. Smaller(lo, hi) <= hi
        BY <1>1 DEF Smaller
  <2> QED BY <1>1, <2>3, <2>4, <2>5 DEF lo, hi
<1>5. CASE s >= 0
  <2>1. s \in Nat /\ ShiftedOne(s) = 2^s
        BY <1>3, <1>5 DEF ShiftedOne
  <2> DEFINE p == lo * 2^s
  <2>2. p \in Nat /\ lo <= p /\ d = p
        BY <1>3, <2>1, ProductInRange
  <2>3. n \in 1..(ShiftCap + 1) => s = n - 1
    <3> SUFFICES ASSUME n \in 1..(ShiftCap + 1) PROVE s = n - 1
        OBVIOUS
    <3>1. PICK h \in Nat \ {0} : h = 2^(CounterWidth - 1) /\ n \in (-h)..(h - 1)
          BY WordHalves, WordIsRange, WidthAssumption
    <3>2. Signed(n - 1, CounterWidth) = n - 1
          BY <1>3, <3>1, SignedRange, WidthAssumption
    <3> QED BY <1>3, <3>2, WidthAssumption DEF Shift
  <2>4. n \in 1..(ShiftCap + 1) => p = lo * 2^(n - 1)
        BY <2>3
  <2> HIDE DEF lo, hi, d, p
  <2>5. ComputeBackoff(policy, n) = Smaller(p, hi)
        BY <1>1, <1>2, <2>2 DEF Smaller
  <2>6. Smaller(lo, hi) <= Smaller(p, hi) /\ Smaller(p, hi) <= hi
        BY <1>1, <2>2 DEF Smaller
  <2> QED BY <2>4, <2>5, <2>6 DEF lo, hi
<1> QED BY <1>3, <1>4, <1>5

\* Under every stored policy whose product cannot wrap, the delay is
\* initial * 2^(attempt-1) capped at max as far as the shift goes, and between
\* the smaller of the two and max for every value of the counter, wrapped
\* negative ones included, for words of any width (computeBackoff).
THEOREM DelayIsExponentialHolds == Spec => []DelayIsExponential
<1>1. Admissible => DelayIsExponential
  <2> SUFFICES ASSUME Admissible, stored # Nil, stored.kind = "Integration",
                      WithinRange(stored.spec.retryPolicy), NEW n \in Word(CounterWidth)
               PROVE  LET policy == stored.spec.retryPolicy
                          lo == InitialDelay(policy)
                          hi == MaxDelay(policy)
                          d  == ComputeBackoff(policy, n)
                      IN  /\ Smaller(lo, hi) <= d /\ d <= hi
                          /\ n \in 1..(ShiftCap + 1) => d = Smaller(lo * 2^(n - 1), hi)
      BY DEF DelayIsExponential
  <2>1. stored.spec \in CompleteSpecs("Integration")
        BY DEF Admissible, TypeOK
  <2>2. PolicyTypeOK(stored.spec.retryPolicy)
        BY <2>1 DEF CompleteSpecs, RetryPolicies, PolicyTypeOK
  <2> QED BY <2>2, BackoffIsExponential
<1> QED BY <1>1, AdmissibleAlways, PTL
=============================================================================
