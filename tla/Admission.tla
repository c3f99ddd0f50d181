------------------------------ MODULE Admission ------------------------------
(***************************************************************************)
(* The admission webhooks (internal/webhook/v1alpha1) and what rests on    *)
(* them.  Every create and update of a Tenant, Environment or Integration  *)
(* is defaulted and then validated, the controllers' own updates of the    *)
(* finalizer included; the reconcilers rely on what gets through.  Objects *)
(* do not meet in admission, so the state holds one, of any kind.          *)
(*                                                                         *)
(* A spec has the fields the webhooks look at, with "" for an empty string *)
(* and Nil for a nil pointer; TenantRef.Name is tenant.  Lengths of names  *)
(* are given by Length, and an endpoint is what url.Parse makes of it:     *)
(* "" is blank, "url" an http(s) URL with a host, "dsn" anything else.     *)
(* The schema checks and defaults of the CRDs are not applied: what        *)
(* reaches the webhooks here is any spec.                                  *)
(***************************************************************************)
EXTENDS Naturals, Labels, Connector, Backoff

CONSTANTS
    TenantNames,      \* names of Tenants
    Prefixes,         \* namespace prefixes users write, "" not among them
    Length,           \* the length of each of these names and prefixes
    ExtraLabels,      \* label maps users put on a Tenant
    Admins,           \* sets of [kind, namespace] subjects
    Policies          \* retry policies users write, Nil for none

Kinds == {"Tenant", "Environment", "Integration"}

RetryPolicies(strategies) ==
    [maxRetries : Int, backoff : strategies,
     initialDelay : Int \cup {Nil}, maxDelay : Int \cup {Nil}]

GitSources(revisions, paths) ==
    [repoURL : {"", "git"}, revision : revisions, path : paths]

\* The enum of BackoffStrategy is the one check of the schemas relied on.
ASSUME PoliciesAssumption ==
    Policies \subseteq RetryPolicies({"", "fixed", "exponential"}) \cup {Nil}

ASSUME NilAssumption ==
    Nil \notin RetryPolicies({"", "fixed", "exponential"}) /\ Nil # "custom"

\* The specs users may send, before any default.
TenantSpecs ==
    [prefix : Prefixes \cup {""}, tier : {"", "enterprise"}, isolation : {"", "Strict"},
     deletionPolicy : {"", "Orphan"}, admins : Admins, extraLabels : ExtraLabels]

EnvironmentSpecs ==
    [tenant : {"", "acme"}, type : {"ephemeral", "production"}, profile : {"", "small"},
     provider : {"", "none", "flux"}, ttl : {Nil, 1},
     source : {Nil} \cup GitSources({"", "v1"}, {""})]

IntegrationSpecs ==
    [tenant : {"", "acme"}, type : IntegrationTypes, endpoint : {"", "url", "dsn"},
     retryPolicy : Policies, healthCheck : {Nil, "custom"}]

RawSpecs(kind) ==
    CASE kind = "Tenant"      -> TenantSpecs
      [] kind = "Environment" -> EnvironmentSpecs
      [] kind = "Integration" -> IntegrationSpecs

-----------------------------------------------------------------------------
\* Default: fields left empty.

Or(value, default) == IF value = "" THEN default ELSE value

defaultPrefix == "tenant"

DefaultTenant(spec) ==
    [spec EXCEPT !.prefix = Or(@, defaultPrefix), !.tier = Or(@, "standard"),
                 !.isolation = Or(@, "Baseline"), !.deletionPolicy = Or(@, "Delete")]

DefaultSource(source) ==
    IF source = Nil THEN Nil
    ELSE [source EXCEPT !.revision = Or(@, "HEAD"), !.path = Or(@, ".")]

DefaultEnvironment(spec) ==
    [spec EXCEPT !.profile = Or(@, "medium"), !.provider = Or(@, "none"),
                 !.source = DefaultSource(@)]

defaultRetryPolicy ==
    [maxRetries |-> defaultMaxRetries, backoff |-> "exponential",
     initialDelay |-> Nil, maxDelay |-> Nil]

\* Mutant: only a policy that is absent is given defaults.
KeepsEmptyStrategy(policy) == IF policy = Nil THEN defaultRetryPolicy ELSE policy

DefaultPolicy(policy) ==
    IF policy = Nil THEN defaultRetryPolicy
    ELSE [policy EXCEPT !.backoff = Or(@, "exponential")]

DefaultIntegration(spec) ==
    [spec EXCEPT !.retryPolicy = DefaultPolicy(@),
                 !.healthCheck = IF @ = Nil THEN "default" ELSE @]

Default(kind, spec) ==
    CASE kind = "Tenant"      -> DefaultTenant(spec)
      [] kind = "Environment" -> DefaultEnvironment(spec)
      [] kind = "Integration" -> DefaultIntegration(spec)

-----------------------------------------------------------------------------
\* validateInto.

maxNamespaceNameLength == 63

\* len(prefix + "-" + name)
NamespaceLength(prefix, name) == Length[prefix] + 1 + Length[name]

ValidTenant(name, spec) ==
    /\ NamespaceLength(Or(spec.prefix, defaultPrefix), name) <= maxNamespaceNameLength
    /\ \A a \in spec.admins : a.kind = "ServiceAccount" => a.namespace # ""

ValidEnvironment(spec) ==
    /\ spec.tenant # ""
    /\ spec.type = "ephemeral" => spec.ttl # Nil
    /\ spec.provider # "none" => spec.source # Nil /\ spec.source.repoURL # ""

\* Mutant: the copy has fallen behind.
OutdatedCopy(type) == type \in {"webhook", "restapi", "oauth2"}

\* isHTTPType, the webhook package's own copy of platform.IsHTTPType.
isHTTPType(type) == type \in {"webhook", "restapi", "oauth2", "objectstore"}

\* An empty endpoint ends the checks.
ValidIntegration(spec) ==
    /\ spec.tenant # ""
    /\ spec.endpoint # ""
    /\ isHTTPType(spec.type) => spec.endpoint = "url"

ValidateInto(kind, name, spec) ==
    CASE kind = "Tenant"      -> ValidTenant(name, spec)
      [] kind = "Environment" -> ValidEnvironment(spec)
      [] kind = "Integration" -> ValidIntegration(spec)

\* Mutant: ValidateCreate returns before it validates.
AcceptsAll(kind, name, spec) == TRUE

ValidateCreate(kind, name, spec) == ValidateInto(kind, name, spec)

\* What ValidateUpdate does not let change.
Identity(kind, spec) ==
    IF kind = "Tenant" THEN <<spec.prefix>> ELSE <<spec.tenant, spec.type>>

ValidateUpdate(kind, name, old, new) ==
    /\ Identity(kind, old) = Identity(kind, new)
    /\ ValidateInto(kind, name, new)

-----------------------------------------------------------------------------
VARIABLES
    stored,   \* the object in the API server, Nil if none
    labels    \* the labels of the namespace of a Tenant

vars == <<stored, labels>>

NoLabels == [k \in {} |-> ""]

Init == stored = Nil /\ labels = NoLabels

Create(kind, name, raw) ==
    LET spec == Default(kind, raw)
    IN  /\ stored = Nil
        /\ ValidateCreate(kind, name, spec)
        /\ stored' = [kind |-> kind, name |-> name, spec |-> spec,
                      finalizer |-> FALSE, deleting |-> FALSE]
        /\ labels' = NoLabels

\* An update, as the API server stores it if both webhooks let it through.
Admitted(raw) ==
    ValidateUpdate(stored.kind, stored.name, stored.spec, Default(stored.kind, raw))

Update(raw) ==
    /\ stored # Nil
    /\ Admitted(raw)
    /\ stored' = [stored EXCEPT !.spec = Default(stored.kind, raw)]
    /\ UNCHANGED labels

\* The controllers update the object they read: its spec is admitted again.
AddFinalizer ==
    /\ stored # Nil
    /\ ~stored.deleting /\ ~stored.finalizer
    /\ Admitted(stored.spec)
    /\ stored' = [stored EXCEPT !.spec = Default(stored.kind, stored.spec),
                                !.finalizer = TRUE]
    /\ UNCHANGED labels

\* ValidateDelete lets every deletion through.
Delete ==
    /\ stored # Nil
    /\ ~stored.deleting
    /\ stored' = IF stored.finalizer THEN [stored EXCEPT !.deleting = TRUE] ELSE Nil
    /\ UNCHANGED labels

RemoveFinalizer ==
    /\ stored # Nil
    /\ stored.deleting
    /\ Admitted(stored.spec)
    /\ stored' = Nil
    /\ UNCHANGED labels

\* A pass of the Tenant reconciler labels the namespace, with what is there.
Stamp ==
    /\ stored # Nil
    /\ stored.kind = "Tenant" /\ stored.finalizer /\ ~stored.deleting
    /\ labels' = MergeLabels(labels, TenantLabels(stored.name, "namespace",
                                                  stored.spec.extraLabels))
    /\ UNCHANGED stored

Next ==
    \/ \E kind \in Kinds, name \in TenantNames : \E raw \in RawSpecs(kind) :
        Create(kind, name, raw)
    \/ stored # Nil /\ \E raw \in RawSpecs(stored.kind) : Update(raw)
    \/ AddFinalizer
    \/ Delete
    \/ RemoveFinalizer
    \/ Stamp

Spec == Init /\ [][Next]_vars

-----------------------------------------------------------------------------
\* Properties.

\* Specs with nothing left to default.
CompleteSpecs(kind) ==
    CASE kind = "Tenant" ->
            [prefix : (Prefixes \cup {defaultPrefix}) \ {""},
             tier : {"standard", "enterprise"}, isolation : {"Baseline", "Strict"},
             deletionPolicy : {"Delete", "Orphan"}, admins : Admins,
             extraLabels : ExtraLabels]
      [] kind = "Environment" ->
            [tenant : {"", "acme"}, type : {"ephemeral", "production"},
             profile : {"medium", "small"}, provider : {"none", "flux"}, ttl : {Nil, 1},
             source : {Nil} \cup GitSources({"HEAD", "v1"}, {"."})]
      [] kind = "Integration" ->
            [tenant : {"", "acme"}, type : IntegrationTypes, endpoint : {"", "url", "dsn"},
             retryPolicy : RetryPolicies({"fixed", "exponential"}),
             healthCheck : {"default", "custom"}]

\* A stored object has a kind, and a spec of that kind with every default filled
\* in, also inside the optional structures: GitOps source and retry policy.
TypeOK ==
    stored # Nil =>
        /\ stored.kind \in Kinds
        /\ stored \in [kind : {stored.kind}, name : TenantNames,
                       spec : CompleteSpecs(stored.kind),
                       finalizer : BOOLEAN, deleting : BOOLEAN]

\* Every stored object passes admission again as it is.  "Deletion is always
\* allowed", but removing the finalizer is an update that the webhooks validate:
\* it is never refused, and no update of a controller changes the spec.
ReadmitsUnchanged ==
    stored # Nil => /\ Default(stored.kind, stored.spec) = stored.spec
                    /\ Admitted(stored.spec)

\* What the reconcilers take for granted about a stored spec: the derived
\* namespace name of a Tenant has the length of a label at most (its characters
\* are not looked at, nor is the name of a workload namespace), an ephemeral
\* Environment has a lifetime, a GitOps engine has a repository, what is probed
\* over HTTP is a URL, and there is a retry policy with a strategy.
StoredIsServable ==
    stored # Nil =>
        CASE stored.kind = "Tenant" ->
                NamespaceLength(stored.spec.prefix, stored.name) <= 63
          [] stored.kind = "Environment" ->
                /\ stored.spec.type = "ephemeral" => stored.spec.ttl # Nil
                /\ stored.spec.provider \in {"argocd", "flux"} =>
                        stored.spec.source # Nil /\ stored.spec.source.repoURL # ""
          [] stored.kind = "Integration" ->
                /\ IsHTTPType(stored.spec.type) => stored.spec.endpoint = "url"
                /\ stored.spec.retryPolicy.backoff \in {"fixed", "exponential"}

\* The policy asks for growing delays, and its product cannot wrap.
WithinRange(policy) ==
    /\ ~Fixed(policy)
    /\ InitialDelay(policy) > 0 /\ MaxDelay(policy) > 0
    /\ InitialDelay(policy) * 2^ShiftCap < 2^(DurationWidth - 1)

Smaller(m, n) == IF m < n THEN m ELSE n

\* "Exponential: initial * 2^(attempt-1), capped at max": under a stored policy
\* the delay is that as far as the shift goes; and whatever the counter holds, a
\* wrapped negative value included, it is at least the smaller of initial and
\* max, and at most max.
DelayIsExponential ==
    stored # Nil /\ stored.kind = "Integration" /\ WithinRange(stored.spec.retryPolicy)
    => LET policy == stored.spec.retryPolicy
           lo     == InitialDelay(policy)
           hi     == MaxDelay(policy)
       IN  \A n \in Word(CounterWidth) :
               LET d == ComputeBackoff(policy, n)
               IN  /\ Smaller(lo, hi) <= d /\ d <= hi
                   /\ n \in 1..(ShiftCap + 1) => d = Smaller(lo * 2^(n - 1), hi)

\* However the extra labels of a Tenant change between passes, the labels of its
\* namespace always name this Tenant, and say who manages it unless the extra
\* labels of a pass since said otherwise last: a pass without such an extra
\* label brings the base label back.
OwnerLabelsWin ==
    [][labels' # labels /\ stored' # Nil
       => \/ labels' = NoLabels
          \/ /\ labels'.tenant = stored.name /\ labels'.component = "namespace"
             /\ \A k \in DOMAIN BaseLabels \ DOMAIN stored.spec.extraLabels :
                    labels'[k] = BaseLabels[k]]_vars
==============================================================================
