-------------------------- MODULE TenantRefinement --------------------------
(***************************************************************************)
(* The Tenant reconciler implements TenantLifecycle: the mapping from what *)
(* the API server holds to the abstract state, and the claim.              *)
(***************************************************************************)
EXTENDS Tenant

StageOf(tenant) ==
    CASE tenant = Nil                                           -> "absent"
      [] tenant # Nil /\ tenant.deleting                        -> "deleting"
      [] tenant # Nil /\ ~tenant.deleting /\ tenant.finalizer   -> "managed"
      [] OTHER                                                  -> "new"

LifeOf(tenant) ==
    [uid       |-> IF tenant = Nil THEN 0 ELSE tenant.uid,
     stage     |-> StageOf(tenant),
     published |-> IF tenant = Nil THEN Nil ELSE tenant.status.namespace]

PlaceOf(namespace) ==
    [state |-> CASE namespace = Nil -> "absent"
                 [] namespace # Nil /\ namespace.terminating -> "terminating"
                 [] OTHER -> "active",
     owner |-> IF namespace = Nil THEN Nil ELSE namespace.owner]

Lifecycle ==
    INSTANCE TenantLifecycle WITH
        MayClaim <- LAMBDA t, n : \E s \in Specs : n = NamespaceName(t, s),
        life     <- [t \in Tenants |-> LifeOf(tenants[t])],
        place    <- [n \in Namespaces |-> PlaceOf(namespaces[n])],
        created  <- uids,
        meddled  <- upsets

\* Every behaviour of the reconciler, its caches however stale, its worker
\* failing or restarting anywhere, and its Tenants deleted and recreated at any
\* moment, is one of the lifecycle: nothing is provisioned for a Tenant that is
\* gone or unguarded, the published namespace never changes, and only others
\* take the namespace of a live Tenant away.
ImplementsLifecycle == Lifecycle!Spec
=============================================================================
