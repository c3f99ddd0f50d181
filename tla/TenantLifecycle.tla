--------------------------- MODULE TenantLifecycle ---------------------------
(***************************************************************************)
(* What the Tenant reconciler promises about Tenants and the namespaces it *)
(* keeps for them, with neither caches, queue, worker nor managed objects: *)
(* a namespace is provisioned only for a Tenant that exists and is guarded *)
(* by its finalizer, its name is published once, and, others' doing aside, *)
(* it is evicted only when no live Tenant controls it.                     *)
(***************************************************************************)
EXTENDS Naturals

CONSTANTS
    Tenants,        \* names of Tenants
    Namespaces,     \* names of namespaces
    MayClaim(_, _), \* whether a Tenant of this name may claim a namespace
    Nil             \* no namespace, no owner

VARIABLES
    life,     \* of each Tenant: its uid, stage and published namespace
    place,    \* of each namespace: its state and the Tenant that controls it
    created,  \* Tenants created so far
    meddled   \* how often somebody else has interfered

vars == <<life, place, created, meddled>>

Stages == {"absent", "new", "managed", "deleting"}
States == {"absent", "active", "terminating"}

NoTenant == [uid |-> 0, stage |-> "absent", published |-> Nil]
NoPlace  == [state |-> "absent", owner |-> Nil]

Init ==
    /\ life = [t \in Tenants |-> NoTenant]
    /\ place = [n \in Namespaces |-> NoPlace]
    /\ created = 0 /\ meddled = 0

Create(t) ==
    /\ life[t].stage = "absent"
    /\ created' = created + 1
    /\ life' = [life EXCEPT ![t] =
                    [uid |-> created + 1, stage |-> "new", published |-> Nil]]
    /\ UNCHANGED <<place, meddled>>

\* The finalizer is stored.
Guard(t) ==
    /\ life[t].stage = "new"
    /\ life' = [life EXCEPT ![t].stage = "managed"]
    /\ UNCHANGED <<place, created, meddled>>

\* The status names the namespace; it never names another one.
Publish(t, n) ==
    /\ life[t].stage = "managed"
    /\ life[t].published = Nil
    /\ MayClaim(t, n)
    /\ life' = [life EXCEPT ![t].published = n]
    /\ UNCHANGED <<place, created, meddled>>

Delete(t) ==
    /\ life[t].stage \in {"new", "managed"}
    /\ life' = [life EXCEPT ![t] = IF life[t].stage = "new" THEN NoTenant
                                   ELSE [life[t] EXCEPT !.stage = "deleting"]]
    /\ UNCHANGED <<place, created, meddled>>

\* The finalizer is removed.
Release(t) ==
    /\ life[t].stage = "deleting"
    /\ life' = [life EXCEPT ![t] = NoTenant]
    /\ UNCHANGED <<place, created, meddled>>

\* A namespace is created for a Tenant, or one that nobody or a Tenant of this
\* name controls is taken over.
Provision(t, n) ==
    /\ life[t].stage \in {"managed", "deleting"}
    /\ MayClaim(t, n)
    /\ place[n].owner = Nil \/ place[n].owner.name = t
    /\ place' = [place EXCEPT ![n] =
                    [state |-> IF place[n].state = "absent" THEN "active"
                                                            ELSE place[n].state,
                     owner |-> [name |-> t, uid |-> life[t].uid]]]
    /\ UNCHANGED <<life, created, meddled>>

\* The Tenant that controls n exists and is not being deleted.
ControlledByLive(n) ==
    /\ place[n].owner # Nil
    /\ life[place[n].owner.name].stage \in {"new", "managed"}
    /\ life[place[n].owner.name].uid = place[n].owner.uid

Evict(n) ==
    /\ place[n].state = "active"
    /\ ~ControlledByLive(n)
    /\ place' = [place EXCEPT ![n].state = "terminating"]
    /\ UNCHANGED <<life, created, meddled>>

Gone(n) ==
    /\ place[n].state = "terminating"
    /\ place' = [place EXCEPT ![n] = NoPlace]
    /\ UNCHANGED <<life, created, meddled>>

\* Somebody creates or deletes a namespace.
Meddle(n) ==
    /\ meddled' = meddled + 1
    /\ place' = [place EXCEPT ![n].state = IF place[n].state = "absent"
                                           THEN "active" ELSE "terminating"]
    /\ UNCHANGED <<life, created>>

\* Something goes wrong that does not show here: an API call fails, the operator
\* restarts, a managed object or an inventory changes.
Disturb ==
    /\ meddled' = meddled + 1
    /\ UNCHANGED <<life, place, created>>

Next ==
    \/ \E t \in Tenants : Create(t) \/ Guard(t) \/ Delete(t) \/ Release(t)
    \/ \E t \in Tenants, n \in Namespaces : Publish(t, n) \/ Provision(t, n)
    \/ \E n \in Namespaces : Evict(n) \/ Gone(n) \/ Meddle(n)
    \/ Disturb

Spec == Init /\ [][Next]_vars
==============================================================================
