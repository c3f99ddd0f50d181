SPECIFICATION Spec
CONSTANTS
    Nil = Nil
    Environments <- OneEnvironment
    Tenants <- OneTenant
    TenantNamespaces <- OneTenantName
    Secrets <- NoSecret
    Specs <- BareSpecs
    MaxUid = 1
    MaxGen = 1
    MaxTime = 0
    MaxUpsets = 0
INVARIANT
    NoOrphanedWorkloads
CHECK_DEADLOCK FALSE
