SPECIFICATION Spec
CONSTANTS
    Nil = Nil
    Environments <- OneEnvironment
    Tenants <- OneTenant
    TenantNamespaces <- OneTenantName
    Secrets <- NoSecret
    Specs <- PreviewSpecs
    MaxUid = 2
    MaxGen = 1
    MaxTime = 1
    MaxUpsets = 0
INVARIANTS
    WorksOnExisting
    NoOrphanedEngines
    EngineStoppedFirst
CHECK_DEADLOCK FALSE
