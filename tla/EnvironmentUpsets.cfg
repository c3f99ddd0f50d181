SPECIFICATION Spec
CONSTANTS
    Nil = Nil
    Environments <- OneEnvironment
    Tenants <- OneTenant
    TenantNamespaces <- OneTenantName
    Secrets <- OneSecret
    Specs <- PauseSpecs
    MaxUid = 1
    MaxGen = 2
    MaxTime = 0
    MaxUpsets = 1
INVARIANTS
    IndInv
    TypeOK
    ReadyStatusIsCoherent
    NoLeakedSeries
    NoLostWakeup
CHECK_DEADLOCK FALSE
