SPECIFICATION Spec
CONSTANTS
    Nil = Nil
    Environments <- OneEnvironment
    Tenants <- OneTenant
    TenantNamespaces <- OneTenantName
    Secrets <- OneSecret
    Specs <- SettlingSpecs
    MaxUid = 1
    MaxGen = 1
    MaxTime = 1
    MaxUpsets = 1
PROPERTY
    EventuallySettled
CHECK_DEADLOCK FALSE
