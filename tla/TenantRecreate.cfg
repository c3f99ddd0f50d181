SPECIFICATION Spec
CONSTANTS
    Nil = Nil
    Tenants <- OneTenant
    Specs <- StaffedSpecs
    MaxUid = 2
    MaxGen = 1
    MaxInventory = 1
    MaxUpsets = 1
INVARIANTS
    IndInv
    FinalizerGuard
    ProvisionsOnlyExisting
PROPERTIES
    ImplementsLifecycle
    TeardownSparesLiveTenants
    EventuallyConverged
CHECK_DEADLOCK FALSE
