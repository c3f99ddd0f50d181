SPECIFICATION Spec
CONSTANTS
    Nil = Nil
    Tenants <- Clashing
    Specs <- ClashSpecs
    MaxUid = 2
    MaxGen = 1
    MaxInventory = 0
    MaxUpsets = 0
PROPERTY
    TeardownSparesLiveTenants
CHECK_DEADLOCK FALSE
