SPECIFICATION Spec
CONSTANTS
    Nil = Nil
    Tenants <- OneTenant
    Specs <- OrphanSpecs
    MaxUid = 1
    MaxGen = 1
    MaxInventory = 0
    MaxUpsets = 0
INVARIANT
    OrphanKeepsNamespace
CHECK_DEADLOCK FALSE
