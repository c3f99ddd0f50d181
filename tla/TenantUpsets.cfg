SPECIFICATION Spec
CONSTANTS
    Nil = Nil
    Tenants <- OneTenant
    Specs <- EditSpecs
    MaxUid = 1
    MaxGen = 2
    MaxInventory = 1
    MaxUpsets = 1
INVARIANTS
    TypeOK
    WakeInv
    ReadyStatusIsCoherent
    NoLeakedSeries
    NoLostWakeup
CHECK_DEADLOCK FALSE
