SPECIFICATION Spec
CONSTANTS
    Nil = Nil
    CounterWidth = 6
    DurationWidth = 12
    ShiftCap = 4
    TenantNames <- Names
    Prefixes <- UserPrefixes
    Length <- Lengths
    ExtraLabels <- Extras
    Admins <- SomeAdmins
    Policies <- SomePolicies
INVARIANTS
    TypeOK
    ReadmitsUnchanged
    StoredIsServable
    DelayIsExponential
PROPERTIES
    OwnerLabelsWin
