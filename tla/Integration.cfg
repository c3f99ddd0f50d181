SPECIFICATION Spec
CONSTANTS
    Nil = Nil
    CounterWidth = 3
    DurationWidth = 10
    ShiftCap = 1
    Integrations <- OneIntegration
    Specs <- AllSpecs
    Tenants <- OneTenant
    Endpoints <- OneEndpoint
    AuthSecrets <- OneSecret
    Credentials <- OneCredential
    MaxUid = 2
    MaxGen = 2
    MaxUpsets = 1
INVARIANTS
    TypeOK
    WorksOnExisting
    CredentialsGoFirst
    ReadyStatusIsCoherent
    NoLeakedSeries
    NoLostWakeup
    ConnectionInPlace
    IndInv
PROPERTIES
    EveryFailureCounted
    EventuallySettled
CHECK_DEADLOCK FALSE
