SPECIFICATION Spec
CONSTANTS
    Nil = Nil
    CounterWidth = 3
    DurationWidth = 10
    ShiftCap = 1
    Integrations <- OneIntegration
    Specs <- SlowSpecs
    Tenants <- OneTenant
    Endpoints <- OneEndpoint
    AuthSecrets <- OneSecret
    Credentials <- OneCredential
    MaxUid = 1
    MaxGen = 1
    MaxUpsets = 0
INVARIANT
    RetriesWaitForTimer
CHECK_DEADLOCK FALSE
