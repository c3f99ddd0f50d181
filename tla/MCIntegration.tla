--------------------------- MODULE MCIntegration ---------------------------
(***************************************************************************)
(* Constant values for checking Integration with TLC.                      *)
(***************************************************************************)
EXTENDS Integration

OneIntegration == {[namespace |-> "team", name |-> "crm"]}
OneTenant      == {"acme"}
OneEndpoint    == {"crm.example"}
OneSecret      == {"token"}
OneCredential  == {"v1"}

\* A delay of zero sets no timer; once the retries are used up the resync
\* period does.
Hurried == [backoff |-> "fixed", maxRetries |-> 1, initialDelay |-> 0,
            maxDelay |-> Nil]

Api == [tenant |-> "acme", type |-> "restapi", endpoint |-> "crm.example",
        auth |-> "token", retryPolicy |-> Hurried, suspend |-> FALSE]
Off == [Api EXCEPT !.suspend = TRUE]
Bus == [Api EXCEPT !.type = "messaging", !.auth = Nil, !.retryPolicy = Nil]

Slow == [Api EXCEPT !.auth = Nil, !.retryPolicy =
            [Hurried EXCEPT !.backoff = "exponential", !.initialDelay = Nil]]

SlowSpecs == {Slow}
AllSpecs  == {Api, Off, Bus}
============================================================================
