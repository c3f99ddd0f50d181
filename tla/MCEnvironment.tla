--------------------------- MODULE MCEnvironment ---------------------------
(***************************************************************************)
(* Constant values for checking Environment with TLC.                      *)
(***************************************************************************)
EXTENDS Environment

OneEnvironment == {[namespace |-> "team", name |-> <<"dev">>]}
OneTenant      == {"acme"}
OneTenantName  == {<<"tenant", "acme">>}
OneSecret      == {"db"}
NoSecret       == {}

\* A spec with nothing but the workload namespace and its quota.
Bare      == [tenant |-> "acme", type |-> "development", ttl |-> Nil, profile |-> "small",
              provider |-> "none", source |-> Nil, variables |-> {},
              secrets |-> {}, suspend |-> FALSE]
Argo      == [Bare EXCEPT !.provider = "argocd", !.source = "main"]
Full      == [Bare EXCEPT !.provider = "flux", !.source = "main",
                          !.secrets = {[name |-> "db", optional |-> FALSE]}]
Paused    == [Full EXCEPT !.suspend = TRUE]
Ephemeral == [Argo EXCEPT !.type = "ephemeral", !.ttl = 1]
Preview   == [Ephemeral EXCEPT !.provider = "flux"]
Shelved   == [Ephemeral EXCEPT !.suspend = TRUE]
Flux      == [Bare EXCEPT !.provider = "flux", !.source = "main"]
Needy     == [Bare EXCEPT !.secrets = {[name |-> "db", optional |-> FALSE]}]

BareSpecs      == {Bare}
PauseSpecs     == {Full, Paused, Argo}
PreviewSpecs   == {Preview, Ephemeral}
FluxSpecs      == {Flux}
SettlingSpecs  == {Ephemeral, Shelved, Needy}
============================================================================
