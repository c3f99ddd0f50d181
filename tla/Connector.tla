------------------------------ MODULE Connector ------------------------------
(***************************************************************************)
(* internal/platform/connector.go: which connector families the HTTP       *)
(* prober can reach, and what the connection Secret of an Integration      *)
(* holds.                                                                  *)
(***************************************************************************)

IntegrationTypes == {"webhook", "restapi", "oauth2", "database", "messaging", "objectstore"}

IsHTTPType(type) == type \in {"webhook", "restapi", "oauth2", "objectstore"}

\* Endpoint and type, and the resolved credentials under keys of their own;
\* creds is Nil when the spec refers to no Secret.
BuildConnectionData(spec, creds) ==
    [endpoint |-> spec.endpoint, type |-> spec.type, creds |-> creds]
==============================================================================
