---------------------------- MODULE MCAdmission ----------------------------
(***************************************************************************)
(* Constant values for checking Admission with TLC.                        *)
(***************************************************************************)
EXTENDS Admission, FiniteSets

Names        == {"acme", "fits", "overlong"}
UserPrefixes == {"tenant", "longprefix"}

\* With the longest prefix the schema allows, a name of 22 just fits.
Lengths == [n \in Names \cup UserPrefixes |->
               CASE n = "acme" -> 4 [] n = "fits" -> 22 [] n = "overlong" -> 23
                 [] n = "tenant" -> 6 [] n = "longprefix" -> 40]

Plain   == [k \in {} |-> ""]
Reserve == [managedBy |-> "helm", tenant |-> "other", team |-> "red"]
Extras  == {Plain, Reserve}

Subject(kind, ns) == [kind |-> kind, namespace |-> ns]
SomeAdmins == {{}, {Subject("User", "")}, {Subject("ServiceAccount", "")},
               {Subject("ServiceAccount", "ci"), Subject("User", "")}}

Policy(backoff, initial, max) ==
    [backoff |-> backoff, maxRetries |-> 3, initialDelay |-> initial, maxDelay |-> max]

\* Defaults, a cap in the middle of the range, a cap below the first delay, a
\* zero delay, and delays whose product wraps.
SomePolicies == {Nil, Policy("", Nil, Nil), Policy("exponential", 1, Nil),
                 Policy("exponential", 3, 10), Policy("", 5, 2),
                 Policy("fixed", 0, Nil), Policy("exponential", 300, Nil)}
============================================================================
