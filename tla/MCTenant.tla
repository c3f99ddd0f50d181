------------------------------ MODULE MCTenant ------------------------------
(***************************************************************************)
(* Constant values for checking Tenant with TLC.                           *)
(***************************************************************************)
EXTENDS TenantRefinement

Empty    == <<>>
NoLimits == [f \in {"default", "defaultRequest", "max"} |-> Empty]
CpuLimit == [NoLimits EXCEPT !["default"] = [r \in {"cpu"} |-> 1]]
Pods(q)  == [r \in {"pods"} |-> q]

\* Specs that ask for nothing but the namespace, or for one managed object: a
\* quota, which suspension overrides, limits, a Baseline policy, a role binding.
Bare      == [prefix |-> <<"tenant">>, hard |-> Empty, limits |-> NoLimits,
              isolation |-> "None", admins |-> {}, suspended |-> FALSE,
              policy |-> "Delete"]
Plain     == [Bare EXCEPT !.hard = Pods(2)]
Suspend   == [Plain EXCEPT !.suspended = TRUE]
Limited   == [Bare EXCEPT !.limits = CpuLimit]
Guarded   == [Bare EXCEPT !.isolation = "Baseline"]
Staffed   == [Bare EXCEPT !.admins = {"alice"}]
Orphaned  == [Plain EXCEPT !.policy = "Orphan"]

OneTenant  == {<<"a">>}

\* "b" under prefix "x-a" and "a-b" under prefix "x" want one namespace.
Clashing   == {<<"b">>, <<"a", "b">>}
PrefixX    == [Bare EXCEPT !.prefix = <<"x">>]
PrefixXA   == [Bare EXCEPT !.prefix = <<"x", "a">>]

OrphanSpecs  == {Orphaned}
ClashSpecs   == {PrefixX, PrefixXA}
EditSpecs    == {Plain, Suspend, Limited, Guarded}
StaffedSpecs == {Staffed}
=============================================================================
