-------------------------------- MODULE Labels --------------------------------
(***************************************************************************)
(* internal/platform/labels.go: the labels stamped onto managed objects.   *)
(* A label map is a function from the keys it has to values.               *)
(***************************************************************************)

BaseLabels == [managedBy |-> "unified-platform-operator", partOf |-> "upo-platform"]

\* Mutant: what is already on the object wins.
KeepsExisting(dst, src) ==
    [k \in DOMAIN dst \cup DOMAIN src |-> IF k \in DOMAIN dst THEN dst[k] ELSE src[k]]

\* dst overlaid with src; a key that only dst has stays.
MergeLabels(dst, src) ==
    [k \in DOMAIN dst \cup DOMAIN src |-> IF k \in DOMAIN src THEN src[k] ELSE dst[k]]

\* Base labels, then the extra ones, then the owner and the component.
TenantLabels(tenant, component, extra) ==
    MergeLabels(MergeLabels(BaseLabels, extra),
                [tenant |-> tenant, component |-> component])
===============================================================================
