----------------------------- MODULE Conditions -----------------------------
(***************************************************************************)
(* pkg/conditions: the helpers every reconciler uses to write              *)
(* status.conditions.  A condition list keyed by type is a function from   *)
(* condition types to statuses; "Absent" is a type with no entry.  Reasons,*)
(* messages and transition times are left out: no property reads them.     *)
(***************************************************************************)

ConditionStatus == {"True", "False", "Unknown", "Absent"}

MarkTrue(conds, type)    == [conds EXCEPT ![type] = "True"]
MarkFalse(conds, type)   == [conds EXCEPT ![type] = "False"]
MarkUnknown(conds, type) == [conds EXCEPT ![type] = "Unknown"]
Remove(conds, type)      == [conds EXCEPT ![type] = "Absent"]

IsTrue(conds, type) == conds[type] = "True"
=============================================================================
