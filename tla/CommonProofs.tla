---------------------------- MODULE CommonProofs ----------------------------
(***************************************************************************)
(* Facts about the operators every reconciler is built from: the helpers   *)
(* of pkg/conditions and CreateOrUpdate on a cached object.                *)
(***************************************************************************)
EXTENDS Conditions, KubeClient, TLAPS

\* CreateOrUpdate leaves behind the object that was there or the desired one,
\* and an update that succeeds started from the current version.
LEMMA CreateOrUpdateCases ==
    ASSUME NEW cached, NEW actual, NEW current, NEW none, NEW desired
    PROVE  LET r == CreateOrUpdate(cached, actual, current, none, desired)
           IN  /\ r.object = actual \/ r.object = desired
               /\ r.object # actual => (cached = none /\ actual = none)
                                        \/ (cached # none /\ current)
BY DEF CreateOrUpdate, Ok, Failed

\* The condition helpers keep a condition list a condition list.
LEMMA ConditionHelpersType ==
    ASSUME NEW types, NEW c \in [types -> ConditionStatus], NEW type \in types
    PROVE  /\ MarkTrue(c, type) \in [types -> ConditionStatus]
           /\ MarkFalse(c, type) \in [types -> ConditionStatus]
           /\ MarkUnknown(c, type) \in [types -> ConditionStatus]
           /\ Remove(c, type) \in [types -> ConditionStatus]
BY DEF MarkTrue, MarkFalse, MarkUnknown, Remove, ConditionStatus
=============================================================================
