----------------------------- MODULE KubeClient -----------------------------
(***************************************************************************)
(* What the reconcilers rely on in controller-runtime's client (external   *)
(* to this repository).                                                    *)
(*                                                                         *)
(* mgr.GetClient() reads from informer caches and writes to the API        *)
(* server.  CreateOrUpdate therefore decides on the CACHED object: it      *)
(* creates when the cache has none, makes no call when the mutated object  *)
(* equals the cached one, and otherwise sends an update that carries the   *)
(* cached resourceVersion.  The API server refuses a create of an existing *)
(* object (AlreadyExists) and an update of anything but the current        *)
(* version (Conflict, NotFound).                                           *)
(***************************************************************************)

\* The object an API call leaves behind, and whether the call succeeded.
Ok(object)     == [ok |-> TRUE,  object |-> object]
Failed(object) == [ok |-> FALSE, object |-> object]

\* current: the cached object is the version the API server has.
CreateOrUpdate(cached, actual, current, none, desired) ==
    CASE cached = none /\ actual = none                -> Ok(desired)
      [] cached # none /\ cached = desired             -> Ok(actual)
      [] cached # none /\ cached # desired /\ current  -> Ok(desired)
      [] OTHER                                         -> Failed(actual)
=============================================================================
