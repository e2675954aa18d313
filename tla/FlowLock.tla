------------------------------ MODULE FlowLock ------------------------------
(***************************************************************************)
(* The Redis flow locks of features/cache (cache-locks.ts and the lock     *)
(* operations of cache.service.ts).  A lock key is a Redis string whose    *)
(* value is the random token of the request that set it; the key expires   *)
(* FLOW_LOCK_TTL_MS after it was set.  The table of keys is seen from the  *)
(* side of the requests: held[w] is the set of keys whose stored value is  *)
(* the token of request w.  A request whose key expired no longer has it   *)
(* in held[w] and is not told so.                                          *)
(***************************************************************************)

(* SET key token NX for each key of withFlowLocks, in order.  A key that is
   already set makes the call fail and the keys taken so far are given back,
   so nothing but "all keys taken" has a lasting effect.                    *)
LocksFree(held, keys) == \A v \in DOMAIN held : held[v] \cap keys = {}

AcquireLocks(held, w, keys) == [held EXCEPT ![w] = @ \cup keys]

(* The compare-and-delete script: only keys that still carry the caller's
   token are deleted.                                                       *)
ReleaseLocks(held, w) == [held EXCEPT ![w] = {}]

(* The TTL of a key runs out.                                               *)
LapseLock(held, w, key) == [held EXCEPT ![w] = @ \ {key}]

=============================================================================
