------------------------------ MODULE StoreOps ------------------------------
(***************************************************************************)
(* The methods of KVStore (src/store/mod.rs) as operators on its hash map. *)
(* A map is a partial function from keys to entries; `t` is the reading of *)
(* Instant::now() the method works with.  They are kept apart from the     *)
(* state machine in KVStore.tla because the server runs the same methods   *)
(* on its own copy of the map, under its lock.                             *)
(***************************************************************************)
EXTENDS Integers, FiniteSets, Functions

CONSTANTS Never   \* the deadline, or the TTL, that None stands for

ASSUME NeverAssumption == Never \notin Nat

EmptyMap == [k \in {} |-> Never]

(* is_expired: the deadline itself already counts as expired. *)
Expired(exp, t) == exp # Never /\ exp <= t

LiveKeys(d, t) == {k \in DOMAIN d : ~Expired(d[k].exp, t)}

\* Variant: the sweep is forgotten.
SweepNothing(d, t) == d

(* sweep_expired: physically drop every expired entry. *)
SweepExpired(d, t) == Restrict(d, LiveKeys(d, t))

(* expire_at = ttl.map(|secs| now + secs); no TTL means no deadline. *)
Deadline(ttl, t) == IF ttl = Never THEN Never ELSE t + ttl

Insert(d, k, e) == [x \in DOMAIN d \cup {k} |-> IF x = k THEN e ELSE d[x]]

\* Variant: overwriting keeps the deadline the key had before.
SetKeepsDeadline(d, k, v, ttl, t1, t2) ==
  LET old == SweepExpired(d, t1)
  IN  Insert(old, k, [value |-> v,
                      exp |-> IF k \in DOMAIN old THEN old[k].exp
                              ELSE Deadline(ttl, t2)])

(* set, after validate_key: sweep at reading t1, then insert with a        *)
(* deadline counted from the second reading t2.                            *)
SetEntry(d, k, v, ttl, t1, t2) ==
  Insert(SweepExpired(d, t1), k, [value |-> v, exp |-> Deadline(ttl, t2)])

(* get: an expired entry is answered as a missing one. *)
HasLive(d, k, t) == k \in LiveKeys(d, t)

(* delete removes the entry, expired or not; its answer is HasLive(d,k,t). *)
DeleteEntry(d, k, t) == Restrict(d, DOMAIN d \ {k})
=============================================================================
