------------------------------ MODULE KVStore -------------------------------
(***************************************************************************)
(* The in-memory store of src/store/mod.rs: a hash map whose entries carry *)
(* an optional deadline, expired lazily.  Reads filter expired entries out *)
(* of their answers and leave them in the map; only `set` sweeps, and      *)
(* `delete` removes the key it is given.                                   *)
(*                                                                         *)
(* A call runs alone (the caller holds the lock of src/server.rs), but the *)
(* clock moves on while it runs: `set` reads it twice.                     *)
(***************************************************************************)
EXTENDS StoreOps

CONSTANTS Keys,      \* keys validate_key accepts
          BadKeys,   \* keys it rejects: empty, or with blanks or line ends
          Values,
          Ttls,      \* TTLs a caller may pass, in clock ticks
          MaxTime    \* bound on the clock

ASSUME StoreAssumption ==
  /\ Keys \cap BadKeys = {}
  /\ Ttls \subseteq Nat
  /\ MaxTime \in Nat

VARIABLES data,  \* the hash map, expired entries included
          now,   \* Instant::now()
          out    \* the last call, with its answer

vars == <<data, now, out>>

Entries == [value : Values, exp : Nat \cup {Never}]

TypeOK ==
  /\ DOMAIN data \subseteq Keys
  /\ \A k \in DOMAIN data : data[k] \in Entries
  /\ now \in Nat

(* KVStore::new *)
Init == data = EmptyMap /\ now = 0 /\ out = [op |-> "none"]

Tick ==
  /\ now < MaxTime
  /\ now' = now + 1
  /\ UNCHANGED <<data, out>>

Set(k, v, ttl) ==
  /\ now' \in now .. MaxTime
  /\ data' = SetEntry(data, k, v, ttl, now, now')
  /\ out' = [op |-> "set", key |-> k, value |-> v, ttl |-> ttl]

Get(k) ==
  /\ out' = IF HasLive(data, k, now)
              THEN [op |-> "get", key |-> k, found |-> TRUE, value |-> data[k].value]
              ELSE [op |-> "get", key |-> k, found |-> FALSE]
  /\ UNCHANGED <<data, now>>

Delete(k) ==
  /\ out' = [op |-> "delete", key |-> k, existed |-> HasLive(data, k, now)]
  /\ data' = DeleteEntry(data, k, now)
  /\ UNCHANGED now

(* list: the sorted order of the answer is layout, only the set matters. *)
List ==
  /\ out' = [op |-> "list", keys |-> LiveKeys(data, now)]
  /\ UNCHANGED <<data, now>>

Len_ ==
  /\ out' = [op |-> "len", count |-> Cardinality(LiveKeys(data, now))]
  /\ UNCHANGED <<data, now>>

\* Variant: set stores before it validates.
InvalidKeyStored(k) ==
  /\ out' = [op |-> "invalid", key |-> k]
  /\ \E v \in Values : data' = SetEntry(data, k, v, Never, now, now)
  /\ UNCHANGED now

(* validate_key, the early return of set, get and delete. *)
InvalidKey(k) ==
  /\ out' = [op |-> "invalid", key |-> k]
  /\ UNCHANGED <<data, now>>

Next ==
  \/ Tick
  \/ \E k \in Keys : \/ \E v \in Values, ttl \in Ttls \cup {Never} : Set(k, v, ttl)
                     \/ Get(k)
                     \/ Delete(k)
  \/ List
  \/ Len_
  \/ \E k \in BadKeys : InvalidKey(k)

Spec == Init /\ [][Next]_vars

-----------------------------------------------------------------------------
(* Lazy expiry cannot be told from immediate expiry: seen through its live *)
(* entries the store is the eager map, answer by answer (the filters of    *)
(* get, delete, list and len, the sweep and the overwrite rule of set).    *)
Eager == INSTANCE TTLMap WITH map <- SweepExpired(data, now)

ImplementsEagerMap == Eager!Spec

(* A `set` leaves behind no entry that had expired when it began, so what  *)
(* lazy expiry keeps in memory is bounded by one write's worth of expiry   *)
(* (sweep_expired, called by set before it inserts).                       *)
SetReclaims ==
  [][out'.op = "set" /\ data' # data =>
       \A k \in DOMAIN data' : k # out'.key => ~Expired(data'[k].exp, now)]_vars
=============================================================================
