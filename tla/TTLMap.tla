------------------------------- MODULE TTLMap -------------------------------
(***************************************************************************)
(* What the store promises: a map in which an entry is gone at the very    *)
(* instant its deadline passes.  Nothing in it is lazy: `map` never holds  *)
(* an expired entry, and every answer is read off `map` as it stands.      *)
(* KVStore.tla implements this map with lazy expiry.                       *)
(***************************************************************************)
EXTENDS Integers, FiniteSets, Functions

CONSTANTS Keys, BadKeys, Values, Ttls, Never

VARIABLES map,   \* key -> [value, exp], unexpired entries only
          now,   \* the monotonic clock
          out    \* the last call, with its answer

vars == <<map, now, out>>

(* The entries of m that are still there at time t. *)
At(m, t) == Restrict(m, {k \in DOMAIN m : m[k].exp = Never \/ m[k].exp > t})

Init == map = [k \in {} |-> Never] /\ now = 0 /\ out = [op |-> "none"]

(* Time passes, during a call or between calls, and takes entries away. *)
Advance ==
  /\ now' \in Nat /\ now' >= now
  /\ map' = At(map, now')
  /\ UNCHANGED out

(* A write: the entry's lifetime counts from the moment the call returns. *)
Put(k, v, ttl) ==
  /\ now' \in Nat /\ now' >= now
  /\ LET exp == IF ttl = Never THEN Never ELSE now' + ttl
         new == [x \in DOMAIN map \cup {k} |->
                   IF x = k THEN [value |-> v, exp |-> exp] ELSE map[x]]
     IN  map' = At(new, now')
  /\ out' = [op |-> "set", key |-> k, value |-> v, ttl |-> ttl]

Lookup(k) ==
  /\ out' = IF k \in DOMAIN map
              THEN [op |-> "get", key |-> k, found |-> TRUE, value |-> map[k].value]
              ELSE [op |-> "get", key |-> k, found |-> FALSE]
  /\ UNCHANGED <<map, now>>

Remove(k) ==
  /\ out' = [op |-> "delete", key |-> k, existed |-> k \in DOMAIN map]
  /\ map' = Restrict(map, DOMAIN map \ {k})
  /\ UNCHANGED now

Enumerate ==
  /\ out' = [op |-> "list", keys |-> DOMAIN map]
  /\ UNCHANGED <<map, now>>

Count ==
  /\ out' = [op |-> "len", count |-> Cardinality(DOMAIN map)]
  /\ UNCHANGED <<map, now>>

(* An illegal key changes nothing, whatever the operation. *)
Reject(k) ==
  /\ out' = [op |-> "invalid", key |-> k]
  /\ UNCHANGED <<map, now>>

Next ==
  \/ Advance
  \/ \E k \in Keys : \/ \E v \in Values, ttl \in Ttls \cup {Never} : Put(k, v, ttl)
                     \/ Lookup(k)
                     \/ Remove(k)
  \/ Enumerate
  \/ Count
  \/ \E k \in BadKeys : Reject(k)

Spec == Init /\ [][Next]_vars
=============================================================================
