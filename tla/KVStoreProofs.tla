--------------------------- MODULE KVStoreProofs ----------------------------
(***************************************************************************)
(* Theorems about the store of KVStore.tla, for any keys, values and TTLs  *)
(* and any bound on the clock: its type invariant, what a `set` reclaims,  *)
(* and that lazy expiry implements the eager map of TTLMap.tla.            *)
(***************************************************************************)
EXTENDS KVStore, TLAPS

(* A map whose deadlines are readings of the clock, or none. *)
StoreMap(d) == \A k \in DOMAIN d : d[k].exp \in Nat \cup {Never}

LEMMA TypeGivesStoreMap == TypeOK => StoreMap(data) /\ now \in Nat
  BY DEF TypeOK, Entries, StoreMap

(* Sweeping a map and reading At of it, the eager map's own way to drop    *)
(* what has expired, are the same thing.                                   *)
LEMMA SweepIsAt ==
  ASSUME NEW d, StoreMap(d), NEW t \in Nat
  PROVE  Eager!At(d, t) = SweepExpired(d, t)
<1>1. \A k \in DOMAIN d : (d[k].exp = Never \/ d[k].exp > t)
                             <=> ~Expired(d[k].exp, t)
  BY NeverAssumption DEF StoreMap, Expired
<1>2. {k \in DOMAIN d : d[k].exp = Never \/ d[k].exp > t} = LiveKeys(d, t)
  BY <1>1 DEF LiveKeys
<1> QED
  BY <1>2 DEF Eager!At, SweepExpired, Restrict, Eager!Restrict

(* Expired entries stay expired, so a sweep after an earlier sweep leaves  *)
(* what the later one alone would have left.                               *)
LEMMA LaterSweepWins ==
  ASSUME NEW d, StoreMap(d), NEW t \in Nat, NEW u \in Nat, t <= u
  PROVE  /\ StoreMap(SweepExpired(d, t))
         /\ SweepExpired(SweepExpired(d, t), u) = SweepExpired(d, u)
<1> DEFINE s == SweepExpired(d, t)
<1>1. /\ DOMAIN s = LiveKeys(d, t)
      /\ \A k \in LiveKeys(d, t) : s[k] = d[k] /\ k \in DOMAIN d
  BY DEF SweepExpired, Restrict, LiveKeys
<1>2. StoreMap(s)
  BY <1>1 DEF StoreMap
<1>3. \A k \in DOMAIN d : ~Expired(d[k].exp, u) => ~Expired(d[k].exp, t)
  BY NeverAssumption DEF StoreMap, Expired
<1>4. LiveKeys(s, u) = LiveKeys(d, u)
  BY <1>1, <1>3 DEF LiveKeys
<1>5. SweepExpired(s, u) = [k \in LiveKeys(d, u) |-> s[k]]
  BY <1>4 DEF SweepExpired, Restrict
<1>6. \A k \in LiveKeys(d, u) : s[k] = d[k]
  BY <1>1, <1>3 DEF LiveKeys
<1>7. SweepExpired(d, u) = [k \in LiveKeys(d, u) |-> d[k]]
  BY DEF SweepExpired, Restrict
<1> QED
  BY <1>2, <1>5, <1>6, <1>7

(* Removing a key and sweeping commute. *)
LEMMA DeleteSweeps ==
  ASSUME NEW d, StoreMap(d), NEW t \in Nat, NEW k
  PROVE  SweepExpired(DeleteEntry(d, k, t), t)
           = Restrict(SweepExpired(d, t), DOMAIN SweepExpired(d, t) \ {k})
  BY DEF SweepExpired, DeleteEntry, Restrict, LiveKeys

(* The eager map's Put, before it drops what has expired. *)
Written(m, k, v, ttl, u) ==
  [x \in DOMAIN m \cup {k} |->
     IF x = k THEN [value |-> v, exp |-> IF ttl = Never THEN Never ELSE u + ttl]
              ELSE m[x]]

(* What `set` leaves, seen through its live entries at its second reading  *)
(* of the clock, is the eager map's Put.                                   *)
LEMMA SetIsPut ==
  ASSUME NEW d, StoreMap(d), NEW t \in Nat, NEW u \in Nat, t <= u,
         NEW k, NEW v, NEW ttl \in Nat \cup {Never}
  PROVE  SweepExpired(SetEntry(d, k, v, ttl, t, u), u)
           = Eager!At(Written(SweepExpired(d, t), k, v, ttl, u), u)
<1> DEFINE new == Written(SweepExpired(d, t), k, v, ttl, u)
<1>1. SetEntry(d, k, v, ttl, t, u) = new
  BY DEF SetEntry, Insert, Deadline, Written
<1>2. StoreMap(SweepExpired(d, t))
  BY LaterSweepWins
<1>3. (IF ttl = Never THEN Never ELSE u + ttl) \in Nat \cup {Never}
  OBVIOUS
<1>4. StoreMap(new)
  BY <1>2, <1>3 DEF StoreMap, Written
<1>5. SweepExpired(new, u) = Eager!At(new, u)
  BY <1>4, SweepIsAt
<1> QED
  BY <1>1, <1>5

(* A deadline set at a reading of the clock is a reading of the clock. *)
LEMMA DeadlineIsClock ==
  ASSUME NEW ttl \in Ttls \cup {Never}, NEW t \in Nat
  PROVE  Deadline(ttl, t) \in Nat \cup {Never}
<1>1. CASE ttl = Never
  BY <1>1 DEF Deadline
<1>2. CASE ttl # Never
  <2>1. ttl \in Nat
    BY <1>2, StoreAssumption
  <2> QED
    BY <1>2, <2>1 DEF Deadline
<1> QED
  BY <1>1, <1>2

-----------------------------------------------------------------------------
(* Whatever is called, in whatever order, the map holds legal keys only,   *)
(* each with a value and a deadline that is a clock reading or none.       *)
THEOREM TypeCorrect == Spec => []TypeOK
<1>1. Init => TypeOK
  BY DEF Init, TypeOK, EmptyMap
<1>2. TypeOK /\ [Next]_vars => TypeOK'
  <2> SUFFICES ASSUME TypeOK, [Next]_vars PROVE TypeOK'
    OBVIOUS
  <2> USE DEF TypeOK, Entries
  <2>1. CASE Tick
    BY <2>1 DEF Tick
  <2>2. ASSUME NEW k \in Keys, NEW v \in Values, NEW ttl \in Ttls \cup {Never},
               Set(k, v, ttl)
        PROVE  TypeOK'
    <3>1. now' \in Nat
      BY <2>2, StoreAssumption DEF Set
    <3>2. Deadline(ttl, now') \in Nat \cup {Never}
      BY <3>1, DeadlineIsClock
    <3>3. data' = SetEntry(data, k, v, ttl, now, now')
      BY <2>2 DEF Set
    <3>4. DOMAIN data' \subseteq Keys
      BY <3>3 DEF SetEntry, Insert, SweepExpired, Restrict, LiveKeys
    <3>5. \A x \in DOMAIN data' : data'[x] \in Entries
      BY <3>2, <3>3 DEF SetEntry, Insert, SweepExpired, Restrict, LiveKeys
    <3> QED
      BY <3>1, <3>4, <3>5
  <2>3. ASSUME NEW k \in Keys, Get(k) PROVE TypeOK'
    BY <2>3 DEF Get
  <2>4. ASSUME NEW k \in Keys, Delete(k) PROVE TypeOK'
    BY <2>4 DEF Delete, DeleteEntry, Restrict
  <2>5. CASE List
    BY <2>5 DEF List
  <2>6. CASE Len_
    BY <2>6 DEF Len_
  <2>7. ASSUME NEW k \in BadKeys, InvalidKey(k) PROVE TypeOK'
    BY <2>7 DEF InvalidKey
  <2>8. CASE UNCHANGED vars
    BY <2>8 DEF vars
  <2> QED
    BY <2>1, <2>2, <2>3, <2>4, <2>5, <2>6, <2>7, <2>8 DEF Next
<1> QED
  BY <1>1, <1>2, PTL DEF Spec

-----------------------------------------------------------------------------
(* A `set` leaves no entry that had expired when it began, other than the  *)
(* one it writes: the sweep and the insertion of KVStore::set.             *)
THEOREM SetsReclaim == Spec => SetReclaims
<1> DEFINE Reclaimed ==
      out'.op = "set" /\ data' # data =>
        \A k \in DOMAIN data' : k # out'.key => ~Expired(data'[k].exp, now)
<1>1. TypeOK /\ [Next]_vars => [Reclaimed]_vars
  <2> SUFFICES ASSUME TypeOK, [Next]_vars PROVE [Reclaimed]_vars
    OBVIOUS
  <2>1. ASSUME NEW k \in Keys, NEW v \in Values, NEW ttl \in Ttls \cup {Never},
               Set(k, v, ttl)
        PROVE  Reclaimed
    <3>1. out'.key = k
      BY <2>1 DEF Set
    <3>2. \A x \in DOMAIN data' : x # k => x \in LiveKeys(data, now) /\ data'[x] = data[x]
      BY <2>1 DEF Set, SetEntry, Insert, SweepExpired, Restrict
    <3> QED
      BY <3>1, <3>2 DEF LiveKeys
  <2>2. ASSUME NEW k \in Keys, Delete(k) PROVE Reclaimed
    BY <2>2 DEF Delete
  <2>3. Tick \/ List \/ Len_ \/ (\E k \in Keys : Get(k))
          \/ (\E k \in BadKeys : InvalidKey(k)) \/ UNCHANGED vars
          => [Reclaimed]_vars
    BY DEF Tick, List, Len_, Get, InvalidKey, vars
  <2> QED
    BY <2>1, <2>2, <2>3 DEF Next
<1> QED
  BY <1>1, TypeCorrect, PTL DEF Spec, SetReclaims

(* The lazily expiring store implements the eager map: every call gives    *)
(* the answer that a map dropping each entry at its deadline would give.   *)
THEOREM LazyImplementsEager == Spec => ImplementsEagerMap
<1> DEFINE m == SweepExpired(data, now)
<1> USE DEF Eager!vars
<1>1. Init => Eager!Init
  BY DEF Init, Eager!Init, SweepExpired, LiveKeys, Restrict, EmptyMap
<1>2. TypeOK /\ TypeOK' /\ [Next]_vars => [Eager!Next]_(Eager!vars)
  <2> SUFFICES ASSUME TypeOK, TypeOK', [Next]_vars
               PROVE  [Eager!Next]_(Eager!vars)
    OBVIOUS
  <2>0. StoreMap(data) /\ now \in Nat /\ now' \in Nat
    BY TypeGivesStoreMap DEF TypeOK
  <2>1. DOMAIN m = LiveKeys(data, now) /\ \A k \in DOMAIN m : m[k] = data[k]
    BY DEF SweepExpired, Restrict
  <2>2. CASE Tick
    <3>1. now' = now + 1 /\ data' = data /\ out' = out
      BY <2>2 DEF Tick
    <3>2. now <= now' /\ now' >= now
      BY <2>0, <3>1
    <3>3. m' = SweepExpired(data, now')
      BY <3>1
    <3>4. StoreMap(m) /\ SweepExpired(m, now') = SweepExpired(data, now')
      BY <2>0, <3>2, LaterSweepWins
    <3>5. m' = Eager!At(m, now')
      BY <2>0, <3>3, <3>4, SweepIsAt
    <3> QED
      BY <2>0, <3>1, <3>2, <3>5 DEF Eager!Next, Eager!Advance
  <2>3. ASSUME NEW k \in Keys, NEW v \in Values, NEW ttl \in Ttls \cup {Never},
               Set(k, v, ttl)
        PROVE  Eager!Put(k, v, ttl)
    <3>1. /\ now <= now' /\ now' >= now
          /\ data' = SetEntry(data, k, v, ttl, now, now')
          /\ out' = [op |-> "set", key |-> k, value |-> v, ttl |-> ttl]
          /\ ttl \in Nat \cup {Never}
      BY <2>0, <2>3, StoreAssumption DEF Set
    <3>2. SweepExpired(SetEntry(data, k, v, ttl, now, now'), now')
            = Eager!At(Written(m, k, v, ttl, now'), now')
      BY <2>0, <3>1, SetIsPut
    <3>3. m' = Eager!At(Written(m, k, v, ttl, now'), now')
      BY <3>1, <3>2
    <3> QED
      BY <2>0, <3>1, <3>3 DEF Eager!Put, Written
  <2>4. ASSUME NEW k \in Keys, Get(k) PROVE Eager!Lookup(k)
    BY <2>1, <2>4 DEF Get, HasLive, Eager!Lookup
  <2>5. ASSUME NEW k \in Keys, Delete(k) PROVE Eager!Remove(k)
    <3>1. m' = Restrict(m, DOMAIN m \ {k})
      BY <2>0, <2>5, DeleteSweeps DEF Delete
    <3> QED
      BY <2>1, <2>5, <3>1 DEF Delete, HasLive, Eager!Remove, Restrict, Eager!Restrict
  <2>6. CASE List
    BY <2>1, <2>6 DEF List, Eager!Next, Eager!Enumerate
  <2>7. CASE Len_
    BY <2>1, <2>7 DEF Len_, Eager!Next, Eager!Count, Cardinality, Eager!Cardinality
  <2>8. ASSUME NEW k \in BadKeys, InvalidKey(k) PROVE Eager!Reject(k)
    BY <2>8 DEF InvalidKey, Eager!Reject
  <2>9. CASE UNCHANGED vars
    BY <2>9 DEF vars
  <2> QED
    BY <2>2, <2>3, <2>4, <2>5, <2>6, <2>7, <2>8, <2>9 DEF Next, Eager!Next
<1> QED
  BY <1>1, <1>2, TypeCorrect, PTL DEF Spec, ImplementsEagerMap, Eager!Spec
=============================================================================
