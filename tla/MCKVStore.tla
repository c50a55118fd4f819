----------------------------- MODULE MCKVStore ------------------------------
(* Two keys are enough for one operation to disturb another key; the third  *)
(* spelling is one validate_key rejects.  TTL 0 is legal for the store.     *)
EXTENDS KVStore

MCTtls == {0, 1, 2}
=============================================================================
