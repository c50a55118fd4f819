------------------------------ MODULE MCServer ------------------------------
(* Two connections are enough for a race on the lock; the keys are one and  *)
(* two symbols long, so that a DEL cut short names another key.             *)
EXTENDS ServerProps, TLC

A == <<"a">>
AB == <<"a", "b">>

MCSymbols == {"SET", "DEL", BL, "a", "b", "x", "y"}
MCKeys == {A, AB}
MCOneKey == {A}
MCValues == {<<"x">>, <<"y">>}
MCOneValue == {<<"x">>}
MCTtls == {1}
MCWrites == {"set", "get", "del"}
MCLookOps == {"set", "get", "del", "list", "status"}
MCLiveOps == {"set", "del", "ping", "exit"}
MCAllOps == {"set", "get", "del", "list", "status", "ping", "exit", "bad"}
MCAllFaults == FaultKinds
ConnSymmetry == Permutations(Conns)
=============================================================================
