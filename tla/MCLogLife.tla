----------------------------- MODULE MCLogLife ------------------------------
(* One key is a prefix of the other, so a DEL cut short names a key that    *)
(* exists; one value holds a blank, so the second-blank rule matters.       *)
EXTENDS LogLife

MCSymbols == {"SET", "DEL", BL, "a", "b", "x", "y"}
MCKeys == {<<"a">>, <<"a", "b">>}
MCValues == {<<"x">>, <<"x", " ", "y">>}
MCOneValue == {<<"x">>}
MCAllFaults == FaultKinds
MCKills == {"kill", "kill_in_append", "power_loss"}
=============================================================================
