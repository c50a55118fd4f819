------------------------------ MODULE MCParser ------------------------------
(* Eight symbols are a whole SET with a TTL of two digits, and the longest  *)
(* line the server accepts, which its client rejects.  With 1 as greatest   *)
(* TTL and 10 as greatest number, a TTL can be zero, legal, too long, and   *)
(* no number.  The texts for the web page are typed beside the lines.       *)
EXTENDS WebText

MCChars == {BL, TAB, "a", "0", "1", "-"}
MCWebChars == {BL, NL, "a"}
(* Every character the browser encodes, and with it the texts "%25" and     *)
(* "&lt;", which are themselves codes; texts of up to four symbols.         *)
MCFormChars ==
  {BL, "%", "2", "5", "+", "&", "=", Wide, "<", "lt", "amp", ";"}

MCSymbols == MCChars \cup {NL} \cup CommandWords \cup MCFormChars

(* Lines of SET are typed to the end, those of the other commands to six    *)
(* symbols, and those without a command to four: what follows an unknown    *)
(* word, or the argument of another command, is only looked at for blanks.  *)
Worthwhile ==
  \/ Len(line) < 4
  \/ \E i \in {1, 2} : line[i] = "SET"
  \/ Len(line) < 6 /\ \E i \in {1, 2} : line[i] \in CommandWords
=============================================================================
