----------------------------- MODULE LogFormat ------------------------------
(***************************************************************************)
(* The text of the log, src/persistence.rs: what a record is written as,   *)
(* how a line is read back, and what a whole file says of a key.           *)
(*                                                                         *)
(* Text is a sequence of symbols.  A symbol is a command word, the blank,  *)
(* or a piece of a key or of a value that no fault splits; keys and values *)
(* are themselves sequences, so that a torn write can leave half a key and *)
(* two lines run together can read as a third one.                         *)
(***************************************************************************)
EXTENDS StoreOps, Sequences, FiniteSetsExt

BL == " "               \* the blank between the fields

CONSTANT Symbols        \* the command words, the blank, pieces of keys and values

ASSUME SymbolsAssumption == {"SET", "DEL", BL} \subseteq Symbols

Text == Seq(Symbols)

SetRecord(k, v) == [op |-> "set", key |-> k, value |-> v]
DelRecord(k)    == [op |-> "del", key |-> k]
Unreadable      == [op |-> "unreadable"]     \* None of from_line

AnyRecord ==
  {Unreadable}
  \cup [op : {"set"}, key : Text, value : Text]
  \cup [op : {"del"}, key : Text]

(* to_line *)
ToLine(r) ==
  IF r.op = "set" THEN <<"SET", BL>> \o r.key \o <<BL>> \o r.value
                  ELSE <<"DEL", BL>> \o r.key

Blanks(s) == {i \in DOMAIN s : s[i] = BL}

(* split_once(' '): the text on either side of the first blank. *)
FirstBlank(s) ==
  CHOOSE i \in DOMAIN s : s[i] = BL /\ \A j \in 1 .. i - 1 : s[j] # BL
Before(s) == SubSeq(s, 1, FirstBlank(s) - 1)
After(s)  == SubSeq(s, FirstBlank(s) + 1, Len(s))

\* Variant: the key of a SET line ends at its last blank, not at its first.
KeyUpToLastBlank(s) ==
  IF Blanks(s) = {} \/ s[1] = BL THEN Unreadable
  ELSE SetRecord(SubSeq(s, 1, Max(Blanks(s)) - 1),
                 SubSeq(s, Max(Blanks(s)) + 1, Len(s)))

(* The SET branch of from_line: the value is all that follows the second   *)
(* blank, blanks and an empty text included; the key may not be empty.     *)
FromSet(s) ==
  IF Blanks(s) = {} \/ Before(s) = <<>> THEN Unreadable
  ELSE SetRecord(Before(s), After(s))

(* The DEL branch: one key, and nothing after it. *)
FromDel(s) == IF s = <<>> \/ Blanks(s) # {} THEN Unreadable ELSE DelRecord(s)

(* from_line, and recover's refusal of a blank line before it.  Only the   *)
(* upper-case spelling of a command word is ever written.                  *)
FromLine[s \in Text] ==
  IF Blanks(s) = {}            THEN Unreadable
  ELSE IF Before(s) = <<"SET">> THEN FromSet(After(s))
  ELSE IF Before(s) = <<"DEL">> THEN FromDel(After(s))
  ELSE Unreadable

(* BufReader::lines: the text after the last line end is a line too,       *)
(* unless it is empty.  So recover cannot tell a line whose end was never  *)
(* written from a whole one.                                               *)
LinesOf(full, rest) == IF rest = <<>> THEN full ELSE Append(full, rest)

\* Variant: deletions are left out of the replay.
ReplayOnlySets(d, r, t) ==
  IF r.op = "set" THEN SetEntry(d, r.key, r.value, Never, t, t) ELSE d

(* One turn of recover's loop on a readable record: no TTL is in the log,  *)
(* so every key comes back without a deadline.  The store could refuse a   *)
(* key with a tab or a carriage return in it, which no writer puts there;  *)
(* recover would then end as on a line it cannot read.                     *)
Replay(d, r, t) ==
  IF r.op = "set" THEN SetEntry(d, r.key, r.value, Never, t, t)
                  ELSE DeleteEntry(d, r.key, t)

-----------------------------------------------------------------------------
(* What a sequence of records says, stated without replaying it: the last  *)
(* record that names a key decides it.                                     *)

(* The first n lines of a file, read back. *)
ReadBack(ls, n) == [i \in 1 .. n |-> FromLine[ls[i]]]

Readable(ls) == \A i \in DOMAIN ls : FromLine[ls[i]] # Unreadable

Naming(rs, k) == {i \in DOMAIN rs : rs[i] # Unreadable /\ rs[i].key = k}
LastNaming(rs, k) == Max(Naming(rs, k))

KeysIn(rs) == {rs[i].key : i \in {j \in DOMAIN rs : rs[j] # Unreadable}}
KeysLeft(rs) == {k \in KeysIn(rs) : rs[LastNaming(rs, k)].op = "set"}

(* The keys that are left, with their values. *)
Left[rs \in Seq(AnyRecord)] ==
  [k \in KeysLeft(rs) |-> rs[LastNaming(rs, k)].value]

(* A store that holds the map m, nothing in it expiring. *)
Lasting(m) == [k \in DOMAIN m |-> [value |-> m[k], exp |-> Never]]
=============================================================================
