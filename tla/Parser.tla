------------------------------- MODULE Parser -------------------------------
(***************************************************************************)
(* parse_command of src/parser.rs, and the way of a line from the prompt   *)
(* to the server (src/client.rs, src/server.rs) and into the log.  A line  *)
(* is typed symbol by symbol; what is checked is said of every line on the *)
(* way.  A symbol is one character, but for the command words: one symbol  *)
(* stands for the word in any mixture of cases (Command::from_str).        *)
(***************************************************************************)
EXTENDS LogFormat

CONSTANTS MaxLen,     \* MAX_MSG_LEN
          MaxTtl,     \* MAX_TTL_SECONDS
          MaxU64,     \* the greatest number parse::<u64> accepts
          Chars,      \* the characters typed, command words aside (a line end
                  \* among them is for the web's form only)
          MaxTyped    \* bound on the symbols of a line

TAB == "\t"
NL == "\n"
White == {BL, TAB, NL}     \* char::is_whitespace
Digits == <<"0", "1", "2", "3", "4", "5", "6", "7", "8", "9">>

CommandWords == {"SET", "GET", "DEL", "LIST", "STATUS", "PING", "EXIT"}

ASSUME ParserAssumption ==
  /\ MaxLen \in Nat /\ MaxTtl \in Nat /\ MaxU64 \in Nat /\ MaxTyped \in Nat
  /\ Chars \cap CommandWords = {}
  /\ Chars \cup CommandWords \cup White \subseteq Symbols

VARIABLE line

Blacks(s) == {i \in DOMAIN s : s[i] \notin White}

TrimStart(s) ==
  IF Blacks(s) = {} THEN <<>> ELSE SubSeq(s, Min(Blacks(s)), Len(s))

TrimEnd(s) ==
  IF Blacks(s) = {} THEN <<>> ELSE SubSeq(s, 1, Max(Blacks(s)))

Trim(s) == TrimStart(TrimEnd(s))

\* Variant: a word ends at a blank only, not at a tab.
WordLenToBlank(s) == Min({i \in DOMAIN s : s[i] = BL} \cup {Len(s) + 1}) - 1

WordLen(s) == Min({i \in DOMAIN s : s[i] \in White} \cup {Len(s) + 1}) - 1

(* take_word; an empty word stands for None. *)
TakeWord(s) ==
  LET t == TrimStart(s)
  IN  [word |-> SubSeq(t, 1, WordLen(t)), rest |-> SubSeq(t, WordLen(t) + 1, Len(t))]

Rejected(why) == [op |-> "rejected", why |-> why]

(* parse_one_key.  validate_key can find no fault with a word. *)
ParseOneKey(op, rest) ==
  LET w == TakeWord(rest)
  IN  CASE w.word = <<>>        -> Rejected("missing")
        [] Trim(w.rest) # <<>>  -> Rejected("extra")
        [] OTHER                -> [op |-> op, key |-> w.word]

(* check_no_argument *)
NoArgument(op, rest) ==
  IF Trim(rest) = <<>> THEN [op |-> op] ELSE Rejected("extra")

IsDigits(s) == \A i \in DOMAIN s : \E d \in DOMAIN Digits : Digits[d] = s[i]

NumberOf(s) ==
  MapThenSumSet(LAMBDA i : ((CHOOSE d \in DOMAIN Digits : Digits[d] = s[i]) - 1)
                             * 10^(Len(s) - i),
                DOMAIN s)

(* What parse_value_and_ttl takes for a TTL, and what is wrong with it. *)
LooksLikeTtl(w) == w[1] = "-" \/ IsDigits(w)

TtlFault(w) ==
  IF ~IsDigits(w) \/ NumberOf(w) > MaxU64 THEN "no number"
  ELSE IF NumberOf(w) = 0                 THEN "zero"
  ELSE IF NumberOf(w) > MaxTtl            THEN "too long"
  ELSE "none"

SetOf(key, value, ttl) == [op |-> "set", key |-> key, value |-> value, ttl |-> ttl]

\* Variant: the blanks before the TTL stay in the value.
SetKeepsGap(key, v) ==
  LET gaps == {i \in DOMAIN v : v[i] \in White}
      last == SubSeq(v, Max(gaps) + 1, Len(v))
  IN  IF v = <<>> THEN Rejected("missing")
      ELSE IF gaps = {} \/ ~LooksLikeTtl(last) THEN SetOf(key, v, Never)
      ELSE IF TtlFault(last) # "none" THEN Rejected(TtlFault(last))
      ELSE SetOf(key, SubSeq(v, 1, Max(gaps) - 1), NumberOf(last))

(* parse_value_and_ttl, on the trimmed text v after the key: the last word *)
(* is the TTL if it looks like one and is not the only one.                *)
ValueAndTtl(key, v) ==
  LET gaps == {i \in DOMAIN v : v[i] \in White}
      last == SubSeq(v, Max(gaps) + 1, Len(v))
  IN  IF v = <<>> THEN Rejected("missing")
      ELSE IF gaps = {} \/ ~LooksLikeTtl(last) THEN SetOf(key, v, Never)
      ELSE IF TtlFault(last) # "none" THEN Rejected(TtlFault(last))
      ELSE SetOf(key, TrimEnd(SubSeq(v, 1, Max(gaps) - 1)), NumberOf(last))

ParseSet(rest) ==
  LET w == TakeWord(rest)
  IN  IF w.word = <<>> THEN Rejected("missing")
      ELSE ValueAndTtl(w.word, Trim(w.rest))

(* parse_command *)
Parse(s) ==
  LET w == TakeWord(Trim(s))
      Is(c) == w.word = <<c>>
  IN  IF Len(s) > MaxLen THEN Rejected("too long")
      ELSE IF Is("SET") THEN ParseSet(w.rest)
      ELSE IF Is("GET") THEN ParseOneKey("get", w.rest)
      ELSE IF Is("DEL") THEN ParseOneKey("del", w.rest)
      ELSE IF Is("LIST") THEN NoArgument("list", w.rest)
      ELSE IF Is("STATUS") THEN NoArgument("status", w.rest)
      ELSE IF Is("PING") THEN NoArgument("ping", w.rest)
      ELSE IF Is("EXIT") THEN NoArgument("exit", w.rest)
      ELSE Rejected("unknown")

-----------------------------------------------------------------------------
(* run_tcp_repl parses the line with its line end, and sends it without;   *)
(* handle_connection strips what it read before it parses.                 *)
ClientParse(s) == Parse(Append(s, NL))

\* Variant: lines are sent with CR LF, and measured with it.
ServerParseMeasuresEnd(s) == Parse(s \o <<NL, NL>>)

ServerParse(s) == Parse(TrimEnd(Append(s, NL)))

(* validate_key of the store, which recover calls for every record. *)
StoreAccepts(key) == key # <<>> /\ Blacks(key) = DOMAIN key

Init == line = <<>>

(* Someone types; a command word comes first, after blanks, if at all. *)
Type(c) == Len(line) < MaxTyped /\ line' = Append(line, c)

Next ==
  \/ \E c \in Chars : Type(c)
  \/ \E c \in CommandWords : Blacks(line) = {} /\ Type(c)

Spec == Init /\ [][Next]_line

-----------------------------------------------------------------------------
(* The same commands defined by the words of a line, without trimming or   *)
(* cutting: word n begins at From(n) and ends at To(n).                    *)
Starts(s) == {i \in Blacks(s) : i = 1 \/ s[i - 1] \in White}
Ends(s)   == {i \in Blacks(s) : i = Len(s) \/ s[i + 1] \in White}

Nth(S, n) == CHOOSE i \in S : Cardinality({j \in S : j <= i}) = n

Bare == [LIST |-> "list", STATUS |-> "status", PING |-> "ping", EXIT |-> "exit"]
NoCommand == [op |-> "rejected"]

ByWords(s) ==
  LET n == Cardinality(Starts(s))
      Words(a, b) == SubSeq(s, Nth(Starts(s), a), Nth(Ends(s), b))
      command == IF n = 0 THEN "" ELSE Words(1, 1)[1]
      alone == n > 0 /\ Len(Words(1, 1)) = 1
      timed == n > 3 /\ LooksLikeTtl(Words(n, n))
  IN  CASE alone /\ command = "SET" /\ n >= 3 /\ ~timed ->
             SetOf(Words(2, 2), Words(3, n), Never)
        [] alone /\ command = "SET" /\ timed /\ TtlFault(Words(n, n)) = "none" ->
             SetOf(Words(2, 2), Words(3, n - 1), NumberOf(Words(n, n)))
        [] alone /\ command = "GET" /\ n = 2 -> [op |-> "get", key |-> Words(2, 2)]
        [] alone /\ command = "DEL" /\ n = 2 -> [op |-> "del", key |-> Words(2, 2)]
        [] alone /\ command \in DOMAIN Bare /\ n = 1 -> [op |-> Bare[command]]
        [] OTHER -> NoCommand

(* parse_command, with its trimming, its cutting and its search for a TTL  *)
(* from the right, reads the words of the line and nothing else: tabs and  *)
(* repeated blanks around the words change nothing, those inside a value   *)
(* stay, and a last word of digits is the TTL only after a value.          *)
ParsesByWords ==
  LET r == Parse(line)
  IN  Len(line) <= MaxLen =>
        IF r.op = "rejected" THEN ByWords(line) = NoCommand ELSE r = ByWords(line)

(* Whatever SET or DEL the parser lets through, its record is read back    *)
(* from the log as it was written, and with a key the store accepts: no    *)
(* accepted command makes a log that recover refuses.                      *)
RecordsReplay ==
  LET r == Parse(line)
      record == IF r.op = "set" THEN SetRecord(r.key, r.value) ELSE DelRecord(r.key)
  IN  r.op \in {"set", "del"} =>
        /\ FromLine[ToLine(record)] = record
        /\ StoreAccepts(r.key)

(* What the client lets through, the server reads as the same command,     *)
(* although the two measure and trim differently.                          *)
ServerAgrees ==
  ClientParse(line).op # "rejected" => ServerParse(line) = ClientParse(line)
=============================================================================
