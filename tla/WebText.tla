------------------------------- MODULE WebText -------------------------------
(***************************************************************************)
(* The texts of the web page, src/web.rs and src/webpage.rs: how a form    *)
(* field reaches parse_command, how the page finds keys and values in the  *)
(* replies of the server, and how it shows them.  What the browser does is *)
(* Encode and Unescape.  A symbol is one byte of a request, but for Wide,  *)
(* which stands for a character of two bytes.                              *)
(***************************************************************************)
EXTENDS Parser, SequencesExt

CONSTANT FormChars     \* the characters typed into a form

Wide == "wide"
Lead == "lead"         \* the two bytes of Wide
Trail == "trail"
Lost == "lost"         \* U+FFFD, for bytes that are no character
Other == "other"       \* a byte that no text here has

(* Nobody types half a character. *)
ASSUME WebTextAssumption ==
  FormChars \subseteq Symbols /\ Symbols \cap {Lead, Trail} = {}

(* The bytes a browser writes as a percent sign and two hexadecimal digits.*)
Codes ==
  {<<"%", "2", "5">>, <<"+", "2", "B">>, <<"&", "2", "6">>, <<"=", "3", "D">>,
   <<"<", "3", "C">>, <<";", "3", "B">>, <<Lead, "C", "3">>, <<Trail, "A", "9">>}

HexDigits ==
  {Digits[d] : d \in DOMAIN Digits}
  \cup {"A", "B", "C", "D", "E", "F", "a", "b", "c", "d", "e", "f"}

InOrder(S) == [n \in 1 .. Cardinality(S) |-> Nth(S, n)]

BytesOf(c) == IF c = Wide THEN <<Lead, Trail>> ELSE <<c>>
Bytes(s) == FlattenSeq([i \in DOMAIN s |-> BytesOf(s[i])])

(* String::from_utf8_lossy *)
FromBytes(b) ==
  LET Begins(i) == b[i] = Lead /\ i < Len(b) /\ b[i + 1] = Trail
      starts == InOrder({i \in DOMAIN b : i = 1 \/ ~Begins(i - 1)})
      At(i) == IF Begins(i) THEN Wide
               ELSE IF b[i] \in {Lead, Trail} THEN Lost
               ELSE b[i]
  IN  [n \in DOMAIN starts |-> At(starts[n])]

(* A form sends a blank as a plus sign, an address may have it as %20. *)
Decoded == Codes \cup {<<BL, "2", "0">>}

(* u8::from_str_radix takes a sign before the number.  The bytes that no   *)
(* text here needs are one, Other.                                         *)
IsByte(h) == h[1] \in HexDigits \cup {"+"} /\ h[2] \in HexDigits

ByteOf(h) ==
  IF \E c \in Decoded : Tail(c) = h THEN (CHOOSE c \in Decoded : Tail(c) = h)[1]
  ELSE Other

(* The loop over a text: at i it puts out out[i] and goes on step[i]       *)
(* symbols further.                                                        *)
Scan(out, step) ==
  LET From[i \in Nat \ {0}] ==
        IF i > Len(out) THEN <<>> ELSE <<out[i]>> \o From[i + step[i]]
  IN  From[1]

\* Variant: a code at the very end is left as it is.
CodesBeforeEnd(b) ==
  {i \in DOMAIN b : b[i] = "%" /\ i + 2 < Len(b) /\ IsByte(SubSeq(b, i + 1, i + 2))}

CodesIn(b) ==
  {i \in DOMAIN b : b[i] = "%" /\ i + 2 <= Len(b) /\ IsByte(SubSeq(b, i + 1, i + 2))}

(* url_decode; Cuts says where its slice panics. *)
UrlDecode(s) ==
  LET b == Bytes(s)
      At(i) == IF i \in CodesIn(b) THEN ByteOf(SubSeq(b, i + 1, i + 2))
               ELSE IF b[i] = "+" THEN BL
               ELSE b[i]
  IN  FromBytes(Scan([i \in DOMAIN b |-> At(i)],
                     [i \in DOMAIN b |-> IF i \in CodesIn(b) THEN 3 ELSE 1]))

(* The two bytes after a percent sign end inside a character: the slice    *)
(* &s[i + 1..i + 3] panics.                                                *)
Cuts(s) ==
  LET b == Bytes(s)
  IN  \E i \in DOMAIN b : b[i] = "%" /\ i + 3 <= Len(b) /\ b[i + 3] = Trail

(* str::split; no symbol c is left in a piece. *)
Split(s, c) ==
  LET cuts == InOrder({0, Len(s) + 1} \cup {i \in DOMAIN s : s[i] = c})
  IN  [n \in 1 .. Len(cuts) - 1 |-> SubSeq(s, cuts[n] + 1, cuts[n + 1] - 1)]

(* The pieces that are not empty, in order. *)
NonEmpty(pieces) ==
  LET kept == InOrder({n \in DOMAIN pieces : pieces[n] # <<>>})
  IN  [n \in DOMAIN kept |-> pieces[kept[n]]]

(* split_once('=') on one pair; a pair without the sign is a name. *)
Field(p) ==
  LET eq == Min({i \in DOMAIN p : p[i] = "="} \cup {Len(p) + 1})
  IN  [name  |-> UrlDecode(SubSeq(p, 1, eq - 1)),
       value |-> UrlDecode(SubSeq(p, eq + 1, Len(p)))]

(* parse_form, and the same loop over the query of a request line. *)
ParseForm(body) ==
  LET pairs == NonEmpty(Split(body, "&"))
  IN  [n \in DOMAIN pairs |-> Field(pairs[n])]

(* The first field of a name; <<>> if there is none.  That one is missing, *)
(* and not empty, shows in the wording of the error page alone: of neither *)
(* run_command and query_key run a command (RunNothing of Web.tla).        *)
FieldIn(body, name) ==
  LET fields == ParseForm(body)
      named == {n \in DOMAIN fields : fields[n].name = <<name>>}
  IN  IF named = {} THEN <<>> ELSE fields[Min(named)].value

(* run_command and query_key: the line they hand to parse_command. *)
CommandLine(body) == Trim(FieldIn(body, "command"))
KeyLine(query) == <<"GET", BL>> \o FieldIn(query, "key")

-----------------------------------------------------------------------------
Entities ==
  {<<"&", "amp">>, <<"<", "lt">>, <<">", "gt">>, <<"dquote", "quot">>, <<"quote", "#39">>}

\* Variant: an ampersand is shown as it is.
ShownNotAmp(c) ==
  IF \E e \in Entities : e[1] = c /\ c # "&"
    THEN <<"&", (CHOOSE e \in Entities : e[1] = c)[2], ";">>
    ELSE <<c>>

Shown(c) ==
  IF \E e \in Entities : e[1] = c
    THEN <<"&", (CHOOSE e \in Entities : e[1] = c)[2], ";">>
    ELSE <<c>>

(* html_escape *)
HtmlEscape(s) == FlattenSeq([i \in DOMAIN s |-> Shown(s[i])])

(* data_rows: the keys in the reply to LIST, and the value in the reply to *)
(* a GET; a reply with no value in it is shown as it is.                   *)
ListedKeys(reply) == NonEmpty(Split(Trim(Tail(reply)), BL))

\* Variant: the value begins after the last blank.
RowValueLastWord(reply) ==
  LET t == Trim(Tail(reply))
  IN  IF Head(reply) = "VALUE" /\ Blanks(t) # {}
        THEN SubSeq(t, Max(Blanks(t)) + 1, Len(t)) ELSE reply

RowValue(reply) ==
  LET t == Trim(Tail(reply))
  IN  IF Head(reply) = "VALUE" /\ Blanks(t) # {} THEN After(t) ELSE reply

(* execute_inner's replies to GET and to LIST. *)
ValueReply(k, v) == <<"VALUE", BL>> \o k \o <<BL>> \o v
KeysReply(ks) == <<"KEYS">> \o FlattenSeq([i \in DOMAIN ks |-> <<BL>> \o ks[i]])

-----------------------------------------------------------------------------
(* The browser: how it sends the fields of a form, and how it shows a page.*)
Sent(x) ==
  IF x = BL THEN <<"+">>
  ELSE IF \E code \in Codes : code[1] = x
    THEN LET c == CHOOSE code \in Codes : code[1] = x IN <<"%", c[2], c[3]>>
  ELSE <<x>>
Encode(s) == LET b == Bytes(s) IN FlattenSeq([i \in DOMAIN b |-> Sent(b[i])])

EntitiesIn(s) ==
  {i \in DOMAIN s : /\ s[i] = "&" /\ i + 2 <= Len(s) /\ s[i + 2] = ";"
                    /\ \E e \in Entities : e[2] = s[i + 1]}

Unescape(s) ==
  LET At(i) == IF i \in EntitiesIn(s)
                 THEN (CHOOSE e \in Entities : e[2] = s[i + 1])[1]
                 ELSE s[i]
  IN  Scan([i \in DOMAIN s |-> At(i)],
           [i \in DOMAIN s |-> IF i \in EntitiesIn(s) THEN 3 ELSE 1])

(* A text for a form is typed, beside the lines of Parser.tla. *)
IsFormText == \A i \in DOMAIN line : line[i] \in FormChars

TypeText(c) == IsFormText /\ Type(c)

TextNext == Next \/ \E c \in FormChars : TypeText(c)

TextSpec == Init /\ [][TextNext]_line

-----------------------------------------------------------------------------
(* Whatever is typed into the command field, or asked for as a key, comes  *)
(* out of url_decode and parse_form as it was typed, percent signs, plus   *)
(* signs and characters of several bytes included, whatever field is sent  *)
(* beside it; and no text that a browser has encoded makes url_decode      *)
(* panic.                                                                  *)
FormDelivers ==
  LET sent == Encode(line)
      body == <<"key", "=">> \o sent \o <<"&", "command", "=">> \o sent
  IN  IsFormText =>
        /\ ~Cuts(sent)
        /\ FieldIn(body, "key") = line
        /\ CommandLine(body) = Trim(line)

(* Whatever text the page shows, the reader sees that text, and nothing in *)
(* it is taken for markup.                                                 *)
PageShowsText ==
  LET shown == HtmlEscape(line)
  IN  IsFormText =>
        /\ Unescape(shown) = line
        /\ \A i \in DOMAIN shown : shown[i] \notin {"<", ">", "quote", "dquote"}

(* data_rows cuts the server's replies apart again: whatever key and value *)
(* a SET was accepted with, the page finds the key in LIST's reply, asks   *)
(* for that key, and shows that value, blanks inside it included.          *)
PageReadsReplies ==
  LET r == Parse(line)
  IN  r.op = "set" =>
        /\ ListedKeys(KeysReply(<<r.key, r.key>>)) = <<r.key, r.key>>
        /\ Parse(KeyLine(<<"key", "=">> \o Encode(r.key))) = [op |-> "get", key |-> r.key]
        /\ RowValue(ValueReply(r.key, r.value)) = r.value

(* The log is read line by line: whatever SET or DEL the page hands to the *)
(* server, its record takes one line of the log and is read back from it   *)
(* ("**值**不允许换行", src/PROTOCOL.md:23).  It fails: parse_command      *)
(* takes a value with a line end in it.                                    *)
FormRecordsReplay ==
  LET r == Parse(Trim(line))
      record == IF r.op = "set" THEN SetRecord(r.key, r.value) ELSE DelRecord(r.key)
      written == Split(ToLine(record), NL)
  IN  r.op \in {"set", "del"} =>
        [i \in DOMAIN written |-> FromLine[written[i]]] = <<record>>
=============================================================================
