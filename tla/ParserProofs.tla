---------------------------- MODULE ParserProofs ----------------------------
(***************************************************************************)
(* Theorems about parse_command, as Parser.tla has it, for lines of any    *)
(* length over any characters and for any limits: what it lets through is  *)
(* read back from the log, the server reads what the client checked, and   *)
(* the words of a line are all that counts.                                *)
(* Of PersistenceProofs only the facts on the text of a record are used:   *)
(* no file and no process is at work here.                                 *)
(***************************************************************************)
EXTENDS Parser, PersistenceProofs

LEMMA SmallestNumber ==
  ASSUME NEW T \in SUBSET Nat, T # {}
  PROVE  Min(T) \in T /\ \A i \in T : Min(T) <= i
  BY LeastNumber DEF Min

LEMMA TextIsSeq ==
  ASSUME NEW s \in Text
  PROVE  /\ Len(s) \in Nat /\ DOMAIN s = 1 .. Len(s)
         /\ \A i \in 1 .. Len(s) : s[i] \in Symbols
         /\ Blacks(s) \in SUBSET (1 .. Len(s))
  BY ElementOfSeq DEF Text, Blacks

(* What a part of a text is. *)
LEMMA PartOf ==
  ASSUME NEW s \in Text, NEW m \in 1 .. Len(s) + 1, NEW n \in m - 1 .. Len(s)
  PROVE  /\ SubSeq(s, m, n) \in Text
         /\ Len(SubSeq(s, m, n)) = n - m + 1
         /\ \A i \in 1 .. n - m + 1 : SubSeq(s, m, n)[i] = s[m + i - 1]
<1>1. \A i \in m .. n : s[i] \in Symbols
  BY TextIsSeq
<1>2. m \in Int /\ n \in Int /\ Len(s) \in Nat
  BY TextIsSeq
<1>3. /\ SubSeq(s, m, n) \in Seq(Symbols)
      /\ Len(SubSeq(s, m, n)) = IF m <= n THEN n - m + 1 ELSE 0
      /\ \A i \in 1 .. n - m + 1 : SubSeq(s, m, n)[i] = s[m + i - 1]
  BY <1>1, <1>2, SubSeqProperties
<1> QED
  BY <1>2, <1>3 DEF Text

(* trim_end leaves everything up to the last symbol that is not white. *)
LEMMA TrimEndCuts ==
  ASSUME NEW s \in Text
  PROVE  /\ TrimEnd(s) \in Text /\ Len(TrimEnd(s)) <= Len(s)
         /\ \A i \in 1 .. Len(TrimEnd(s)) : TrimEnd(s)[i] = s[i]
         /\ \A i \in 1 .. Len(s) : i > Len(TrimEnd(s)) => s[i] \in White
         /\ Len(TrimEnd(s)) > 0 => TrimEnd(s)[Len(TrimEnd(s))] \notin White
<1>0. /\ Len(s) \in Nat /\ DOMAIN s = 1 .. Len(s) /\ Blacks(s) \in SUBSET (1 .. Len(s))
  BY TextIsSeq
<1>1. CASE Blacks(s) = {}
  <2>1. TrimEnd(s) = <<>> /\ <<>> \in Text /\ \A i \in 1 .. Len(s) : s[i] \in White
    BY <1>0, <1>1 DEF TrimEnd, Blacks, Text
  <2> QED
    BY <1>0, <2>1
<1>2. CASE Blacks(s) # {}
  <2>1. PICK m : m = Max(Blacks(s))
    OBVIOUS
  <2>2. m \in Blacks(s) /\ \A i \in Blacks(s) : m >= i
    BY <1>0, <1>2, <2>1, GreatestNumber
  <2>3. m \in 1 .. Len(s) /\ s[m] \notin White /\ TrimEnd(s) = SubSeq(s, 1, m)
    BY <1>0, <1>2, <2>1, <2>2 DEF Blacks, TrimEnd
  <2>4. /\ SubSeq(s, 1, m) \in Text /\ Len(SubSeq(s, 1, m)) = m
        /\ \A i \in 1 .. m : SubSeq(s, 1, m)[i] = s[i]
    BY <1>0, <2>3, PartOf
  <2>5. \A i \in 1 .. Len(s) : i > m => s[i] \in White
    BY <1>0, <2>2 DEF Blacks
  <2> QED
    BY <1>0, <2>3, <2>4, <2>5
<1> QED
  BY <1>1, <1>2

(* trim_start leaves everything from the first one on. *)
LEMMA TrimStartCuts ==
  ASSUME NEW s \in Text
  PROVE  /\ TrimStart(s) \in Text
         /\ \E o \in 0 .. Len(s) :
              /\ Len(TrimStart(s)) = Len(s) - o
              /\ \A i \in 1 .. Len(TrimStart(s)) : TrimStart(s)[i] = s[o + i]
              /\ \A i \in 1 .. o : s[i] \in White
              /\ o < Len(s) => s[o + 1] \notin White
<1>0. /\ Len(s) \in Nat /\ DOMAIN s = 1 .. Len(s) /\ Blacks(s) \in SUBSET (1 .. Len(s))
  BY TextIsSeq
<1>1. CASE Blacks(s) = {}
  <2>1. TrimStart(s) = <<>> /\ <<>> \in Text /\ \A i \in 1 .. Len(s) : s[i] \in White
    BY <1>0, <1>1 DEF TrimStart, Blacks, Text
  <2>2. PICK o : o = Len(s)
    OBVIOUS
  <2>3. Len(TrimStart(s)) = 0
    BY <2>1
  <2>4. o \in 0 .. Len(s) /\ Len(s) - o = 0 /\ ~(o < Len(s)) /\ 1 .. 0 = {}
    BY <1>0, <2>2
  <2>5. \A i \in 1 .. Len(TrimStart(s)) : TrimStart(s)[i] = s[o + i]
    BY <2>3, <2>4
  <2> QED
    BY <2>1, <2>2, <2>3, <2>4, <2>5
<1>2. CASE Blacks(s) # {}
  <2>1. PICK m : m = Min(Blacks(s))
    OBVIOUS
  <2>2. m \in Blacks(s) /\ \A i \in Blacks(s) : m <= i
    BY <1>0, <1>2, <2>1, SmallestNumber
  <2>3. m \in 1 .. Len(s) /\ s[m] \notin White /\ TrimStart(s) = SubSeq(s, m, Len(s))
    BY <1>0, <1>2, <2>1, <2>2 DEF Blacks, TrimStart
  <2>4. /\ SubSeq(s, m, Len(s)) \in Text /\ Len(SubSeq(s, m, Len(s))) = Len(s) - m + 1
        /\ \A i \in 1 .. Len(s) - m + 1 : SubSeq(s, m, Len(s))[i] = s[m + i - 1]
    BY <1>0, <2>3, PartOf
  <2>5. \A i \in 1 .. m - 1 : s[i] \in White
    BY <1>0, <2>2, <2>3 DEF Blacks
  <2>6. PICK o \in 0 .. Len(s) : o = m - 1
    BY <1>0, <2>3
  <2>7. \A i \in 1 .. Len(s) - o : m + i - 1 = o + i
    BY <1>0, <2>3, <2>6
  <2>8. /\ Len(TrimStart(s)) = Len(s) - o /\ o + 1 = m
        /\ \A i \in 1 .. Len(s) - o : TrimStart(s)[i] = s[o + i]
    BY <1>0, <2>3, <2>4, <2>6, <2>7
  <2> QED
    BY <1>0, <2>3, <2>4, <2>5, <2>6, <2>8
<1> QED
  BY <1>1, <1>2

LEMMA TrimIsText ==
  ASSUME NEW s \in Text
  PROVE  TrimStart(s) \in Text /\ TrimEnd(s) \in Text /\ Trim(s) \in Text
  BY TrimStartCuts, TrimEndCuts DEF Trim

LEMMA TrimEndTwice ==
  ASSUME NEW s \in Text
  PROVE  TrimEnd(TrimEnd(s)) = TrimEnd(s)
<1> DEFINE e == TrimEnd(s)
<1>1. e \in Text /\ (Len(e) > 0 => e[Len(e)] \notin White)
  BY TrimEndCuts
<1> HIDE DEF e
<1>2. /\ TrimEnd(e) \in Text /\ Len(TrimEnd(e)) <= Len(e) /\ Len(e) \in Nat
      /\ \A i \in 1 .. Len(TrimEnd(e)) : TrimEnd(e)[i] = e[i]
      /\ \A i \in 1 .. Len(e) : i > Len(TrimEnd(e)) => e[i] \in White
      /\ Len(TrimEnd(e)) \in Nat
  BY <1>1, TrimEndCuts, TextIsSeq
<1>3. Len(TrimEnd(e)) = Len(e)
  BY <1>1, <1>2
<1>4. TrimEnd(e) = e
  BY <1>1, <1>2, <1>3, SeqEqual DEF Text
<1> QED
  BY <1>4 DEF e

(* take_word: a word has nothing white in it, and ends where the text does *)
(* or before something white.                                              *)
LEMMA WordLenCuts ==
  ASSUME NEW t \in Text
  PROVE  /\ WordLen(t) \in 0 .. Len(t)
         /\ \A i \in 1 .. WordLen(t) : t[i] \notin White
         /\ WordLen(t) < Len(t) => t[WordLen(t) + 1] \in White
<1> DEFINE ends == {i \in DOMAIN t : t[i] \in White} \cup {Len(t) + 1}
<1>0. Len(t) \in Nat /\ DOMAIN t = 1 .. Len(t)
  BY TextIsSeq
<1>1. /\ ends \in SUBSET Nat /\ ends # {} /\ WordLen(t) = Min(ends) - 1
      /\ \A i \in ends : i \in 1 .. Len(t) + 1
  BY <1>0 DEF WordLen
<1>2. /\ \A i \in 1 .. Len(t) : i \in ends <=> t[i] \in White
      /\ Len(t) + 1 \in ends
  BY <1>0
<1> HIDE DEF ends
<1>3. Min(ends) \in ends /\ \A i \in ends : Min(ends) <= i
  BY <1>1, SmallestNumber
<1>4. PICK m : m = Min(ends)
  OBVIOUS
<1>5. m \in 1 .. Len(t) + 1 /\ WordLen(t) = m - 1
  BY <1>1, <1>3, <1>4
<1>6. \A i \in 1 .. m - 1 : t[i] \notin White
  BY <1>0, <1>2, <1>3, <1>4, <1>5
<1>7. m <= Len(t) => t[m] \in White
  BY <1>0, <1>2, <1>3, <1>4, <1>5
<1> QED
  BY <1>0, <1>5, <1>6, <1>7

LEMMA TakeWordCuts ==
  ASSUME NEW s \in Text
  PROVE  /\ TakeWord(s).word \in Text /\ TakeWord(s).rest \in Text
         /\ \A i \in 1 .. Len(TakeWord(s).word) : TakeWord(s).word[i] \notin White
<1>1. PICK t : t = TrimStart(s)
  OBVIOUS
<1>2. PICK n : n = WordLen(t)
  OBVIOUS
<1>3. t \in Text /\ Len(t) \in Nat /\ n \in 0 .. Len(t) /\ \A i \in 1 .. n : t[i] \notin White
  BY <1>1, <1>2, TrimIsText, WordLenCuts, TextIsSeq
<1>4. /\ SubSeq(t, 1, n) \in Text /\ Len(SubSeq(t, 1, n)) = n
      /\ \A i \in 1 .. n : SubSeq(t, 1, n)[i] = t[i]
  BY <1>3, PartOf
<1>5. SubSeq(t, n + 1, Len(t)) \in Text
  BY <1>3, PartOf
<1> QED
  BY <1>1, <1>2, <1>3, <1>4, <1>5 DEF TakeWord

-----------------------------------------------------------------------------
(* What parse_command accepts: a key without anything white in it, and a   *)
(* value that is part of the line.                                         *)
LegalKey(k) == k \in Text /\ k # <<>> /\ \A i \in 1 .. Len(k) : k[i] \notin White

LEMMA ValueAndTtlAccepts ==
  ASSUME NEW k, NEW v \in Text, ValueAndTtl(k, v).op # "rejected"
  PROVE  /\ ValueAndTtl(k, v).op = "set" /\ ValueAndTtl(k, v).key = k
         /\ ValueAndTtl(k, v).value \in Text
<1>1. PICK gaps : gaps = {i \in DOMAIN v : v[i] \in White}
  OBVIOUS
<1>2. PICK last : last = SubSeq(v, Max(gaps) + 1, Len(v))
  OBVIOUS
<1>3. Len(v) \in Nat /\ DOMAIN v = 1 .. Len(v) /\ gaps \in SUBSET (1 .. Len(v))
  BY <1>1, TextIsSeq
<1>4. gaps # {} => TrimEnd(SubSeq(v, 1, Max(gaps) - 1)) \in Text
  <2> SUFFICES ASSUME gaps # {} PROVE TrimEnd(SubSeq(v, 1, Max(gaps) - 1)) \in Text
    OBVIOUS
  <2>1. Max(gaps) \in 1 .. Len(v)
    BY <1>3, GreatestNumber
  <2>2. Max(gaps) - 1 \in 0 .. Len(v)
    BY <1>3, <2>1
  <2>3. SubSeq(v, 1, Max(gaps) - 1) \in Text
    BY <1>3, <2>2, PartOf
  <2> QED
    BY <2>3, TrimIsText
<1>5. ValueAndTtl(k, v)
        = IF v = <<>> THEN Rejected("missing")
          ELSE IF gaps = {} \/ ~LooksLikeTtl(last) THEN SetOf(k, v, Never)
          ELSE IF TtlFault(last) # "none" THEN Rejected(TtlFault(last))
          ELSE SetOf(k, TrimEnd(SubSeq(v, 1, Max(gaps) - 1)), NumberOf(last))
  BY <1>1, <1>2 DEF ValueAndTtl
<1>6. \A why : Rejected(why).op = "rejected"
  BY DEF Rejected
<1>7. /\ v # <<>>
      /\ \/ ValueAndTtl(k, v) = SetOf(k, v, Never)
         \/ gaps # {} /\ ValueAndTtl(k, v)
                            = SetOf(k, TrimEnd(SubSeq(v, 1, Max(gaps) - 1)), NumberOf(last))
  BY <1>5, <1>6
<1>8. \A val, ttl : /\ SetOf(k, val, ttl).op = "set" /\ SetOf(k, val, ttl).key = k
                    /\ SetOf(k, val, ttl).value = val
  BY DEF SetOf
<1> QED
  BY <1>4, <1>7, <1>8

LEMMA ParseAccepts ==
  ASSUME NEW s \in Text, Parse(s).op \in {"set", "del"}
  PROVE  /\ LegalKey(Parse(s).key)
         /\ Parse(s).op = "set" => Parse(s).value \in Text
<1>1. PICK w : w = TakeWord(Trim(s))
  OBVIOUS
<1>2. PICK x : x = TakeWord(w.rest)
  OBVIOUS
<1>3. /\ x.word \in Text /\ x.rest \in Text
      /\ \A i \in 1 .. Len(x.word) : x.word[i] \notin White
  BY <1>1, <1>2, TrimIsText, TakeWordCuts
<1>4. \A op \in {"list", "status", "ping", "exit"} :
        NoArgument(op, w.rest).op \notin {"set", "del"}
  BY DEF NoArgument, Rejected
<1>5. ParseOneKey("get", w.rest).op \notin {"set", "del"}
  BY DEF ParseOneKey, Rejected
<1>6. \A why : Rejected(why).op \notin {"set", "del"}
  BY DEF Rejected
<1>7. Parse(s) \in {ParseSet(w.rest), ParseOneKey("del", w.rest)}
  BY <1>1, <1>4, <1>5, <1>6 DEF Parse
<1>8. CASE Parse(s) = ParseSet(w.rest)
  <2>1. ParseSet(w.rest) = IF x.word = <<>> THEN Rejected("missing")
                           ELSE ValueAndTtl(x.word, Trim(x.rest))
    BY <1>2 DEF ParseSet
  <2>2. x.word # <<>> /\ Parse(s) = ValueAndTtl(x.word, Trim(x.rest))
    BY <1>6, <1>8, <2>1
  <2>3. Trim(x.rest) \in Text
    BY <1>3, TrimIsText
  <2>4. ValueAndTtl(x.word, Trim(x.rest)).op # "rejected"
    BY <2>2
  <2> QED
    BY <1>3, <2>2, <2>3, <2>4, ValueAndTtlAccepts DEF LegalKey
<1>9. CASE Parse(s) = ParseOneKey("del", w.rest)
  <2>1. x.word # <<>> /\ Parse(s) = [op |-> "del", key |-> x.word]
    BY <1>2, <1>6, <1>9 DEF ParseOneKey
  <2> QED
    BY <1>3, <2>1 DEF LegalKey
<1> QED
  BY <1>7, <1>8, <1>9

(* Everything that can be typed is a text. *)
Typed == line \in Text

LEMMA TypedIsText == Spec => []Typed
<1>1. Init => Typed
  BY DEF Init, Text, Typed
<1>2. Typed /\ [Next]_line => Typed'
  BY ParserAssumption DEF Next, Type, Text, Typed
<1> QED
  BY <1>1, <1>2, PTL DEF Spec

(* Whatever SET or DEL the parser lets through, for a line of any length,  *)
(* its record is read back from the log as it was written, and with a key  *)
(* the store accepts: recover never refuses a record of an accepted        *)
(* command.                                                                *)
THEOREM AcceptedReplays == Spec => []RecordsReplay
<1>1. Typed => RecordsReplay
  <2> SUFFICES ASSUME line \in Text, Parse(line).op \in {"set", "del"}
               PROVE  LET r == Parse(line)
                          record == IF r.op = "set" THEN SetRecord(r.key, r.value)
                                                    ELSE DelRecord(r.key)
                      IN  FromLine[ToLine(record)] = record /\ StoreAccepts(r.key)
    BY DEF RecordsReplay, Typed
  <2>1. PICK r : r = Parse(line)
    OBVIOUS
  <2>2. LegalKey(r.key) /\ (r.op = "set" => r.value \in Text)
    BY <2>1, ParseAccepts
  <2>3. r.key \in Text /\ r.key # <<>> /\ Clean(r.key)
    BY <2>2 DEF LegalKey, Clean, White
  <2>4. StoreAccepts(r.key)
    BY <2>2, TextIsSeq DEF LegalKey, StoreAccepts, Blacks
  <2> QED
    BY <2>1, <2>2, <2>3, <2>4, SetReadsBack, DelReadsBack
<1> QED
  BY <1>1, TypedIsText, PTL

(* A line that the client has parsed with its line end and let through is  *)
(* parsed by the server as the same command, which measures and parses it  *)
(* without (run_tcp_repl, handle_connection).                              *)
THEOREM ServerReadsTheSame == Spec => []ServerAgrees
<1>1. Typed => ServerAgrees
  <2> SUFFICES ASSUME line \in Text, ClientParse(line).op # "rejected"
               PROVE  ServerParse(line) = ClientParse(line)
    BY DEF ServerAgrees, Typed
  <2>1. PICK x : x = Append(line, NL)
    OBVIOUS
  <2>2. ClientParse(line) = Parse(x) /\ ServerParse(line) = Parse(TrimEnd(x))
    BY <2>1 DEF ClientParse, ServerParse
  <2>3. x \in Text
    BY <2>1, ParserAssumption DEF White, Text
  <2>4. Trim(TrimEnd(x)) = Trim(x)
    BY <2>3, TrimEndTwice DEF Trim
  <2>5. ~(Len(x) > MaxLen)
    <3>1. Len(x) > MaxLen => Parse(x) = Rejected("too long")
      BY DEF Parse
    <3>2. Rejected("too long").op = "rejected"
      BY DEF Rejected
    <3> QED
      BY <2>2, <3>1, <3>2
  <2>6. ~(Len(TrimEnd(x)) > MaxLen)
    <3>1. /\ Len(TrimEnd(x)) <= Len(x)
          /\ Len(TrimEnd(x)) \in Nat /\ Len(x) \in Nat /\ MaxLen \in Nat
      BY <2>3, TrimEndCuts, TextIsSeq, ParserAssumption
    <3> QED
      BY <2>5, <3>1
  <2>7. Parse(TrimEnd(x)) = Parse(x)
    BY <2>4, <2>5, <2>6 DEF Parse
  <2> QED
    BY <2>2, <2>7
<1> QED
  BY <1>1, TypedIsText, PTL

-----------------------------------------------------------------------------
(* Parts of a line: what trimming and taking a word make of the part of s  *)
(* from m to n is again such a part.                                       *)
LEMMA PartOfPart ==
  ASSUME NEW s \in Text, NEW m \in 1 .. Len(s) + 1, NEW n \in m - 1 .. Len(s),
         NEW a \in 1 .. n - m + 2, NEW b \in a - 1 .. n - m + 1
  PROVE  SubSeq(SubSeq(s, m, n), a, b) = SubSeq(s, m + a - 1, m + b - 1)
<1> DEFINE u == SubSeq(s, m, n)
<1>0. Len(s) \in Nat /\ m \in Int /\ n \in Int /\ a \in Int /\ b \in Int
  BY TextIsSeq
<1>1. u \in Text /\ Len(u) = n - m + 1 /\ \A i \in 1 .. n - m + 1 : u[i] = s[m + i - 1]
  BY PartOf
<1> HIDE DEF u
<1>2. a \in 1 .. Len(u) + 1 /\ b \in a - 1 .. Len(u)
  BY <1>0, <1>1
<1>3. /\ SubSeq(u, a, b) \in Text /\ Len(SubSeq(u, a, b)) = b - a + 1
      /\ \A i \in 1 .. b - a + 1 : SubSeq(u, a, b)[i] = u[a + i - 1]
  BY <1>1, <1>2, PartOf
<1>4. PICK m2, n2 : m2 = m + a - 1 /\ n2 = m + b - 1
  OBVIOUS
<1>5. m2 \in 1 .. Len(s) + 1 /\ n2 \in m2 - 1 .. Len(s) /\ n2 - m2 + 1 = b - a + 1
  BY <1>0, <1>4
<1>6. /\ SubSeq(s, m2, n2) \in Text /\ Len(SubSeq(s, m2, n2)) = n2 - m2 + 1
      /\ \A i \in 1 .. n2 - m2 + 1 : SubSeq(s, m2, n2)[i] = s[m2 + i - 1]
  BY <1>5, PartOf
<1>7. \A i \in 1 .. b - a + 1 : SubSeq(u, a, b)[i] = SubSeq(s, m2, n2)[i]
  <2> SUFFICES ASSUME NEW i \in 1 .. b - a + 1
               PROVE  SubSeq(u, a, b)[i] = SubSeq(s, m2, n2)[i]
    OBVIOUS
  <2>1. a + i - 1 \in 1 .. n - m + 1 /\ m + (a + i - 1) - 1 = m2 + i - 1
    BY <1>0, <1>4
  <2>2. u[a + i - 1] = s[m2 + i - 1]
    BY <1>1, <2>1
  <2> QED
    BY <1>3, <1>5, <1>6, <2>2
<1>8. SubSeq(u, a, b) = SubSeq(s, m2, n2)
  BY <1>3, <1>5, <1>6, <1>7, SeqEqual DEF Text
<1> QED
  BY <1>4, <1>8 DEF u

LEMMA BlacksOfPart ==
  ASSUME NEW s \in Text, NEW m \in 1 .. Len(s) + 1, NEW n \in m - 1 .. Len(s), NEW i
  PROVE  /\ SubSeq(s, m, n) \in Text /\ Len(SubSeq(s, m, n)) = n - m + 1
         /\ i \in Blacks(SubSeq(s, m, n))
              <=> i \in 1 .. n - m + 1 /\ s[m + i - 1] \notin White
<1> DEFINE u == SubSeq(s, m, n)
<1>1. u \in Text /\ Len(u) = n - m + 1 /\ \A j \in 1 .. n - m + 1 : u[j] = s[m + j - 1]
  BY PartOf
<1> HIDE DEF u
<1>2. DOMAIN u = 1 .. n - m + 1
  BY <1>1, TextIsSeq
<1>3. i \in Blacks(u) <=> i \in 1 .. n - m + 1 /\ s[m + i - 1] \notin White
  BY <1>1, <1>2 DEF Blacks
<1> QED
  BY <1>1, <1>3 DEF u

LEMMA PartTrimStart ==
  ASSUME NEW s \in Text, NEW m \in 1 .. Len(s) + 1, NEW n \in m - 1 .. Len(s),
         NEW b \in m .. n, s[b] \notin White, \A i \in m .. b - 1 : s[i] \in White
  PROVE  TrimStart(SubSeq(s, m, n)) = SubSeq(s, b, n)
<1> DEFINE u == SubSeq(s, m, n)
<1>0. Len(s) \in Nat /\ m \in Int /\ n \in Int /\ b \in Int
  BY TextIsSeq
<1>1. u \in Text /\ Len(u) = n - m + 1
  BY BlacksOfPart
<1>2. \A i : i \in Blacks(u) <=> i \in 1 .. n - m + 1 /\ s[m + i - 1] \notin White
  BY BlacksOfPart
<1> HIDE DEF u
<1>3. PICK a : a = b - m + 1
  OBVIOUS
<1>4. a \in 1 .. n - m + 1 /\ m + a - 1 = b /\ m + (n - m + 1) - 1 = n
  BY <1>0, <1>3
<1>5. a \in Blacks(u)
  BY <1>2, <1>4
<1>6. \A i \in Blacks(u) : a <= i
  <2> SUFFICES ASSUME NEW i \in 1 .. n - m + 1, s[m + i - 1] \notin White, i < a
               PROVE  FALSE
    BY <1>0, <1>2, <1>4
  <2>1. m + i - 1 \in m .. b - 1
    BY <1>0, <1>3
  <2> QED
    BY <2>1
<1>7. Blacks(u) \in SUBSET Nat /\ Blacks(u) # {}
  BY <1>1, <1>5, TextIsSeq
<1>8. Min(Blacks(u)) = a
  BY <1>4, <1>5, <1>6, <1>7, SmallestNumber
<1>9. TrimStart(u) = SubSeq(u, a, n - m + 1)
  BY <1>1, <1>7, <1>8 DEF TrimStart
<1>10. a \in 1 .. n - m + 2 /\ n - m + 1 \in a - 1 .. n - m + 1
  BY <1>0, <1>4
<1>11. SubSeq(SubSeq(s, m, n), a, n - m + 1) = SubSeq(s, m + a - 1, m + (n - m + 1) - 1)
  BY <1>10, PartOfPart
<1> QED
  BY <1>4, <1>9, <1>11 DEF u

LEMMA PartTrimEnd ==
  ASSUME NEW s \in Text, NEW m \in 1 .. Len(s) + 1, NEW n \in m - 1 .. Len(s),
         NEW e \in m .. n, s[e] \notin White, \A i \in e + 1 .. n : s[i] \in White
  PROVE  TrimEnd(SubSeq(s, m, n)) = SubSeq(s, m, e)
<1> DEFINE u == SubSeq(s, m, n)
<1>0. Len(s) \in Nat /\ m \in Int /\ n \in Int /\ e \in Int
  BY TextIsSeq
<1>1. u \in Text /\ Len(u) = n - m + 1
  BY BlacksOfPart
<1>2. \A i : i \in Blacks(u) <=> i \in 1 .. n - m + 1 /\ s[m + i - 1] \notin White
  BY BlacksOfPart
<1> HIDE DEF u
<1>3. PICK a : a = e - m + 1
  OBVIOUS
<1>4. a \in 1 .. n - m + 1 /\ m + a - 1 = e /\ m + 1 - 1 = m
  BY <1>0, <1>3
<1>5. a \in Blacks(u)
  BY <1>2, <1>4
<1>6. \A i \in Blacks(u) : a >= i
  <2> SUFFICES ASSUME NEW i \in 1 .. n - m + 1, s[m + i - 1] \notin White, i > a
               PROVE  FALSE
    BY <1>0, <1>2, <1>4
  <2>1. m + i - 1 \in e + 1 .. n
    BY <1>0, <1>3
  <2> QED
    BY <2>1
<1>7. Blacks(u) \in SUBSET (1 .. n - m + 1) /\ Blacks(u) # {} /\ n - m + 1 \in Nat
  BY <1>0, <1>1, <1>5, TextIsSeq
<1>8. Max(Blacks(u)) = a
  <2>1. Max(Blacks(u)) \in Blacks(u) /\ \A i \in Blacks(u) : Max(Blacks(u)) >= i
    BY <1>7, GreatestNumber
  <2> QED
    BY <1>0, <1>4, <1>5, <1>6, <1>7, <2>1
<1>9. TrimEnd(u) = SubSeq(u, 1, a)
  BY <1>1, <1>7, <1>8 DEF TrimEnd
<1>10. 1 \in 1 .. n - m + 2 /\ a \in 1 - 1 .. n - m + 1
  BY <1>0, <1>4
<1>11. SubSeq(SubSeq(s, m, n), 1, a) = SubSeq(s, m + 1 - 1, m + a - 1)
  BY <1>10, PartOfPart
<1> QED
  BY <1>4, <1>9, <1>11 DEF u

LEMMA PartAllWhite ==
  ASSUME NEW s \in Text, NEW m \in 1 .. Len(s) + 1, NEW n \in m - 1 .. Len(s),
         \A i \in m .. n : s[i] \in White
  PROVE  /\ TrimStart(SubSeq(s, m, n)) = <<>> /\ Trim(SubSeq(s, m, n)) = <<>>
         /\ TakeWord(SubSeq(s, m, n)).word = <<>>
<1> DEFINE u == SubSeq(s, m, n)
<1>0. Len(s) \in Nat /\ m \in Int /\ n \in Int
  BY TextIsSeq
<1>1. \A i : i \in Blacks(u) <=> i \in 1 .. n - m + 1 /\ s[m + i - 1] \notin White
  BY BlacksOfPart
<1> HIDE DEF u
<1>2. \A i \in 1 .. n - m + 1 : m + i - 1 \in m .. n
  BY <1>0
<1>3. Blacks(u) = {}
  BY <1>1, <1>2
<1>4. TrimStart(u) = <<>> /\ TrimEnd(u) = <<>>
  BY <1>3 DEF TrimStart, TrimEnd
<1>5. Blacks(<<>>) = {} /\ <<>> \in Text /\ Len(<<>>) = 0
  BY DEF Blacks, Text
<1>6. Trim(u) = <<>>
  BY <1>4, <1>5 DEF Trim, TrimStart
<1>7. WordLen(<<>>) = 0
  BY <1>5, WordLenCuts
<1>8. SubSeq(<<>>, 1, 0) = <<>>
  OBVIOUS
<1>9. TakeWord(u).word = <<>>
  BY <1>4, <1>7, <1>8 DEF TakeWord
<1> QED
  BY <1>4, <1>6, <1>9 DEF u

LEMMA PartTrim ==
  ASSUME NEW s \in Text, NEW m \in 1 .. Len(s) + 1, NEW n \in m - 1 .. Len(s),
         NEW b \in m .. n, s[b] \notin White, \A i \in m .. b - 1 : s[i] \in White,
         NEW e \in b .. n, s[e] \notin White, \A i \in e + 1 .. n : s[i] \in White
  PROVE  Trim(SubSeq(s, m, n)) = SubSeq(s, b, e)
<1>0. Len(s) \in Nat /\ m \in Int /\ n \in Int /\ b \in Int /\ e \in Int
  BY TextIsSeq
<1>1. e \in m .. n /\ e \in m - 1 .. Len(s) /\ b \in m .. e
  BY <1>0
<1>2. TrimEnd(SubSeq(s, m, n)) = SubSeq(s, m, e)
  BY <1>1, PartTrimEnd
<1>3. TrimStart(SubSeq(s, m, e)) = SubSeq(s, b, e)
  BY <1>1, PartTrimStart
<1> QED
  BY <1>2, <1>3 DEF Trim

LEMMA PartTakeWord ==
  ASSUME NEW s \in Text, NEW m \in 1 .. Len(s) + 1, NEW n \in m - 1 .. Len(s),
         NEW b \in m .. n, \A i \in m .. b - 1 : s[i] \in White,
         NEW e \in b .. n, \A i \in b .. e : s[i] \notin White,
         e < n => s[e + 1] \in White
  PROVE  /\ TakeWord(SubSeq(s, m, n)).word = SubSeq(s, b, e)
         /\ TakeWord(SubSeq(s, m, n)).rest = SubSeq(s, e + 1, n)
<1>0. Len(s) \in Nat /\ m \in Int /\ n \in Int /\ b \in Int /\ e \in Int
  BY TextIsSeq
<1>1. PICK t : t = SubSeq(s, b, n)
  OBVIOUS
<1>2. s[b] \notin White /\ TrimStart(SubSeq(s, m, n)) = t
  BY <1>0, <1>1, PartTrimStart
<1>3. b \in 1 .. Len(s) + 1 /\ n \in b - 1 .. Len(s)
  BY <1>0
<1>4. /\ t \in Text /\ Len(t) = n - b + 1
      /\ \A i \in 1 .. n - b + 1 : t[i] = s[b + i - 1]
  BY <1>1, <1>3, PartOf
<1>5. PICK k : k = WordLen(t)
  OBVIOUS
<1>6. /\ k \in 0 .. n - b + 1
      /\ \A i \in 1 .. k : t[i] \notin White
      /\ k < n - b + 1 => t[k + 1] \in White
  BY <1>4, <1>5, WordLenCuts
<1>7. ~(k < e - b + 1)
  <2> SUFFICES ASSUME k < e - b + 1 PROVE FALSE
    OBVIOUS
  <2>1. k < n - b + 1 /\ k + 1 \in 1 .. n - b + 1 /\ b + (k + 1) - 1 = b + k
        /\ b + k \in b .. e
    BY <1>0, <1>6
  <2>2. t[k + 1] = s[b + k]
    BY <1>4, <2>1
  <2> QED
    BY <1>6, <2>1, <2>2
<1>8. ~(k > e - b + 1)
  <2> SUFFICES ASSUME k > e - b + 1 PROVE FALSE
    OBVIOUS
  <2>0. k \in Int /\ k <= n - b + 1 /\ b <= e
    BY <1>0, <1>6
  <2>1. e < n /\ e - b + 2 \in 1 .. k /\ e - b + 2 \in 1 .. n - b + 1
        /\ b + (e - b + 2) - 1 = e + 1
    BY <1>0, <2>0
  <2>2. t[e - b + 2] = s[e + 1]
    BY <1>4, <2>1
  <2> QED
    BY <1>6, <2>1, <2>2
<1>9. k = e - b + 1
  BY <1>0, <1>6, <1>7, <1>8
<1>10. SubSeq(SubSeq(s, b, n), 1, k) = SubSeq(s, b + 1 - 1, b + k - 1)
  <2>1. 1 \in 1 .. n - b + 2 /\ k \in 1 - 1 .. n - b + 1
    BY <1>0, <1>9
  <2> QED
    BY <1>3, <2>1, PartOfPart
<1>11. SubSeq(SubSeq(s, b, n), k + 1, n - b + 1)
         = SubSeq(s, b + (k + 1) - 1, b + (n - b + 1) - 1)
  <2>1. k + 1 \in 1 .. n - b + 2 /\ n - b + 1 \in (k + 1) - 1 .. n - b + 1
    BY <1>0, <1>9
  <2> QED
    BY <1>3, <2>1, PartOfPart
<1>12. /\ b + 1 - 1 = b /\ b + k - 1 = e /\ b + (k + 1) - 1 = e + 1
       /\ b + (n - b + 1) - 1 = n
  BY <1>0, <1>9
<1>13. SubSeq(t, 1, k) = SubSeq(s, b, e) /\ SubSeq(t, k + 1, Len(t)) = SubSeq(s, e + 1, n)
  BY <1>1, <1>4, <1>10, <1>11, <1>12
<1> QED
  BY <1>2, <1>5, <1>13 DEF TakeWord

-----------------------------------------------------------------------------
(* The words of a line.  A word begins and ends once, so that there are as *)
(* many beginnings as ends.                                                *)
IsWord(s, b, e) ==
  b \in Starts(s) /\ e \in Ends(s) /\ b <= e /\ \A i \in b .. e : s[i] \notin White

LEMMA StartsAndEnds ==
  ASSUME NEW s \in Text
  PROVE  /\ Starts(s) \in SUBSET (1 .. Len(s)) /\ Ends(s) \in SUBSET (1 .. Len(s))
         /\ IsFiniteSet(Starts(s)) /\ IsFiniteSet(Ends(s))
         /\ \A i : i \in Starts(s) <=> /\ i \in 1 .. Len(s) /\ s[i] \notin White
                                       /\ i = 1 \/ s[i - 1] \in White
         /\ \A i : i \in Ends(s) <=> /\ i \in 1 .. Len(s) /\ s[i] \notin White
                                     /\ i = Len(s) \/ s[i + 1] \in White
<1>1. Len(s) \in Nat /\ DOMAIN s = 1 .. Len(s)
  BY TextIsSeq
<1>2. \A i : i \in Blacks(s) <=> i \in 1 .. Len(s) /\ s[i] \notin White
  BY <1>1 DEF Blacks
<1>3. Starts(s) \in SUBSET (1 .. Len(s)) /\ Ends(s) \in SUBSET (1 .. Len(s))
  BY <1>2 DEF Starts, Ends
<1>4. IsFiniteSet(Starts(s)) /\ IsFiniteSet(Ends(s))
  <2>1. 1 \in Int /\ Len(s) \in Int
    BY <1>1
  <2>2. IsFiniteSet(1 .. Len(s))
    BY <2>1, FS_Interval
  <2> QED
    BY <1>3, <2>2, FS_Subset
<1> QED
  BY <1>2, <1>3, <1>4 DEF Starts, Ends

LEMMA WordFrom ==
  ASSUME NEW s \in Text, NEW b \in Starts(s)
  PROVE  \E e \in Ends(s) : IsWord(s, b, e)
<1> DEFINE upto == {j \in b .. Len(s) : \A i \in b .. j : s[i] \notin White}
<1>0. Len(s) \in Nat /\ b \in 1 .. Len(s) /\ s[b] \notin White
  BY TextIsSeq, StartsAndEnds
<1>1. b \in upto
  BY <1>0
<1>2. upto \in SUBSET (1 .. Len(s))
  BY <1>0
<1>3. \A j : j \in upto <=> j \in b .. Len(s) /\ \A i \in b .. j : s[i] \notin White
  OBVIOUS
<1> HIDE DEF upto
<1>4. PICK e : e = Max(upto)
  OBVIOUS
<1>5. e \in upto /\ \A j \in upto : e >= j
  BY <1>0, <1>1, <1>2, <1>4, GreatestNumber
<1>6. e \in b .. Len(s) /\ \A i \in b .. e : s[i] \notin White
  BY <1>3, <1>5
<1>7. e = Len(s) \/ s[e + 1] \in White
  <2> SUFFICES ASSUME e # Len(s), s[e + 1] \notin White PROVE FALSE
    OBVIOUS
  <2>1. e + 1 \in b .. Len(s) /\ \A i \in b .. e + 1 : i \in b .. e \/ i = e + 1
    BY <1>0, <1>6
  <2>2. e + 1 \in upto
    BY <1>3, <1>6, <2>1
  <2> QED
    BY <1>0, <1>5, <1>6, <2>2
<1>8. e \in Ends(s)
  <2>1. e \in 1 .. Len(s) /\ s[e] \notin White
    BY <1>0, <1>6
  <2> QED
    BY <1>7, <2>1, StartsAndEnds
<1> QED
  BY <1>0, <1>6, <1>8 DEF IsWord

LEMMA WordTo ==
  ASSUME NEW s \in Text, NEW e \in Ends(s)
  PROVE  \E b \in Starts(s) : IsWord(s, b, e)
<1> DEFINE from == {j \in 1 .. e : \A i \in j .. e : s[i] \notin White}
<1>0. Len(s) \in Nat /\ e \in 1 .. Len(s) /\ s[e] \notin White
  BY TextIsSeq, StartsAndEnds
<1>1. e \in from /\ from \in SUBSET Nat
  BY <1>0
<1>3. \A j : j \in from <=> j \in 1 .. e /\ \A i \in j .. e : s[i] \notin White
  OBVIOUS
<1> HIDE DEF from
<1>4. PICK b : b = Min(from)
  OBVIOUS
<1>5. b \in from /\ \A j \in from : b <= j
  BY <1>1, <1>4, SmallestNumber
<1>6. b \in 1 .. e /\ \A i \in b .. e : s[i] \notin White
  BY <1>3, <1>5
<1>7. b = 1 \/ s[b - 1] \in White
  <2> SUFFICES ASSUME b # 1, s[b - 1] \notin White PROVE FALSE
    OBVIOUS
  <2>1. b - 1 \in 1 .. e /\ \A i \in b - 1 .. e : i \in b .. e \/ i = b - 1
    BY <1>0, <1>6
  <2>2. b - 1 \in from
    BY <1>3, <1>6, <2>1
  <2> QED
    BY <1>0, <1>5, <1>6, <2>2
<1>8. b \in Starts(s)
  <2>1. b \in 1 .. Len(s) /\ s[b] \notin White
    BY <1>0, <1>6
  <2> QED
    BY <1>7, <2>1, StartsAndEnds
<1> QED
  BY <1>0, <1>6, <1>8 DEF IsWord

LEMMA WordsApart ==
  ASSUME NEW s \in Text, NEW b, NEW e, IsWord(s, b, e)
  PROVE  /\ b \in 1 .. Len(s) /\ e \in b .. Len(s) /\ Len(s) \in Nat
         /\ \A i \in b .. e : s[i] \notin White
         /\ \A i \in Starts(s) : i \in b .. e => i = b
         /\ \A i \in Ends(s) : i \in b .. e => i = e
         /\ e < Len(s) => s[e + 1] \in White
<1>0. /\ Len(s) \in Nat /\ b \in 1 .. Len(s) /\ e \in b .. Len(s)
      /\ \A i \in b .. e : s[i] \notin White
      /\ e = Len(s) \/ s[e + 1] \in White
  BY TextIsSeq, StartsAndEnds DEF IsWord
<1>1. ASSUME NEW i \in Starts(s), i \in b .. e, i # b PROVE FALSE
  <2>1. i - 1 \in b .. e /\ i # 1
    BY <1>0, <1>1
  <2> QED
    BY <1>0, <1>1, <2>1, StartsAndEnds
<1>2. ASSUME NEW i \in Ends(s), i \in b .. e, i # e PROVE FALSE
  <2>1. i + 1 \in b .. e /\ i # Len(s)
    BY <1>0, <1>2
  <2> QED
    BY <1>0, <1>2, <2>1, StartsAndEnds
<1> QED
  BY <1>0, <1>1, <1>2

LEMMA AsManyEnds ==
  ASSUME NEW s \in Text
  PROVE  /\ Cardinality(Ends(s)) = Cardinality(Starts(s))
         /\ Cardinality(Starts(s)) \in Nat
<1> DEFINE f == [b \in Starts(s) |-> CHOOSE e \in Ends(s) : IsWord(s, b, e)]
<1>1. \A b \in Starts(s) : f[b] \in Ends(s) /\ IsWord(s, b, f[b])
  BY WordFrom
<1>2. f \in [Starts(s) -> Ends(s)]
  BY <1>1
<1> HIDE DEF f
<1>3. ASSUME NEW b1 \in Starts(s), NEW b2 \in Starts(s), f[b1] = f[b2] PROVE b1 = b2
  <2>1. /\ b1 \in 1 .. Len(s) /\ b2 \in 1 .. Len(s) /\ Len(s) \in Nat
        /\ f[b1] \in b1 .. Len(s) /\ f[b2] \in b2 .. Len(s)
    BY <1>1, WordsApart
  <2>2. b1 \in b2 .. f[b2] \/ b2 \in b1 .. f[b1]
    BY <1>3, <2>1
  <2> QED
    BY <1>1, <2>2, WordsApart
<1>4. ASSUME NEW e \in Ends(s) PROVE \E b \in Starts(s) : f[b] = e
  <2>1. PICK b \in Starts(s) : IsWord(s, b, e)
    BY WordTo
  <2>2. /\ b \in 1 .. Len(s) /\ Len(s) \in Nat
        /\ f[b] \in b .. Len(s) /\ e \in b .. Len(s) /\ f[b] \in Ends(s)
    BY <1>1, <2>1, WordsApart
  <2>3. f[b] \in b .. e \/ e \in b .. f[b]
    BY <2>2
  <2>4. f[b] = e
    BY <1>1, <2>1, <2>2, <2>3, WordsApart
  <2> QED
    BY <2>4
<1>5. f \in Bijection(Starts(s), Ends(s))
  BY <1>2, <1>3, <1>4 DEF Bijection, Injection, Surjection, IsInjective
<1>6. ExistsBijection(Starts(s), Ends(s))
  BY <1>5 DEF ExistsBijection
<1> QED
  BY <1>6, StartsAndEnds, FS_Bijection, FS_CardinalityType

(* Which one is the n-th of a set of numbers. *)
LEMMA NthIs ==
  ASSUME NEW S \in SUBSET Nat, IsFiniteSet(S), NEW x \in S, NEW n,
         Cardinality({j \in S : j <= x}) = n
  PROVE  Nth(S, n) = x
<1> DEFINE upto(i) == {j \in S : j <= i}
<1>1. \A i : IsFiniteSet(upto(i)) /\ Cardinality(upto(i)) \in Nat
  BY FS_Subset, FS_CardinalityType
<1>2. ASSUME NEW i \in S, NEW k \in S, i < k, Cardinality(upto(i)) = Cardinality(upto(k))
      PROVE  FALSE
  <2>0. i \in Nat /\ k \in Nat
    OBVIOUS
  <2>1. k \in upto(k) /\ k \notin upto(i)
    BY <1>2, <2>0
  <2>2. \A j \in upto(i) : j \in upto(k)
    <3> SUFFICES ASSUME NEW j \in S, j <= i PROVE j <= k
      OBVIOUS
    <3> QED
      BY <1>2, <2>0
  <2>3. upto(i) \in SUBSET upto(k)
    BY <2>2
  <2> HIDE DEF upto
  <2> QED
    BY <1>1, <1>2, <2>1, <2>3, FS_Subset
<1>3. \A i \in S : Cardinality(upto(i)) = n => i = x
  <2> SUFFICES ASSUME NEW i \in S, Cardinality(upto(i)) = n, i # x PROVE FALSE
    OBVIOUS
  <2>1. i < x \/ x < i
    OBVIOUS
  <2> QED
    BY <1>2, <2>1
<1> QED
  BY <1>3 DEF Nth

-----------------------------------------------------------------------------
(* Word after word.  The beginnings and ends up to a position: each word   *)
(* adds one.                                                               *)
StartsTo(s, i) == {j \in Starts(s) : j <= i}
EndsTo(s, i)   == {j \in Ends(s) : j <= i}
LastAt(s)      == Max(Blacks(s))
Words(s, a, b) == SubSeq(s, Nth(Starts(s), a), Nth(Ends(s), b))

(* (b, e) is the first word of s from m on. *)
NextWord(s, m, b, e) == IsWord(s, b, e) /\ m <= b /\ \A i \in m .. b - 1 : s[i] \in White

LEMMA SomeNextWord ==
  ASSUME NEW s \in Text, NEW m \in 1 .. Len(s), m = 1 \/ m - 1 \in Ends(s),
         NEW k \in m .. Len(s), s[k] \notin White
  PROVE  \E b, e : NextWord(s, m, b, e)
<1> DEFINE later == {j \in m .. Len(s) : s[j] \notin White}
<1>0. Len(s) \in Nat /\ m \in Nat /\ m >= 1
  BY TextIsSeq
<1>1. later \in SUBSET Nat /\ k \in later
  BY <1>0
<1>2. \A j : j \in later <=> j \in m .. Len(s) /\ s[j] \notin White
  OBVIOUS
<1> HIDE DEF later
<1>3. PICK b : b \in later /\ \A j \in later : b <= j
  BY <1>1, SmallestNumber
<1>4. b \in m .. Len(s) /\ s[b] \notin White
  BY <1>2, <1>3
<1>5. ASSUME NEW i \in m .. b - 1, s[i] \notin White PROVE FALSE
  <2>1. i \in m .. Len(s) /\ ~(b <= i)
    BY <1>0, <1>4
  <2> QED
    BY <1>2, <1>3, <1>5, <2>1
<1>6. b = 1 \/ s[b - 1] \in White
  <2>1. CASE b = m
    <3>1. m # 1 => m - 1 \in 1 .. Len(s) /\ m - 1 # Len(s) /\ m - 1 + 1 = m
      BY <1>0, <1>4
    <3>2. m # 1 => s[m - 1 + 1] \in White
      BY <3>1, StartsAndEnds
    <3> QED
      BY <1>4, <2>1, <3>1, <3>2
  <2>2. CASE b # m
    <3>1. b - 1 \in m .. b - 1
      BY <1>0, <1>4, <2>2
    <3> QED
      BY <1>5, <3>1
  <2> QED
    BY <2>1, <2>2
<1>7. b \in Starts(s)
  <2>1. b \in 1 .. Len(s)
    BY <1>0, <1>4
  <2> QED
    BY <1>4, <1>6, <2>1, StartsAndEnds
<1>8. PICK e : IsWord(s, b, e)
  BY <1>7, WordFrom
<1>9. m <= b
  BY <1>0, <1>4
<1> QED
  BY <1>5, <1>8, <1>9 DEF NextWord

LEMMA WordAdds ==
  ASSUME NEW s \in Text, NEW m \in Nat \ {0}, NEW b, NEW e, NextWord(s, m, b, e)
  PROVE  /\ StartsTo(s, b) = StartsTo(s, m - 1) \cup {b}
         /\ StartsTo(s, e) = StartsTo(s, m - 1) \cup {b}
         /\ EndsTo(s, e) = EndsTo(s, m - 1) \cup {e}
         /\ b \notin StartsTo(s, m - 1) /\ e \notin EndsTo(s, m - 1)
<1>0. /\ b \in 1 .. Len(s) /\ e \in b .. Len(s) /\ Len(s) \in Nat
      /\ \A i \in Starts(s) : i \in b .. e => i = b
      /\ \A i \in Ends(s) : i \in b .. e => i = e
  BY WordsApart DEF NextWord
<1>1. b \in Starts(s) /\ e \in Ends(s) /\ m <= b /\ \A i \in m .. b - 1 : s[i] \in White
  BY DEF NextWord, IsWord
<1>2. \A i \in Starts(s) \cup Ends(s) : i \in 1 .. Len(s) /\ s[i] \notin White
  BY StartsAndEnds
<1>3. \A i \in Starts(s) \cup Ends(s) : i <= e => i <= m - 1 \/ i \in b .. e
  <2> SUFFICES ASSUME NEW i \in Starts(s) \cup Ends(s), i <= e, ~(i <= m - 1), ~(i \in b .. e)
               PROVE  FALSE
    OBVIOUS
  <2>1. i \in m .. b - 1
    BY <1>0, <1>2
  <2> QED
    BY <1>1, <1>2, <2>1
<1>4. \A i \in Starts(s) : i <= e <=> i <= m - 1 \/ i = b
  BY <1>0, <1>1, <1>2, <1>3
<1>5. \A i \in Starts(s) : i <= b <=> i <= m - 1 \/ i = b
  BY <1>0, <1>1, <1>2, <1>4
<1>6. \A i \in Ends(s) : i <= e <=> i <= m - 1 \/ i = e
  BY <1>0, <1>1, <1>2, <1>3
<1>7. ~(b <= m - 1) /\ ~(e <= m - 1)
  BY <1>0, <1>1
<1> QED
  BY <1>1, <1>4, <1>5, <1>6, <1>7 DEF StartsTo, EndsTo

LEMMA SoManyWords ==
  ASSUME NEW s \in Text, NEW m \in Nat \ {0}, NEW b, NEW e, NextWord(s, m, b, e),
         NEW n \in Nat, Cardinality(StartsTo(s, m - 1)) = n, Cardinality(EndsTo(s, m - 1)) = n
  PROVE  /\ Cardinality(StartsTo(s, e)) = n + 1 /\ Cardinality(EndsTo(s, e)) = n + 1
         /\ Nth(Starts(s), n + 1) = b /\ Nth(Ends(s), n + 1) = e
<1>1. /\ Starts(s) \in SUBSET Nat /\ Ends(s) \in SUBSET Nat
      /\ IsFiniteSet(Starts(s)) /\ IsFiniteSet(Ends(s))
  BY StartsAndEnds, TextIsSeq
<1>2. IsFiniteSet(StartsTo(s, m - 1)) /\ IsFiniteSet(EndsTo(s, m - 1))
  BY <1>1, FS_Subset DEF StartsTo, EndsTo
<1>3. /\ Cardinality(StartsTo(s, m - 1) \cup {b}) = n + 1
      /\ Cardinality(EndsTo(s, m - 1) \cup {e}) = n + 1
  BY <1>2, WordAdds, FS_AddElement
<1>4. /\ Cardinality(StartsTo(s, e)) = n + 1 /\ Cardinality(StartsTo(s, b)) = n + 1
      /\ Cardinality(EndsTo(s, e)) = n + 1
  <2>1. /\ StartsTo(s, b) = StartsTo(s, m - 1) \cup {b}
        /\ StartsTo(s, e) = StartsTo(s, m - 1) \cup {b}
        /\ EndsTo(s, e) = EndsTo(s, m - 1) \cup {e}
    BY WordAdds
  <2> QED
    BY <1>3, <2>1
<1>5. b \in Starts(s) /\ e \in Ends(s)
  BY DEF NextWord, IsWord
<1> QED
  BY <1>1, <1>4, <1>5, NthIs DEF StartsTo, EndsTo

LEMMA LastBlack ==
  ASSUME NEW s \in Text, Blacks(s) # {}
  PROVE  /\ LastAt(s) \in 1 .. Len(s) /\ LastAt(s) \in Ends(s) /\ s[LastAt(s)] \notin White
         /\ \A i \in 1 .. Len(s) : s[i] \notin White => i <= LastAt(s)
         /\ StartsTo(s, LastAt(s)) = Starts(s) /\ EndsTo(s, LastAt(s)) = Ends(s)
         /\ TrimEnd(s) = SubSeq(s, 1, LastAt(s))
<1>1. PICK q : q = LastAt(s)
  OBVIOUS
<1>2. Len(s) \in Nat /\ DOMAIN s = 1 .. Len(s) /\ Blacks(s) \in SUBSET (1 .. Len(s))
  BY TextIsSeq
<1>3. q \in Blacks(s) /\ \A i \in Blacks(s) : q >= i
  BY <1>1, <1>2, GreatestNumber DEF LastAt
<1>4. /\ q \in 1 .. Len(s) /\ s[q] \notin White
      /\ \A i \in 1 .. Len(s) : s[i] \notin White => i <= q
  BY <1>2, <1>3 DEF Blacks
<1>5. q = Len(s) \/ s[q + 1] \in White
  <2>1. PICK l : l = Len(s)
    OBVIOUS
  <2>2. l \in Nat /\ q \in 1 .. l
    BY <1>2, <1>4, <2>1
  <2>3. q = l \/ (q + 1 \in 1 .. l /\ ~(q + 1 <= q))
    BY <2>2
  <2> QED
    BY <1>4, <2>1, <2>3
<1>6. q \in Ends(s)
  BY <1>4, <1>5, StartsAndEnds
<1>7. \A i \in Starts(s) \cup Ends(s) : i <= q
  BY <1>4, StartsAndEnds
<1>8. StartsTo(s, q) = Starts(s) /\ EndsTo(s, q) = Ends(s)
  BY <1>7 DEF StartsTo, EndsTo
<1> QED
  BY <1>1, <1>4, <1>6, <1>8 DEF TrimEnd, LastAt

(* What is left of a line after a word: nothing, or the next word first.   *)
LEMMA NoWordLeft ==
  ASSUME NEW s \in Text, NEW q \in 1 .. Len(s)
  PROVE  /\ Trim(SubSeq(s, q + 1, q)) = <<>>
         /\ TakeWord(SubSeq(s, q + 1, q)).word = <<>>
<1>0. q \in Int /\ Len(s) \in Nat
  BY TextIsSeq
<1>1. PICK m : m = q + 1
  OBVIOUS
<1>2. /\ m \in 1 .. Len(s) + 1 /\ q \in m - 1 .. Len(s)
      /\ \A i \in m .. q : s[i] \in White
  BY <1>0, <1>1
<1>3. Trim(SubSeq(s, m, q)) = <<>> /\ TakeWord(SubSeq(s, m, q)).word = <<>>
  BY <1>2, PartAllWhite
<1> QED
  BY <1>1, <1>3

LEMMA WordTaken ==
  ASSUME NEW s \in Text, Blacks(s) # {}, NEW m \in 1 .. Len(s), NEW b, NEW e,
         NextWord(s, m, b, e)
  PROVE  /\ TakeWord(SubSeq(s, m, LastAt(s))).word = SubSeq(s, b, e)
         /\ TakeWord(SubSeq(s, m, LastAt(s))).rest = SubSeq(s, e + 1, LastAt(s))
         /\ Trim(SubSeq(s, m, LastAt(s))) = SubSeq(s, b, LastAt(s))
         /\ TrimStart(SubSeq(s, m, LastAt(s))) = SubSeq(s, b, LastAt(s))
         /\ SubSeq(s, b, e) # <<>> /\ SubSeq(s, b, LastAt(s)) # <<>>
         /\ b \in m .. LastAt(s) /\ e \in b .. LastAt(s)
<1>1. PICK q : q = LastAt(s)
  OBVIOUS
<1>2. /\ q \in 1 .. Len(s) /\ Len(s) \in Nat /\ s[q] \notin White
      /\ \A i \in 1 .. Len(s) : s[i] \notin White => i <= q
  BY <1>1, LastBlack, TextIsSeq
<1>3. /\ b \in 1 .. Len(s) /\ e \in b .. Len(s)
      /\ \A i \in b .. e : s[i] \notin White
      /\ e < Len(s) => s[e + 1] \in White
      /\ m <= b /\ \A i \in m .. b - 1 : s[i] \in White
  BY WordsApart DEF NextWord
<1>4. e \in 1 .. Len(s) /\ e \in b .. e /\ b \in b .. e
  BY <1>2, <1>3
<1>5. e <= q /\ s[b] \notin White
  BY <1>2, <1>3, <1>4
<1>6. /\ q \in m - 1 .. Len(s) /\ m \in 1 .. Len(s) + 1
      /\ b \in m .. q /\ e \in b .. q /\ q \in b .. q /\ q + 1 .. q = {}
      /\ e < q => e < Len(s)
  BY <1>2, <1>3, <1>5
<1>7. /\ TakeWord(SubSeq(s, m, q)).word = SubSeq(s, b, e)
      /\ TakeWord(SubSeq(s, m, q)).rest = SubSeq(s, e + 1, q)
  <2>1. /\ m \in 1 .. Len(s) + 1 /\ q \in m - 1 .. Len(s)
        /\ b \in m .. q /\ \A i \in m .. b - 1 : s[i] \in White
        /\ e \in b .. q /\ \A i \in b .. e : s[i] \notin White
        /\ e < q => s[e + 1] \in White
    BY <1>3, <1>6
  <2> QED
    BY <2>1, PartTakeWord
<1>8. Trim(SubSeq(s, m, q)) = SubSeq(s, b, q)
  BY <1>2, <1>3, <1>5, <1>6, PartTrim
<1>9. TrimStart(SubSeq(s, m, q)) = SubSeq(s, b, q)
  BY <1>2, <1>3, <1>5, <1>6, PartTrimStart
<1>10. SubSeq(s, b, e) # <<>> /\ SubSeq(s, b, q) # <<>>
  <2>1. b \in 1 .. Len(s) + 1 /\ e \in b - 1 .. Len(s) /\ q \in b - 1 .. Len(s)
    BY <1>2, <1>3, <1>6
  <2>2. Len(SubSeq(s, b, e)) = e - b + 1 /\ Len(SubSeq(s, b, q)) = q - b + 1
    BY <2>1, PartOf
  <2>3. e - b + 1 > 0 /\ q - b + 1 > 0 /\ Len(<<>>) = 0
    BY <1>2, <1>3, <1>6
  <2>4. Len(SubSeq(s, b, e)) # 0 /\ Len(SubSeq(s, b, q)) # 0 /\ Len(<<>>) = 0
    BY <2>2, <2>3
  <2> QED
    BY <2>4, Zenon
<1> QED
  BY <1>1, <1>6, <1>7, <1>8, <1>9, <1>10
LEMMA LastWordIs ==
  ASSUME NEW s \in Text, Blacks(s) # {}
  PROVE  LET n == Cardinality(Starts(s))
         IN  /\ n \in Nat /\ Nth(Ends(s), n) = LastAt(s)
             /\ Cardinality(StartsTo(s, LastAt(s))) = n /\ Cardinality(EndsTo(s, LastAt(s))) = n
<1>1. Ends(s) \in SUBSET Nat /\ IsFiniteSet(Ends(s))
  BY StartsAndEnds, TextIsSeq
<1>2. PICK n : n = Cardinality(Starts(s))
  OBVIOUS
<1>3. /\ n \in Nat /\ Cardinality(StartsTo(s, LastAt(s))) = n
      /\ Cardinality(EndsTo(s, LastAt(s))) = n
  BY <1>2, AsManyEnds, LastBlack
<1>4. LastAt(s) \in Ends(s)
  BY LastBlack
<1>5. Cardinality({j \in Ends(s) : j <= LastAt(s)}) = n
  BY <1>3 DEF EndsTo
<1>6. Nth(Ends(s), n) = LastAt(s)
  BY <1>1, <1>4, <1>5, NthIs
<1> QED
  BY <1>2, <1>3, <1>6

LEMMA FirstTaken ==
  ASSUME NEW s \in Text, Blacks(s) # {}
  PROVE  \E b, e :
           /\ NextWord(s, 1, b, e) /\ e \in Ends(s)
           /\ TakeWord(Trim(s)).word = SubSeq(s, b, e) /\ SubSeq(s, b, e) # <<>>
           /\ TakeWord(Trim(s)).rest = SubSeq(s, e + 1, LastAt(s))
           /\ Words(s, 1, 1) = SubSeq(s, b, e)
           /\ Cardinality(StartsTo(s, e)) = 1 /\ Cardinality(EndsTo(s, e)) = 1
<1>1. /\ LastAt(s) \in 1 .. Len(s) /\ Len(s) \in Nat /\ s[LastAt(s)] \notin White
      /\ TrimEnd(s) = SubSeq(s, 1, LastAt(s))
  BY LastBlack, TextIsSeq
<1>2. 1 \in 1 .. Len(s)
  BY <1>1
<1>3. PICK b, e : NextWord(s, 1, b, e)
  BY <1>1, <1>2, SomeNextWord
<1>4. Trim(s) = SubSeq(s, b, LastAt(s)) /\ b \in 1 .. Len(s)
  <2>1. TrimStart(SubSeq(s, 1, LastAt(s))) = SubSeq(s, b, LastAt(s)) /\ b \in 1 .. LastAt(s)
    BY <1>2, <1>3, WordTaken
  <2> QED
    BY <1>1, <2>1 DEF Trim
<1>5. NextWord(s, b, b, e)
  BY <1>3, <1>4 DEF NextWord
<1>6. /\ TakeWord(Trim(s)).word = SubSeq(s, b, e) /\ SubSeq(s, b, e) # <<>>
      /\ TakeWord(Trim(s)).rest = SubSeq(s, e + 1, LastAt(s))
  BY <1>4, <1>5, WordTaken
<1>7. StartsTo(s, 1 - 1) = {} /\ EndsTo(s, 1 - 1) = {}
  BY StartsAndEnds, TextIsSeq DEF StartsTo, EndsTo
<1>8. /\ Cardinality(StartsTo(s, 1 - 1)) = 0 /\ Cardinality(EndsTo(s, 1 - 1)) = 0
      /\ 0 \in Nat /\ 1 \in Nat \ {0}
  BY <1>7, FS_EmptySet
<1>9. /\ Cardinality(StartsTo(s, e)) = 0 + 1 /\ Cardinality(EndsTo(s, e)) = 0 + 1
      /\ Nth(Starts(s), 0 + 1) = b /\ Nth(Ends(s), 0 + 1) = e
  BY <1>3, <1>8, SoManyWords
<1>10. /\ Cardinality(StartsTo(s, e)) = 1 /\ Cardinality(EndsTo(s, e)) = 1
       /\ Nth(Starts(s), 1) = b /\ Nth(Ends(s), 1) = e
  BY <1>9
<1>11. Words(s, 1, 1) = SubSeq(s, b, e) /\ e \in Ends(s)
  BY <1>3, <1>10 DEF Words, NextWord, IsWord
<1> QED
  BY <1>3, <1>6, <1>10, <1>11

LEMMA NextTaken ==
  ASSUME NEW s \in Text, Blacks(s) # {}, NEW e \in Ends(s), e < LastAt(s),
         NEW n \in Nat, Cardinality(StartsTo(s, e)) = n, Cardinality(EndsTo(s, e)) = n
  PROVE  \E b2, e2 :
           /\ NextWord(s, e + 1, b2, e2) /\ e2 \in Ends(s) /\ e2 <= LastAt(s)
           /\ TakeWord(SubSeq(s, e + 1, LastAt(s))).word = SubSeq(s, b2, e2)
           /\ TakeWord(SubSeq(s, e + 1, LastAt(s))).rest = SubSeq(s, e2 + 1, LastAt(s))
           /\ Trim(SubSeq(s, e + 1, LastAt(s))) = SubSeq(s, b2, LastAt(s))
           /\ SubSeq(s, b2, e2) # <<>> /\ SubSeq(s, b2, LastAt(s)) # <<>>
           /\ Nth(Starts(s), n + 1) = b2 /\ Nth(Ends(s), n + 1) = e2
           /\ Cardinality(StartsTo(s, e2)) = n + 1 /\ Cardinality(EndsTo(s, e2)) = n + 1
<1>1. /\ LastAt(s) \in 1 .. Len(s) /\ Len(s) \in Nat /\ s[LastAt(s)] \notin White
      /\ e \in 1 .. Len(s)
  BY LastBlack, TextIsSeq, StartsAndEnds
<1>2. PICK m : m = e + 1
  OBVIOUS
<1>3. m \in 1 .. Len(s) /\ m - 1 = e /\ LastAt(s) \in m .. Len(s) /\ m \in Nat \ {0}
  BY <1>1, <1>2
<1>4. PICK b2, e2 : NextWord(s, m, b2, e2)
  BY <1>1, <1>3, SomeNextWord
<1>5. /\ TakeWord(SubSeq(s, m, LastAt(s))).word = SubSeq(s, b2, e2)
      /\ TakeWord(SubSeq(s, m, LastAt(s))).rest = SubSeq(s, e2 + 1, LastAt(s))
      /\ Trim(SubSeq(s, m, LastAt(s))) = SubSeq(s, b2, LastAt(s))
      /\ SubSeq(s, b2, e2) # <<>> /\ SubSeq(s, b2, LastAt(s)) # <<>>
      /\ e2 \in b2 .. LastAt(s)
  <2>1. m \in 1 .. Len(s)
    BY <1>3
  <2> QED
    BY <1>4, <2>1, WordTaken
<1>6. Cardinality(StartsTo(s, m - 1)) = n /\ Cardinality(EndsTo(s, m - 1)) = n
  BY <1>3
<1>7. /\ Cardinality(StartsTo(s, e2)) = n + 1 /\ Cardinality(EndsTo(s, e2)) = n + 1
      /\ Nth(Starts(s), n + 1) = b2 /\ Nth(Ends(s), n + 1) = e2
  BY <1>3, <1>4, <1>6, SoManyWords
<1>8. e2 \in Ends(s) /\ e2 <= LastAt(s)
  <2>1. e2 \in Ends(s) /\ e2 \in Int /\ LastAt(s) \in Int
    BY <1>1, <1>4, StartsAndEnds, TextIsSeq DEF NextWord, IsWord
  <2>2. e2 <= LastAt(s)
    BY <1>1, <2>1, LastBlack, StartsAndEnds
  <2> QED
    BY <2>1, <2>2
<1> QED
  BY <1>2, <1>4, <1>5, <1>7, <1>8

(* The last word and the one before it. *)
LEMMA LastTwoWords ==
  ASSUME NEW s \in Text, Blacks(s) # {}, NEW e \in Ends(s), e < LastAt(s)
  PROVE  \E b \in Nat, d \in Ends(s) :
           LET n == Cardinality(Starts(s))
           IN  /\ Words(s, n, n) = SubSeq(s, b, LastAt(s)) /\ Nth(Ends(s), n - 1) = d
               /\ e <= d /\ d < b - 1 /\ b <= LastAt(s)
               /\ \A i \in d + 1 .. b - 1 : s[i] \in White
               /\ \A i \in b .. LastAt(s) : s[i] \notin White
<1>1. PICK q, n : q = LastAt(s) /\ n = Cardinality(Starts(s))
  OBVIOUS
<1>2. /\ q \in 1 .. Len(s) /\ Len(s) \in Nat /\ q \in Ends(s) /\ e \in 1 .. Len(s)
      /\ n \in Nat /\ Nth(Ends(s), n) = q /\ Cardinality(EndsTo(s, q)) = n
      /\ Cardinality(StartsTo(s, q)) = n /\ StartsTo(s, q) = Starts(s)
      /\ EndsTo(s, q) = Ends(s)
  BY <1>1, LastBlack, LastWordIs, TextIsSeq, StartsAndEnds
<1>3. /\ Starts(s) \in SUBSET Nat /\ Ends(s) \in SUBSET Nat
      /\ IsFiniteSet(Starts(s)) /\ IsFiniteSet(Ends(s))
  BY StartsAndEnds, TextIsSeq
<1>4. PICK b \in Starts(s) : IsWord(s, b, q)
  BY <1>2, WordTo
<1>5. /\ b \in 1 .. Len(s) /\ q \in b .. Len(s)
      /\ \A i \in b .. q : s[i] \notin White
      /\ \A i \in Ends(s) : i \in b .. q => i = q
      /\ \A i \in Starts(s) : i \in b .. q => i = b
  BY <1>4, WordsApart
<1>6. e < b /\ e \in Nat
  <2>1. ~(e \in b .. q)
    BY <1>1, <1>5
  <2> QED
    BY <1>1, <1>2, <1>5, <2>1
<1> DEFINE before == {j \in Ends(s) : j < b}
<1>7. before \in SUBSET (1 .. Len(s)) /\ e \in before
  BY <1>6, StartsAndEnds
<1>8. \A j : j \in before <=> j \in Ends(s) /\ j < b
  OBVIOUS
<1> HIDE DEF before
<1>9. PICK d : d \in before /\ \A j \in before : d >= j
  BY <1>2, <1>7, GreatestNumber
<1>10. d \in Ends(s) /\ d < b /\ e <= d /\ d \in 1 .. Len(s) /\ s[d] \notin White
       /\ s[d + 1] \in White /\ d + 1 # b
  <2>1. d \in Ends(s) /\ d < b /\ e <= d /\ d \in 1 .. Len(s)
    BY <1>7, <1>8, <1>9, <1>6
  <2>2. d # Len(s)
    BY <1>2, <1>5, <2>1
  <2>3. s[d] \notin White /\ s[d + 1] \in White
    BY <2>1, <2>2, StartsAndEnds
  <2>4. s[b] \notin White
    BY <1>4, StartsAndEnds
  <2> QED
    BY <2>1, <2>3, <2>4
<1>11. \A i \in d + 1 .. b - 1 : s[i] \in White
  <2> SUFFICES ASSUME NEW i \in d + 1 .. b - 1, s[i] \notin White PROVE FALSE
    OBVIOUS
  <2>1. i \in 1 .. Len(s) /\ i < b /\ d + 1 <= i /\ i \in Int /\ d \in Int
    BY <1>2, <1>5, <1>10
  <2>2. d + 1 \in 1 .. Len(s) + 1 /\ d + 1 <= b - 1
    BY <1>2, <1>5, <1>10, <2>1
  <2>3. i \in Blacks(s)
    BY <2>1, TextIsSeq DEF Blacks
  <2>4. PICK b0, e0 : NextWord(s, d + 1, b0, e0) /\ b0 <= i
    <3>1. d + 1 \in 1 .. Len(s) /\ (d + 1) - 1 \in Ends(s) /\ i \in d + 1 .. Len(s)
      BY <1>2, <1>5, <1>10, <2>1, <2>2
    <3>2. PICK b0, e0 : NextWord(s, d + 1, b0, e0)
      BY <2>3, <3>1, SomeNextWord DEF Blacks
    <3>3. b0 \in 1 .. Len(s) /\ \A k \in d + 1 .. b0 - 1 : s[k] \in White
      BY <3>2, WordsApart DEF NextWord
    <3>4. b0 <= i
      BY <2>1, <3>3
    <3> QED
      BY <3>2, <3>4
  <2>5. /\ b0 \in 1 .. Len(s) /\ e0 \in b0 .. Len(s) /\ d + 1 <= b0
        /\ \A k \in Starts(s) : k \in b0 .. e0 => k = b0
    BY <2>4, WordsApart DEF NextWord
  <2>6. ~(b \in b0 .. e0)
    BY <1>4, <2>1, <2>4, <2>5
  <2>7. e0 \in Ends(s) /\ e0 < b /\ d < e0
    BY <1>2, <1>5, <2>1, <2>4, <2>5, <2>6 DEF NextWord, IsWord
  <2> QED
    BY <1>8, <1>9, <1>10, <2>1, <2>5, <2>7
<1>12. NextWord(s, d + 1, b, q)
  BY <1>4, <1>10, <1>11, <1>5 DEF NextWord
<1>13. d + 1 \in Nat \ {0} /\ (d + 1) - 1 = d
  BY <1>10
<1>14. /\ StartsTo(s, b) = StartsTo(s, d) \cup {b} /\ StartsTo(s, q) = StartsTo(s, d) \cup {b}
       /\ EndsTo(s, q) = EndsTo(s, d) \cup {q} /\ q \notin EndsTo(s, d)
  BY <1>12, <1>13, WordAdds
<1>15. IsFiniteSet(EndsTo(s, d)) /\ Cardinality(EndsTo(s, d)) \in Nat
  BY <1>3, FS_Subset, FS_CardinalityType DEF EndsTo
<1>16. Cardinality(EndsTo(s, d)) = n - 1
  <2>1. Cardinality(EndsTo(s, d) \cup {q}) = Cardinality(EndsTo(s, d)) + 1
    BY <1>14, <1>15, FS_AddElement
  <2> QED
    BY <1>2, <1>14, <1>15, <2>1
<1>17. Nth(Ends(s), n - 1) = d
  BY <1>3, <1>10, <1>16, NthIs DEF EndsTo
<1>18. Cardinality(StartsTo(s, b)) = n
  BY <1>2, <1>14
<1>19. Nth(Starts(s), n) = b
  BY <1>3, <1>4, <1>18, NthIs DEF StartsTo
<1>20. Words(s, n, n) = SubSeq(s, b, q)
  BY <1>2, <1>19 DEF Words
<1>21. b \in Nat /\ d < b - 1 /\ b <= q
  BY <1>2, <1>5, <1>10
<1> QED
  BY <1>1, <1>5, <1>10, <1>11, <1>17, <1>20, <1>21

LEMMA ValueAsWords ==
  ASSUME NEW s \in Text, Blacks(s) # {}, NEW m \in Nat \ {0}, NEW b, NEW e,
         NextWord(s, m, b, e), e \in Ends(s), e <= LastAt(s),
         Cardinality(StartsTo(s, e)) = 3, Cardinality(EndsTo(s, e)) = 3, NEW k
  PROVE  LET n == Cardinality(Starts(s))
             v == SubSeq(s, b, LastAt(s))
         IN  /\ v # <<>> /\ n = 3 => ValueAndTtl(k, v) = SetOf(k, v, Never)
             /\ v # <<>> /\ n # 3 =>
                  ValueAndTtl(k, v)
                    = IF ~LooksLikeTtl(Words(s, n, n)) THEN SetOf(k, v, Never)
                      ELSE IF TtlFault(Words(s, n, n)) # "none"
                             THEN Rejected(TtlFault(Words(s, n, n)))
                      ELSE SetOf(k, SubSeq(s, b, Nth(Ends(s), n - 1)),
                                 NumberOf(Words(s, n, n)))
             /\ n \in Nat /\ n >= 3
<1>1. PICK q, n, v : q = LastAt(s) /\ n = Cardinality(Starts(s)) /\ v = SubSeq(s, b, q)
  OBVIOUS
<1>2. PICK gaps : gaps = {i \in DOMAIN v : v[i] \in White}
  OBVIOUS
<1>3. PICK tail0 : tail0 = SubSeq(v, Max(gaps) + 1, Len(v))
  OBVIOUS
<1>4. v # <<>> => ValueAndTtl(k, v)
        = IF gaps = {} \/ ~LooksLikeTtl(tail0) THEN SetOf(k, v, Never)
          ELSE IF TtlFault(tail0) # "none" THEN Rejected(TtlFault(tail0))
          ELSE SetOf(k, TrimEnd(SubSeq(v, 1, Max(gaps) - 1)), NumberOf(tail0))
  BY <1>2, <1>3 DEF ValueAndTtl
<1>5. /\ q \in 1 .. Len(s) /\ Len(s) \in Nat /\ b \in 1 .. Len(s) /\ e \in b .. Len(s)
      /\ \A i \in b .. e : s[i] \notin White
  BY <1>1, LastBlack, WordsApart DEF NextWord
<1>6. b \in 1 .. Len(s) + 1 /\ q \in b - 1 .. Len(s) /\ b <= q
  BY <1>1, <1>5
<1>7. /\ v \in Text /\ Len(v) = q - b + 1 /\ DOMAIN v = 1 .. q - b + 1
      /\ \A i \in 1 .. q - b + 1 : v[i] = s[b + i - 1]
  BY <1>1, <1>6, PartOf, TextIsSeq
<1>8. /\ n \in Nat /\ Cardinality(Ends(s)) = n
      /\ IsFiniteSet(Ends(s)) /\ EndsTo(s, e) \in SUBSET Ends(s)
  BY <1>1, AsManyEnds, StartsAndEnds DEF EndsTo
<1>9. CASE e = q
  <2>1. n = 3
    BY <1>1, <1>9, LastBlack
  <2>2. gaps = {}
    <3>1. \A i \in 1 .. q - b + 1 : b + i - 1 \in b .. e
      BY <1>5, <1>9
    <3> QED
      BY <1>2, <1>5, <1>7, <3>1
  <2> QED
    BY <1>1, <1>4, <2>1, <2>2
<1>10. CASE e # q
  <2>1. e < q /\ e < LastAt(s)
    BY <1>1, <1>5, <1>10
  <2>2. n >= 3 /\ n # 3
    <3>1. q \in Ends(s) /\ q \notin EndsTo(s, e)
      BY <1>1, <1>5, <2>1, LastBlack DEF EndsTo
    <3>2. 3 <= n
      BY <1>8, FS_Subset
    <3>3. n # 3
      BY <1>8, <3>1, FS_Subset
    <3> QED
      BY <1>8, <3>2, <3>3
  <2>3. PICK c \in Nat, d \in Ends(s) :
          /\ Words(s, n, n) = SubSeq(s, c, q) /\ Nth(Ends(s), n - 1) = d
          /\ e <= d /\ d < c - 1 /\ c <= q
          /\ \A i \in d + 1 .. c - 1 : s[i] \in White
          /\ \A i \in c .. q : s[i] \notin White
    BY <1>1, <2>1, LastTwoWords
  <2>4. d \in 1 .. Len(s) /\ s[d] \notin White
    BY StartsAndEnds
  <2>5. PICK g : g = c - b
    OBVIOUS
  <2>6. /\ g \in 1 .. q - b + 1 /\ b + g - 1 = c - 1 /\ g + 1 \in 1 .. q - b + 2
        /\ q - b + 1 \in g .. q - b + 1 /\ b + (g + 1) - 1 = c /\ b + (q - b + 1) - 1 = q
        /\ g - 1 \in 0 .. q - b + 1 /\ b + (g - 1) - 1 = c - 2 /\ c - 1 \in d + 1 .. c - 1
    BY <1>5, <1>6, <2>3, <2>4, <2>5
  <2>7. g \in gaps
    BY <1>2, <1>7, <2>3, <2>6
  <2>8. \A i \in gaps : g >= i
    <3> SUFFICES ASSUME NEW i \in gaps, i > g PROVE FALSE
      BY <1>2, <1>5, <1>7, <2>6
    <3>1. i \in 1 .. q - b + 1 /\ v[i] \in White /\ i \in Int /\ g \in Int
      BY <1>2, <1>5, <1>7, <2>6
    <3>2. b \in Int /\ c \in Int /\ q \in Int /\ g = c - b
      BY <1>5, <2>5
    <3>3. i > g /\ i <= q - b + 1
      BY <3>1, <3>2
    <3>4. b + i - 1 \in c .. q
      BY <3>1, <3>2, <3>3
    <3> QED
      BY <1>7, <2>3, <3>1, <3>4
  <2>9. Max(gaps) = g
    <3>1. gaps \in SUBSET (1 .. q - b + 1) /\ q - b + 1 \in Nat
      BY <1>2, <1>5, <1>6, <1>7
    <3>2. Max(gaps) \in gaps /\ \A i \in gaps : Max(gaps) >= i
      BY <2>7, <3>1, GreatestNumber
    <3>3. PICK x : x = Max(gaps)
      OBVIOUS
    <3>4. x \in gaps /\ x >= g /\ g >= x
      BY <2>7, <2>8, <3>2, <3>3, Zenon
    <3>5. x \in Int /\ g \in Int
      BY <2>7, <3>1, <3>4
    <3> QED
      BY <3>3, <3>4, <3>5
  <2>10. tail0 = Words(s, n, n)
    <3>1. SubSeq(v, g + 1, q - b + 1) = SubSeq(s, b + (g + 1) - 1, b + (q - b + 1) - 1)
      <4>1. q - b + 1 \in (g + 1) - 1 .. q - b + 1
        BY <1>5, <2>6
      <4> QED
        BY <1>1, <1>6, <2>6, <4>1, PartOfPart
    <3> QED
      BY <1>3, <1>7, <2>3, <2>6, <2>9, <3>1
  <2>11. TrimEnd(SubSeq(v, 1, g - 1)) = SubSeq(s, b, d)
    <3>1. SubSeq(v, 1, g - 1) = SubSeq(s, b + 1 - 1, b + (g - 1) - 1)
      <4>1. 1 \in 1 .. q - b + 2 /\ g - 1 \in 1 - 1 .. q - b + 1
        BY <1>5, <1>6, <2>6
      <4> QED
        BY <1>1, <1>6, <4>1, PartOfPart
    <3>2. SubSeq(v, 1, g - 1) = SubSeq(s, b, c - 2)
      BY <1>5, <2>6, <3>1
    <3>3. PICK p : p = c - 2
      OBVIOUS
    <3>4. /\ p \in b - 1 .. Len(s) /\ d \in b .. p
          /\ \A i \in d + 1 .. p : s[i] \in White
      BY <1>5, <2>3, <2>4, <3>3
    <3>5. TrimEnd(SubSeq(s, b, p)) = SubSeq(s, b, d)
      BY <1>6, <2>4, <3>4, PartTrimEnd
    <3> QED
      BY <3>2, <3>3, <3>5
  <2>12. gaps # {} /\ Nth(Ends(s), n - 1) = d
    BY <2>3, <2>7
  <2> QED
    BY <1>1, <1>4, <1>8, <2>2, <2>9, <2>10, <2>11, <2>12
<1> QED
  BY <1>9, <1>10

-----------------------------------------------------------------------------
(* What the words of a line say, command by command. *)
LEMMA WordsSay ==
  ASSUME NEW s
  PROVE  LET n == Cardinality(Starts(s))
             first == Words(s, 1, 1)
             last == Words(s, n, n)
             timed == n > 3 /\ LooksLikeTtl(last)
             Is(c) == Len(first) = 1 /\ first[1] = c
         IN  n \in Nat =>
             /\ n = 0 \/ (\A c \in CommandWords : ~Is(c)) => ByWords(s) = NoCommand
             /\ n > 0 /\ Is("GET") =>
                  ByWords(s) = IF n = 2 THEN [op |-> "get", key |-> Words(s, 2, 2)]
                                        ELSE NoCommand
             /\ n > 0 /\ Is("DEL") =>
                  ByWords(s) = IF n = 2 THEN [op |-> "del", key |-> Words(s, 2, 2)]
                                        ELSE NoCommand
             /\ n > 0 => \A c \in DOMAIN Bare :
                  Is(c) => ByWords(s) = IF n = 1 THEN [op |-> Bare[c]] ELSE NoCommand
             /\ n > 0 /\ Is("SET") =>
                  ByWords(s) = IF n >= 3 /\ ~timed
                                 THEN SetOf(Words(s, 2, 2), Words(s, 3, n), Never)
                               ELSE IF timed /\ TtlFault(last) = "none"
                                 THEN SetOf(Words(s, 2, 2), Words(s, 3, n - 1), NumberOf(last))
                               ELSE NoCommand
<1>1. PICK n, first, last, second, front, back :
        /\ n = Cardinality(Starts(s)) /\ first = Words(s, 1, 1) /\ last = Words(s, n, n)
        /\ second = Words(s, 2, 2) /\ front = Words(s, 3, n) /\ back = Words(s, 3, n - 1)
  OBVIOUS
<1>2. PICK command : command = IF n = 0 THEN "" ELSE first[1]
  OBVIOUS
<1> DEFINE alone == n > 0 /\ Len(first) = 1
           timed == n > 3 /\ LooksLikeTtl(last)
<1>3. ByWords(s) =
        CASE alone /\ command = "SET" /\ n >= 3 /\ ~timed -> SetOf(second, front, Never)
          [] alone /\ command = "SET" /\ timed /\ TtlFault(last) = "none" ->
               SetOf(second, back, NumberOf(last))
          [] alone /\ command = "GET" /\ n = 2 -> [op |-> "get", key |-> second]
          [] alone /\ command = "DEL" /\ n = 2 -> [op |-> "del", key |-> second]
          [] alone /\ command \in DOMAIN Bare /\ n = 1 -> [op |-> Bare[command]]
          [] OTHER -> NoCommand
  BY <1>1, <1>2 DEF ByWords, Words
<1>4. DOMAIN Bare = {"LIST", "STATUS", "PING", "EXIT"}
  BY DEF Bare
<1>5. ASSUME n \in Nat, n = 0 \/ (\A c \in CommandWords : ~(Len(first) = 1 /\ first[1] = c))
      PROVE  ByWords(s) = NoCommand
  <2>0. n > 0 => n # 0
    BY <1>5
  <2>1. ~(alone /\ command \in CommandWords)
    BY <1>2, <1>5, <2>0, Zenon
  <2>2. DOMAIN Bare \cup {"SET", "GET", "DEL"} = CommandWords
    BY <1>4 DEF CommandWords
  <2>3. alone => command \notin DOMAIN Bare \cup {"SET", "GET", "DEL"}
    BY <2>1, <2>2
  <2> HIDE DEF Bare
  <2>4. alone => command # "SET" /\ command # "GET" /\ command # "DEL"
                   /\ command \notin DOMAIN Bare
    BY <2>3
  <2> QED
    BY <1>3, <2>4
<1>6. ASSUME n \in Nat, n > 0, Len(first) = 1, first[1] = "GET"
      PROVE  ByWords(s) = IF n = 2 THEN [op |-> "get", key |-> second] ELSE NoCommand
  <2>0. n # 0
    BY <1>6
  <2>1. alone /\ command = "GET"
    BY <1>2, <1>6, <2>0, Zenon
  <2>2. command \notin DOMAIN Bare
    BY <1>4, <2>1
  <2> QED
    BY <1>3, <2>1, <2>2
<1>7. ASSUME n \in Nat, n > 0, Len(first) = 1, first[1] = "DEL"
      PROVE  ByWords(s) = IF n = 2 THEN [op |-> "del", key |-> second] ELSE NoCommand
  <2>0. n # 0
    BY <1>7
  <2>1. alone /\ command = "DEL"
    BY <1>2, <1>7, <2>0, Zenon
  <2>2. command \notin DOMAIN Bare
    BY <1>4, <2>1
  <2> QED
    BY <1>3, <2>1, <2>2
<1>8. ASSUME n \in Nat, n > 0, NEW c \in DOMAIN Bare, Len(first) = 1, first[1] = c
      PROVE  ByWords(s) = IF n = 1 THEN [op |-> Bare[c]] ELSE NoCommand
  <2>0. n # 0
    BY <1>8
  <2>1. alone /\ command = c
    BY <1>2, <1>8, <2>0, Zenon
  <2>2. c \notin {"SET", "GET", "DEL"}
    BY <1>4, <1>8
  <2> QED
    BY <1>3, <2>1, <2>2
<1>9. ASSUME n \in Nat, n > 0, Len(first) = 1, first[1] = "SET"
      PROVE  ByWords(s) = IF n >= 3 /\ ~timed THEN SetOf(second, front, Never)
                          ELSE IF timed /\ TtlFault(last) = "none"
                                 THEN SetOf(second, back, NumberOf(last))
                          ELSE NoCommand
  <2>0. n # 0
    BY <1>9
  <2>1. alone /\ command = "SET"
    BY <1>2, <1>9, <2>0, Zenon
  <2>2. command \notin DOMAIN Bare
    BY <1>4, <2>1
  <2> QED
    BY <1>3, <2>1, <2>2
<1> QED
  BY <1>1, <1>2, <1>5, <1>6, <1>7, <1>8, <1>9

(* What parse_command cuts off a line, word by word. *)
LEMMA CutsAtWords ==
  ASSUME NEW s \in Text, Blacks(s) # {}
  PROVE  LET w == TakeWord(Trim(s))
             x == TakeWord(w.rest)
             n == Cardinality(Starts(s))
             last == Words(s, n, n)
             timed == n > 3 /\ LooksLikeTtl(last)
         IN  /\ w.word = Words(s, 1, 1) /\ n \in Nat /\ n > 0
             /\ n = 1 => Trim(w.rest) = <<>> /\ x.word = <<>>
             /\ n # 1 => Trim(w.rest) # <<>> /\ x.word # <<>> /\ x.word = Words(s, 2, 2)
             /\ n = 2 => Trim(x.rest) = <<>>
             /\ n >= 3 => Trim(x.rest) # <<>>
             /\ n >= 3 => \A k : ValueAndTtl(k, Trim(x.rest))
                            = IF ~timed THEN SetOf(k, Words(s, 3, n), Never)
                              ELSE IF TtlFault(last) # "none" THEN Rejected(TtlFault(last))
                              ELSE SetOf(k, Words(s, 3, n - 1), NumberOf(last))
<1>1. PICK w, q, n : w = TakeWord(Trim(s)) /\ q = LastAt(s) /\ n = Cardinality(Starts(s))
  OBVIOUS
<1>2. PICK x, last : x = TakeWord(w.rest) /\ last = Words(s, n, n)
  OBVIOUS
<1> DEFINE timed == n > 3 /\ LooksLikeTtl(last)
<1>3. PICK b1, e1 :
        /\ NextWord(s, 1, b1, e1) /\ e1 \in Ends(s)
        /\ w.word = SubSeq(s, b1, e1) /\ SubSeq(s, b1, e1) # <<>>
        /\ w.rest = SubSeq(s, e1 + 1, q)
        /\ Words(s, 1, 1) = SubSeq(s, b1, e1)
        /\ Cardinality(StartsTo(s, e1)) = 1 /\ Cardinality(EndsTo(s, e1)) = 1
  BY <1>1, FirstTaken
<1>4. /\ q \in 1 .. Len(s) /\ Len(s) \in Nat /\ n \in Nat /\ Cardinality(Ends(s)) = n
      /\ IsFiniteSet(Ends(s)) /\ Nth(Ends(s), n) = q /\ q \in Ends(s)
      /\ Cardinality(EndsTo(s, q)) = n
  BY <1>1, LastBlack, LastWordIs, TextIsSeq, StartsAndEnds, AsManyEnds
<1>5. ASSUME NEW e \in Ends(s) PROVE e <= q /\ e \in Nat
  BY <1>1, LastBlack, StartsAndEnds, TextIsSeq
<1>6. \A e \in Ends(s) : e # q => EndsTo(s, e) \in SUBSET Ends(s) /\ q \notin EndsTo(s, e)
  BY <1>4, <1>5 DEF EndsTo
<1>7. ASSUME NEW e \in Ends(s), e # q, NEW i \in Nat, Cardinality(EndsTo(s, e)) = i
      PROVE  n > i
  <2>1. EndsTo(s, e) \in SUBSET Ends(s) /\ EndsTo(s, e) # Ends(s)
    BY <1>4, <1>6, <1>7
  <2>2. i <= n /\ i # n
    BY <1>4, <1>7, <2>1, FS_Subset
  <2> QED
    BY <1>4, <2>2
<1>8. CASE e1 = q
  <2>1. n = 1
    BY <1>3, <1>4, <1>8
  <2>2. Trim(w.rest) = <<>> /\ x.word = <<>>
    BY <1>2, <1>3, <1>4, <1>8, NoWordLeft
  <2> QED
    BY <1>1, <1>2, <1>3, <2>1, <2>2
<1>9. CASE e1 # q
  <2>1. e1 < q /\ n > 1
    BY <1>3, <1>4, <1>5, <1>7, <1>9
  <2>2. PICK b2, e2 :
          /\ NextWord(s, e1 + 1, b2, e2) /\ e2 \in Ends(s) /\ e2 <= q
          /\ x.word = SubSeq(s, b2, e2) /\ x.rest = SubSeq(s, e2 + 1, q)
          /\ Trim(w.rest) = SubSeq(s, b2, q)
          /\ SubSeq(s, b2, e2) # <<>> /\ SubSeq(s, b2, q) # <<>>
          /\ Nth(Starts(s), 1 + 1) = b2 /\ Nth(Ends(s), 1 + 1) = e2
          /\ Cardinality(StartsTo(s, e2)) = 1 + 1 /\ Cardinality(EndsTo(s, e2)) = 1 + 1
    BY <1>1, <1>2, <1>3, <2>1, NextTaken
  <2>3. /\ Nth(Starts(s), 2) = b2 /\ Nth(Ends(s), 2) = e2
        /\ Cardinality(StartsTo(s, e2)) = 2 /\ Cardinality(EndsTo(s, e2)) = 2
    BY <2>2
  <2>4. x.word = Words(s, 2, 2) /\ x.word # <<>> /\ Trim(w.rest) # <<>>
    BY <2>2, <2>3 DEF Words
  <2>5. CASE e2 = q
    <3>1. n = 2
      BY <1>4, <2>3, <2>5
    <3>2. Trim(x.rest) = <<>>
      BY <1>4, <2>2, <2>5, NoWordLeft
    <3> QED
      BY <1>1, <1>2, <1>3, <2>4, <3>1, <3>2
  <2>6. CASE e2 # q
    <3>1. e2 < q /\ n > 2
      BY <1>4, <1>5, <1>7, <2>2, <2>3, <2>6
    <3>2. PICK b3, e3 :
            /\ NextWord(s, e2 + 1, b3, e3) /\ e3 \in Ends(s) /\ e3 <= q
            /\ Trim(x.rest) = SubSeq(s, b3, q) /\ SubSeq(s, b3, q) # <<>>
            /\ Nth(Starts(s), 2 + 1) = b3
            /\ Cardinality(StartsTo(s, e3)) = 2 + 1 /\ Cardinality(EndsTo(s, e3)) = 2 + 1
      BY <1>1, <2>2, <2>3, <3>1, NextTaken
    <3>3. /\ Nth(Starts(s), 3) = b3
          /\ Cardinality(StartsTo(s, e3)) = 3 /\ Cardinality(EndsTo(s, e3)) = 3
          /\ e2 + 1 \in Nat \ {0}
      BY <1>5, <2>2, <3>2
    <3>4. PICK v : v = SubSeq(s, b3, q)
      OBVIOUS
    <3>5. ASSUME NEW k
          PROVE  /\ n = 3 => ValueAndTtl(k, v) = SetOf(k, v, Never)
                 /\ n # 3 =>
                      ValueAndTtl(k, v)
                        = IF ~LooksLikeTtl(last) THEN SetOf(k, v, Never)
                          ELSE IF TtlFault(last) # "none" THEN Rejected(TtlFault(last))
                          ELSE SetOf(k, SubSeq(s, b3, Nth(Ends(s), n - 1)), NumberOf(last))
      BY <1>1, <1>2, <3>2, <3>3, <3>4, ValueAsWords
    <3>6. /\ v = Words(s, 3, n) /\ SubSeq(s, b3, Nth(Ends(s), n - 1)) = Words(s, 3, n - 1)
      BY <1>4, <3>3, <3>4 DEF Words
    <3>7. ASSUME NEW k
          PROVE  ValueAndTtl(k, Trim(x.rest))
                   = IF ~timed THEN SetOf(k, Words(s, 3, n), Never)
                     ELSE IF TtlFault(last) # "none" THEN Rejected(TtlFault(last))
                     ELSE SetOf(k, Words(s, 3, n - 1), NumberOf(last))
      <4>1. n = 3 \/ n > 3
        BY <1>4, <3>1
      <4>2. CASE n = 3
        BY <3>2, <3>4, <3>5, <3>6, <4>2
      <4>3. CASE n > 3
        <5>1. n # 3
          BY <4>3
        <5> QED
          BY <3>2, <3>4, <3>5, <3>6, <4>3, <5>1
      <4> QED
        BY <4>1, <4>2, <4>3
    <3>8. n > 0 /\ n # 1 /\ n # 2 /\ n \in Nat
      BY <1>4, <3>1
    <3>9. w.word = Words(s, 1, 1) /\ Trim(x.rest) # <<>>
      BY <1>3, <3>2
    <3> QED
      BY <1>1, <1>2, <2>4, <3>7, <3>8, <3>9, Zenon
  <2> QED
    BY <2>5, <2>6
<1> QED
  BY <1>8, <1>9

LEMMA OneSymbol ==
  ASSUME NEW u \in Text, NEW c
  PROVE  u = <<c>> <=> Len(u) = 1 /\ u[1] = c
<1>1. u = <<c>> => Len(u) = 1 /\ u[1] = c
  OBVIOUS
<1>2. ASSUME Len(u) = 1, u[1] = c PROVE u = <<c>>
  <2>1. u \in Seq(Symbols) /\ DOMAIN u = 1 .. 1 /\ c \in Symbols
    BY <1>2, TextIsSeq DEF Text
  <2>2. <<c>> \in Seq(Symbols) /\ Len(<<c>>) = 1 /\ <<c>>[1] = c
    BY <2>1
  <2>3. \A i \in 1 .. 1 : u[i] = <<c>>[i]
    BY <1>2, <2>2
  <2> QED
    BY <1>2, <2>1, <2>2, <2>3, SeqEqual
<1> QED
  BY <1>1, <1>2

LEMMA NoWords ==
  ASSUME NEW s \in Text, Blacks(s) = {}
  PROVE  TakeWord(Trim(s)).word = <<>> /\ Cardinality(Starts(s)) = 0
<1>1. Trim(s) = <<>>
  BY DEF Trim, TrimEnd, TrimStart, Blacks
<1>2. 1 \in 1 .. Len(<<>>) + 1 /\ 0 \in 1 - 1 .. Len(<<>>) /\ 1 .. 0 = {} /\ <<>> \in Text
  BY DEF Text
<1>3. SubSeq(<<>>, 1, 0) = <<>>
  OBVIOUS
<1>4. TakeWord(<<>>).word = <<>>
  <2>1. TakeWord(SubSeq(<<>>, 1, 0)).word = <<>>
    BY <1>2, PartAllWhite
  <2> QED
    BY <1>3, <2>1
<1>5. Starts(s) = {}
  BY DEF Starts
<1> QED
  BY <1>1, <1>4, <1>5, FS_EmptySet

(* parse_command and the definition by words agree on every text that is   *)
(* not too long.                                                           *)
LEMMA ParseIsByWords ==
  ASSUME NEW s \in Text, Len(s) <= MaxLen
  PROVE  IF Parse(s).op = "rejected" THEN ByWords(s) = NoCommand ELSE Parse(s) = ByWords(s)
<1>1. PICK w, n : w = TakeWord(Trim(s)) /\ n = Cardinality(Starts(s))
  OBVIOUS
<1>2. PICK x, last, first :
        x = TakeWord(w.rest) /\ last = Words(s, n, n) /\ first = Words(s, 1, 1)
  OBVIOUS
<1>3. w.word \in Text
  BY <1>1, TrimIsText, TakeWordCuts
<1>4. \A c : w.word = <<c>> <=> Len(w.word) = 1 /\ w.word[1] = c
  BY <1>3, OneSymbol
<1>5. Parse(s) = IF w.word = <<"SET">> THEN ParseSet(w.rest)
                 ELSE IF w.word = <<"GET">> THEN ParseOneKey("get", w.rest)
                 ELSE IF w.word = <<"DEL">> THEN ParseOneKey("del", w.rest)
                 ELSE IF w.word = <<"LIST">> THEN NoArgument("list", w.rest)
                 ELSE IF w.word = <<"STATUS">> THEN NoArgument("status", w.rest)
                 ELSE IF w.word = <<"PING">> THEN NoArgument("ping", w.rest)
                 ELSE IF w.word = <<"EXIT">> THEN NoArgument("exit", w.rest)
                 ELSE Rejected("unknown")
  <2>1. ~(Len(s) > MaxLen)
    BY TextIsSeq, ParserAssumption
  <2> QED
    BY <1>1, <2>1 DEF Parse
<1>6. \A why : Rejected(why).op = "rejected"
  BY DEF Rejected
<1>7. n \in Nat
  BY <1>1, AsManyEnds
<1>8. CASE Blacks(s) = {}
  <2>1. w.word = <<>> /\ n = 0
    BY <1>1, <1>8, NoWords
  <2>2. \A c : w.word # <<c>>
    BY <2>1
  <2>3. Parse(s).op = "rejected"
    BY <1>5, <1>6, <2>2
  <2>4. ByWords(s) = NoCommand
    BY <1>1, <1>7, <2>1, WordsSay
  <2> QED
    BY <2>3, <2>4
<1>9. CASE Blacks(s) # {}
  <2> DEFINE timed == n > 3 /\ LooksLikeTtl(last)
  <2>1. /\ w.word = first /\ n > 0
        /\ n = 1 => Trim(w.rest) = <<>> /\ x.word = <<>>
        /\ n # 1 => Trim(w.rest) # <<>> /\ x.word # <<>> /\ x.word = Words(s, 2, 2)
        /\ n = 2 => Trim(x.rest) = <<>>
        /\ n >= 3 => Trim(x.rest) # <<>>
        /\ n >= 3 => \A k : ValueAndTtl(k, Trim(x.rest))
                       = IF ~timed THEN SetOf(k, Words(s, 3, n), Never)
                         ELSE IF TtlFault(last) # "none" THEN Rejected(TtlFault(last))
                         ELSE SetOf(k, Words(s, 3, n - 1), NumberOf(last))
    BY <1>1, <1>2, <1>9, CutsAtWords
  <2>2. \A c : first = <<c>> <=> Len(first) = 1 /\ first[1] = c
    BY <1>4, <2>1
  <2>3. CASE \A c \in CommandWords : first # <<c>>
    <3>1. Parse(s).op = "rejected"
      BY <1>5, <1>6, <2>1, <2>3 DEF CommandWords
    <3>2. ByWords(s) = NoCommand
      BY <1>1, <1>2, <1>7, <2>2, <2>3, WordsSay
    <3> QED
      BY <3>1, <3>2
  <2>4. ASSUME NEW op \in {"get", "del"},
               Parse(s) = ParseOneKey(op, w.rest),
               ByWords(s) = IF n = 2 THEN [op |-> op, key |-> Words(s, 2, 2)] ELSE NoCommand
        PROVE  IF Parse(s).op = "rejected" THEN ByWords(s) = NoCommand
                                           ELSE Parse(s) = ByWords(s)
    <3>1. ParseOneKey(op, w.rest)
            = CASE x.word = <<>>       -> Rejected("missing")
                [] Trim(x.rest) # <<>> -> Rejected("extra")
                [] OTHER               -> [op |-> op, key |-> x.word]
      BY <1>2 DEF ParseOneKey
    <3>2. CASE n = 1
      <4>1. Parse(s).op = "rejected"
        BY <1>6, <2>1, <2>4, <3>1, <3>2
      <4> QED
        BY <2>4, <3>2, <4>1
    <3>3. CASE n = 2
      <4>1. Parse(s) = [op |-> op, key |-> Words(s, 2, 2)]
        BY <2>1, <2>4, <3>1, <3>3
      <4> QED
        BY <2>4, <3>3, <4>1
    <3>4. CASE n >= 3
      <4>1. n # 1 /\ n # 2
        BY <1>7, <3>4
      <4>2. Parse(s).op = "rejected"
        BY <1>6, <2>1, <2>4, <3>1, <3>4, <4>1
      <4> QED
        BY <2>4, <4>1, <4>2
    <3> QED
      BY <1>7, <2>1, <3>2, <3>3, <3>4
  <2>5. ASSUME NEW op \in {"list", "status", "ping", "exit"},
               Parse(s) = NoArgument(op, w.rest),
               ByWords(s) = IF n = 1 THEN [op |-> op] ELSE NoCommand
        PROVE  IF Parse(s).op = "rejected" THEN ByWords(s) = NoCommand
                                           ELSE Parse(s) = ByWords(s)
    BY <1>6, <2>1, <2>5 DEF NoArgument
  <2>6. CASE first = <<"SET">>
    <3>1. ByWords(s) = IF n >= 3 /\ ~timed
                         THEN SetOf(Words(s, 2, 2), Words(s, 3, n), Never)
                       ELSE IF timed /\ TtlFault(last) = "none"
                         THEN SetOf(Words(s, 2, 2), Words(s, 3, n - 1), NumberOf(last))
                       ELSE NoCommand
      BY <1>1, <1>2, <1>7, <2>1, <2>2, <2>6, WordsSay
    <3>2. Parse(s) = IF x.word = <<>> THEN Rejected("missing")
                     ELSE ValueAndTtl(x.word, Trim(x.rest))
      BY <1>2, <1>5, <2>1, <2>6 DEF ParseSet
    <3>3. CASE n = 1
      <4>1. Parse(s).op = "rejected" /\ ~(n >= 3) /\ ~timed
        BY <1>6, <2>1, <3>2, <3>3
      <4> QED
        BY <3>1, <4>1
    <3>4. CASE n = 2
      <4>1. \A k : ValueAndTtl(k, <<>>) = Rejected("missing")
        BY DEF ValueAndTtl
      <4>2. Parse(s).op = "rejected" /\ ~(n >= 3) /\ ~timed
        BY <1>6, <2>1, <3>2, <3>4, <4>1
      <4> QED
        BY <3>1, <4>2
    <3>5. CASE n >= 3
      <4>1. n # 1
        BY <1>7, <3>5
      <4>2. Parse(s) = IF ~timed THEN SetOf(Words(s, 2, 2), Words(s, 3, n), Never)
                       ELSE IF TtlFault(last) # "none" THEN Rejected(TtlFault(last))
                       ELSE SetOf(Words(s, 2, 2), Words(s, 3, n - 1), NumberOf(last))
        BY <2>1, <3>2, <3>5, <4>1
      <4>3. \A k, val, ttl : SetOf(k, val, ttl).op = "set"
        BY DEF SetOf
      <4>4. CASE ~timed
        BY <3>1, <3>5, <4>2, <4>3, <4>4
      <4>5. CASE timed /\ TtlFault(last) # "none"
        BY <1>6, <3>1, <4>2, <4>5
      <4>6. CASE timed /\ TtlFault(last) = "none"
        BY <3>1, <4>2, <4>3, <4>6
      <4> QED
        BY <4>4, <4>5, <4>6
    <3> QED
      BY <1>7, <2>1, <3>3, <3>4, <3>5
  <2>7. CASE first = <<"GET">> \/ first = <<"DEL">>
    <3>1. CASE first = <<"GET">>
      <4>1. Parse(s) = ParseOneKey("get", w.rest)
        BY <1>5, <2>1, <3>1
      <4>2. ByWords(s) = IF n = 2 THEN [op |-> "get", key |-> Words(s, 2, 2)] ELSE NoCommand
        BY <1>1, <1>2, <1>7, <2>1, <2>2, <3>1, WordsSay
      <4> QED
        BY <2>4, <4>1, <4>2
    <3>2. CASE first = <<"DEL">>
      <4>1. Parse(s) = ParseOneKey("del", w.rest)
        BY <1>5, <2>1, <3>2
      <4>2. ByWords(s) = IF n = 2 THEN [op |-> "del", key |-> Words(s, 2, 2)] ELSE NoCommand
        BY <1>1, <1>2, <1>7, <2>1, <2>2, <3>2, WordsSay
      <4> QED
        BY <2>4, <4>1, <4>2
    <3> QED
      BY <2>7, <3>1, <3>2
  <2>8. ASSUME NEW c \in {"LIST", "STATUS", "PING", "EXIT"}, first = <<c>>
        PROVE  IF Parse(s).op = "rejected" THEN ByWords(s) = NoCommand
                                           ELSE Parse(s) = ByWords(s)
    <3>1. DOMAIN Bare = {"LIST", "STATUS", "PING", "EXIT"}
      BY DEF Bare
    <3>2. ByWords(s) = IF n = 1 THEN [op |-> Bare[c]] ELSE NoCommand
      BY <1>1, <1>2, <1>7, <2>1, <2>2, <2>8, <3>1, WordsSay
    <3>3. Parse(s) = NoArgument(Bare[c], w.rest)
      BY <1>5, <2>1, <2>8 DEF Bare
    <3>4. Bare[c] \in {"list", "status", "ping", "exit"}
      BY DEF Bare
    <3> QED
      BY <2>5, <3>2, <3>3, <3>4
  <2> QED
    BY <2>3, <2>6, <2>7, <2>8 DEF CommandWords
<1> QED
  BY <1>8, <1>9

(* parse_command reads the words of a line of any length and nothing else: *)
(* its trimming, its cutting and its search for a TTL from the right make  *)
(* of the line what the words of it say.                                   *)
THEOREM ReadsTheWords == Spec => []ParsesByWords
<1>1. Typed => ParsesByWords
  BY ParseIsByWords DEF Typed, ParsesByWords
<1> QED
  BY <1>1, TypedIsText, PTL
=============================================================================
