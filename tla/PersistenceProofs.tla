------------------------- MODULE PersistenceProofs --------------------------
(***************************************************************************)
(* Facts about the log file that hold for all keys and values the parser   *)
(* lets through: a record is read back as it was written, and no step of   *)
(* append, of a failure or of recover leaves the types of Persistence.tla. *)
(***************************************************************************)
EXTENDS Persistence, TLAPS, SequenceTheorems, FiniteSetTheorems,
        WellFoundedInduction

LEMMA TextSplits ==
  ASSUME NEW s \in Text, NEW t \in Text
  PROVE  /\ s \o <<BL>> \in Text
         /\ (s \o <<BL>>) \o t \in Text
         /\ Len((s \o <<BL>>) \o t) = Len(s) + 1 + Len(t)
         /\ \A i \in 1 .. Len(s) : ((s \o <<BL>>) \o t)[i] = s[i]
         /\ ((s \o <<BL>>) \o t)[Len(s) + 1] = BL
         /\ \A i \in 1 .. Len(t) : ((s \o <<BL>>) \o t)[Len(s) + 1 + i] = t[i]
<1>1. <<BL>> \in Text /\ Len(<<BL>>) = 1 /\ <<BL>>[1] = BL
  <2>1. BL \in Symbols
    BY SymbolsAssumption
  <2> HIDE DEF BL
  <2> QED
    BY <2>1 DEF Text
<1>2. /\ s \o <<BL>> \in Text
      /\ Len(s \o <<BL>>) = Len(s) + 1
      /\ \A i \in 1 .. Len(s) + 1 :
           (s \o <<BL>>)[i] = IF i <= Len(s) THEN s[i] ELSE <<BL>>[i - Len(s)]
  BY <1>1, ConcatProperties DEF Text
<1>3. /\ (s \o <<BL>>) \o t \in Text
      /\ Len((s \o <<BL>>) \o t) = Len(s) + 1 + Len(t)
      /\ \A i \in 1 .. Len(s) + 1 + Len(t) :
           ((s \o <<BL>>) \o t)[i]
             = IF i <= Len(s) + 1 THEN (s \o <<BL>>)[i] ELSE t[i - (Len(s) + 1)]
  BY <1>2, ConcatProperties DEF Text
<1>4. Len(s) \in Nat /\ Len(t) \in Nat
  BY DEF Text
<1> HIDE DEF BL
<1> QED
  BY <1>1, <1>2, <1>3, <1>4

(* split_once undoes the joining with a blank, whatever blanks the second  *)
(* part has.                                                               *)
LEMMA SplitOnce ==
  ASSUME NEW s \in Text, Clean(s), NEW t \in Text
  PROVE  LET j == (s \o <<BL>>) \o t
         IN  Blanks(j) # {} /\ Before(j) = s /\ After(j) = t
<1> DEFINE j == (s \o <<BL>>) \o t
           p == Len(s) + 1
<1>1. /\ j \in Text /\ Len(j) = p + Len(t)
      /\ \A i \in 1 .. Len(s) : j[i] = s[i]
      /\ j[p] = BL
      /\ \A i \in 1 .. Len(t) : j[p + i] = t[i]
  BY TextSplits
<1>2. Len(s) \in Nat /\ Len(t) \in Nat /\ DOMAIN j = 1 .. Len(j)
  BY <1>1 DEF Text
<1>3. p \in DOMAIN j /\ \A i \in 1 .. p - 1 : j[i] # BL
  BY <1>1, <1>2 DEF Clean
<1> HIDE DEF j
<1>4. FirstBlank(j) = p
  <2>1. \A i \in DOMAIN j :
          (j[i] = BL /\ \A h \in 1 .. i - 1 : j[h] # BL) => i = p
    BY <1>1, <1>2, <1>3
  <2> QED
    BY <1>1, <1>3, <2>1 DEF FirstBlank
<1>5. Blanks(j) # {}
  BY <1>1, <1>3 DEF Blanks
<1>6. Before(j) = s
  <2>1. /\ SubSeq(j, 1, p - 1) \in Seq(Symbols)
        /\ Len(SubSeq(j, 1, p - 1)) = Len(s)
        /\ \A i \in 1 .. Len(s) : SubSeq(j, 1, p - 1)[i] = j[i]
    BY <1>1, <1>2, SubSeqProperties DEF Text
  <2> QED
    BY <1>1, <1>4, <2>1, SeqEqual DEF Before, Text
<1>7. After(j) = t
  <2>1. /\ SubSeq(j, p + 1, Len(j)) \in Seq(Symbols)
        /\ Len(SubSeq(j, p + 1, Len(j))) = Len(t)
        /\ \A i \in 1 .. Len(t) : SubSeq(j, p + 1, Len(j))[i] = j[p + i]
    BY <1>1, <1>2, SubSeqProperties DEF Text
  <2>2. After(j) = SubSeq(j, p + 1, Len(j))
    BY <1>4 DEF After
  <2> HIDE DEF p
  <2>3. SubSeq(j, p + 1, Len(j)) = t
    BY <1>1, <2>1, SeqEqual DEF Text
  <2> QED
    BY <2>2, <2>3
<1> QED
  BY <1>5, <1>6, <1>7 DEF j

-----------------------------------------------------------------------------
LEMMA WordsAreText ==
  ASSUME NEW w \in {"SET", "DEL"}
  PROVE  /\ <<w>> \in Text /\ Clean(<<w>>)
         /\ <<w, BL>> = <<w>> \o <<BL>>
<1>1. w \in Symbols /\ BL \in Symbols
  BY SymbolsAssumption
<1>2. w # BL
  BY DEF BL
<1>3. <<w>> \in Text /\ Len(<<w>>) = 1 /\ <<w>>[1] = w
  BY <1>1 DEF Text
<1>4. <<w>> \o <<BL>> = <<w, BL>>
  <2>1. /\ <<w>> \in Seq(Symbols) /\ <<BL>> \in Seq(Symbols)
        /\ <<w, BL>> \in Seq(Symbols)
    BY <1>1
  <2>2. /\ <<w>> \o <<BL>> \in Seq(Symbols)
        /\ Len(<<w>> \o <<BL>>) = 2
        /\ (<<w>> \o <<BL>>)[1] = w /\ (<<w>> \o <<BL>>)[2] = BL
    BY <2>1, ConcatProperties
  <2>3. \A i \in 1 .. 2 : (<<w>> \o <<BL>>)[i] = <<w, BL>>[i]
    BY <2>2
  <2> QED
    BY <2>1, <2>2, <2>3, SeqEqual
<1> QED
  BY <1>2, <1>3, <1>4 DEF Clean

(* A record is a command word, a blank, and the rest. *)
LEMMA LineShape ==
  ASSUME NEW k \in Text, NEW v \in Text
  PROVE  /\ ToLine(SetRecord(k, v)) = (<<"SET">> \o <<BL>>) \o ((k \o <<BL>>) \o v)
         /\ ToLine(DelRecord(k)) = (<<"DEL">> \o <<BL>>) \o k
<1> DEFINE w == <<"SET", BL>>
<1>1. /\ ToLine(SetRecord(k, v)) = ((w \o k) \o <<BL>>) \o v
      /\ ToLine(DelRecord(k)) = <<"DEL", BL>> \o k
  BY DEF ToLine, SetRecord, DelRecord
<1>2. /\ w = <<"SET">> \o <<BL>>
      /\ <<"DEL", BL>> = <<"DEL">> \o <<BL>>
  BY WordsAreText
<1>3. w \in Seq(Symbols) /\ <<BL>> \in Seq(Symbols)
  BY SymbolsAssumption
<1> HIDE DEF w
<1>4. k \in Seq(Symbols) /\ v \in Seq(Symbols)
  BY DEF Text
<1>5. k \o <<BL>> \in Seq(Symbols)
  BY <1>3, <1>4, ConcatProperties
<1>6. (w \o k) \o <<BL>> = w \o (k \o <<BL>>)
  BY <1>3, <1>4, ConcatAssociative
<1>7. (w \o (k \o <<BL>>)) \o v = w \o ((k \o <<BL>>) \o v)
  BY <1>3, <1>4, <1>5, ConcatAssociative
<1> QED
  BY <1>1, <1>2, <1>6, <1>7

LEMMA LineIsText ==
  ASSUME NEW k \in Text, NEW v \in Text
  PROVE  ToLine(SetRecord(k, v)) \in Text /\ ToLine(DelRecord(k)) \in Text
<1>1. (k \o <<BL>>) \o v \in Text
  BY TextSplits
<1>2. <<"SET">> \in Text /\ <<"DEL">> \in Text
  BY WordsAreText
<1>3. /\ (<<"SET">> \o <<BL>>) \o ((k \o <<BL>>) \o v) \in Text
      /\ (<<"DEL">> \o <<BL>>) \o k \in Text
  BY <1>1, <1>2, TextSplits
<1> QED
  BY <1>3, LineShape

LEMMA RecordsHaveText ==
  ASSUME NEW r \in Records
  PROVE  /\ ToLine(r) \in Text
         /\ \/ \E k \in Keys, v \in Values : r = SetRecord(k, v)
            \/ \E k \in Keys : r = DelRecord(k)
  BY LogAssumption, LineIsText DEF Records

(* A key without a blank, with any text as its value, reads back.          *)
LEMMA SetReadsBack ==
  ASSUME NEW k \in Text, k # <<>>, Clean(k), NEW v \in Text
  PROVE  FromLine[ToLine(SetRecord(k, v))] = SetRecord(k, v)
<1>1. <<"SET">> \in Text /\ Clean(<<"SET">>)
  BY WordsAreText
<1> DEFINE rest == (k \o <<BL>>) \o v
           line == (<<"SET">> \o <<BL>>) \o rest
<1>2. rest \in Text /\ Blanks(rest) # {} /\ Before(rest) = k /\ After(rest) = v
  BY TextSplits, SplitOnce
<1> HIDE DEF rest
<1>3. line \in Text /\ Blanks(line) # {} /\ Before(line) = <<"SET">> /\ After(line) = rest
  BY <1>1, <1>2, TextSplits, SplitOnce
<1>4. ToLine(SetRecord(k, v)) = line
  BY LineShape DEF rest
<1> HIDE DEF line
<1>5. FromLine[line] = FromSet(rest)
  BY <1>3 DEF FromLine
<1> QED
  BY <1>2, <1>4, <1>5 DEF FromSet

LEMMA DelReadsBack ==
  ASSUME NEW k \in Text, k # <<>>, Clean(k)
  PROVE  FromLine[ToLine(DelRecord(k))] = DelRecord(k)
<1>1. <<"DEL">> \in Text /\ Clean(<<"DEL">>)
  BY WordsAreText
<1> DEFINE line == (<<"DEL">> \o <<BL>>) \o k
<1>2. line \in Text /\ Blanks(line) # {} /\ Before(line) = <<"DEL">> /\ After(line) = k
  BY <1>1, TextSplits, SplitOnce
<1>3. ToLine(DelRecord(k)) = line
  BY LineShape
<1> HIDE DEF line
<1>4. <<"DEL">> # <<"SET">>
  OBVIOUS
<1>5. FromLine[line] = FromDel(k)
  BY <1>2, <1>4 DEF FromLine
<1>6. Blanks(k) = {}
  BY DEF Blanks, Clean, Text
<1> QED
  BY <1>3, <1>5, <1>6 DEF FromDel

(* A record reads back as itself, whatever blanks its value has: to_line   *)
(* and from_line are inverses on the keys and values the parser accepts.   *)
THEOREM RecordReadsBack ==
  ASSUME NEW r \in Records
  PROVE  FromLine[ToLine(r)] = r
  BY RecordsHaveText, LogAssumption, SetReadsBack, DelReadsBack

-----------------------------------------------------------------------------
(* A set of numbers that is not empty has a least one. *)
LEMMA LeastNumber ==
  ASSUME NEW T \in SUBSET Nat, T # {}
  PROVE  \E x \in T : \A y \in T : x <= y
<1> DEFINE R == {ss \in Nat \X Nat : ss[1] < ss[2]}
<1>1. IsWellFoundedOn(R, Nat)
  BY NatLessThanWellFounded DEF OpToRel
<1>2. \A x, y \in T : y < x => <<y, x>> \in R
  OBVIOUS
<1> HIDE DEF R
<1>3. PICK x \in T : \A y \in T : ~ (<<y, x>> \in R)
  BY <1>1, WFMin
<1>4. \A y \in T : ~ (y < x)
  BY <1>2, <1>3
<1> QED
  BY <1>4

LEMMA PartsAreText ==
  ASSUME NEW s \in Text, NEW m \in Nat \ {0}, NEW n \in Int, n <= Len(s)
  PROVE  SubSeq(s, m, n) \in Text
  BY SubSeqProperties, ElementOfSeq DEF Text

LEMMA SplitsAreText ==
  ASSUME NEW s \in Text, Blanks(s) # {}
  PROVE  Before(s) \in Text /\ After(s) \in Text
<1>1. DOMAIN s = 1 .. Len(s) /\ Len(s) \in Nat
  BY DEF Text
<1>2. PICK i \in Blanks(s) : \A j \in Blanks(s) : i <= j
  <2>1. Blanks(s) \in SUBSET Nat
    BY <1>1 DEF Blanks
  <2> QED
    BY <2>1, LeastNumber
<1>3. s[i] = BL /\ i \in DOMAIN s /\ \A j \in 1 .. i - 1 : s[j] # BL
  BY <1>1, <1>2 DEF Blanks
<1>4. FirstBlank(s) \in DOMAIN s
  BY <1>3 DEF FirstBlank
<1> QED
  BY <1>1, <1>4, PartsAreText DEF Before, After

(* from_line returns a record, or nothing. *)
LEMMA FromLineTyped ==
  ASSUME NEW s \in Text
  PROVE  FromLine[s] \in AnyRecord
<1>1. \A t \in Text : FromSet(t) \in AnyRecord
  BY SplitsAreText DEF FromSet, AnyRecord, SetRecord
<1>2. \A t \in Text : FromDel(t) \in AnyRecord
  BY DEF FromDel, AnyRecord, DelRecord
<1>3. Unreadable \in AnyRecord
  BY DEF AnyRecord
<1> QED
  BY <1>1, <1>2, <1>3, SplitsAreText DEF FromLine

-----------------------------------------------------------------------------
(* The steps of append, done or failed, keep the types. *)
LEMMA AppendTyped ==
  ASSUME LogTypeOK, NEW r \in Records, UNCHANGED <<phase, pos, now>>,
         AppendBody(r) \/ TornBody(r) \/ AppendNewline \/ NewlineFails
  PROVE  LogTypeOK'
<1> USE DEF LogTypeOK
<1>1. ToLine(r) \in Text
  BY RecordsHaveText
<1>2. CASE AppendBody(r)
  <2>1. tail \o ToLine(r) \in Text
    BY <1>1, ConcatProperties DEF Text
  <2> QED
    BY <1>2, <2>1 DEF AppendBody
<1>3. CASE TornBody(r)
  <2>1. \A n \in 1 .. Len(ToLine(r)) - 1 : tail \o SubSeq(ToLine(r), 1, n) \in Text
    <3>1. \A n \in 1 .. Len(ToLine(r)) - 1 : SubSeq(ToLine(r), 1, n) \in Text
      BY <1>1, PartsAreText DEF Text
    <3> QED
      BY <3>1, ConcatProperties DEF Text
  <2> QED
    BY <1>3, <2>1 DEF TornBody
<1>4. CASE AppendNewline
  <2>1. Append(lines, tail) \in Seq(Text) /\ <<>> \in Text
    BY DEF Text
  <2> QED
    BY <1>4, <2>1 DEF AppendNewline
<1>5. CASE NewlineFails
  BY <1>5 DEF NewlineFails, fileVars
<1> QED
  BY <1>2, <1>3, <1>4, <1>5

(* So do the death of the process and its next start. *)
LEMMA LifeTyped ==
  ASSUME LogTypeOK, Kill \/ PowerLoss \/ Restart \/ Recovering
  PROVE  LogTypeOK'
<1> USE DEF LogTypeOK
<1>1. CASE Kill
  BY <1>1 DEF Kill, LoseMemory
<1>2. CASE PowerLoss
  <2>1. PICK n \in 0 .. Len(lines) :
          /\ lines' = SubSeq(lines, 1, n)
          /\ LET next == IF n < Len(lines) THEN lines[n + 1] ELSE tail
             IN  \E m \in 0 .. Len(next) : tail' = SubSeq(next, 1, m)
    BY <1>2 DEF PowerLoss
  <2> DEFINE next == IF n < Len(lines) THEN lines[n + 1] ELSE tail
  <2>2. next \in Text
    <3>1. CASE n < Len(lines)
      BY <3>1, ElementOfSeq
    <3> QED
      BY <3>1
  <2>3. PICK m \in 0 .. Len(next) : tail' = SubSeq(next, 1, m)
    BY <2>1
  <2> HIDE DEF next
  <2>4. tail' \in Text
    BY <2>2, <2>3, PartsAreText DEF Text
  <2>5. lines' \in Seq(Text)
    <3>1. \A i \in 1 .. n : lines[i] \in Text
      BY ElementOfSeq
    <3> QED
      BY <2>1, <3>1, SubSeqProperties
  <2> QED
    BY <1>2, <2>4, <2>5 DEF PowerLoss, LoseMemory
<1>3. CASE Restart
  BY <1>3 DEF Restart
<1>4. CASE Recovering
  BY <1>4 DEF Recovering, RecoverLine, RecoverFails, ReadFails, RecoverDone
<1> QED
  BY <1>1, <1>2, <1>3, <1>4

-----------------------------------------------------------------------------
LEMMA GreatestNumber ==
  ASSUME NEW n \in Nat, NEW T \in SUBSET (1 .. n), T # {}
  PROVE  Max(T) \in T /\ \A i \in T : Max(T) >= i
<1> DEFINE U == {n - i : i \in T}
<1>0. \A i \in T : i \in Int /\ n - i \in Nat
  OBVIOUS
<1>1. U \in SUBSET Nat /\ U # {}
  BY <1>0
<1>2. PICK u \in U : \A w \in U : u <= w
  BY <1>1, LeastNumber
<1>3. PICK m \in T : u = n - m
  BY <1>2
<1>4. \A i \in T : m >= i
  <2> SUFFICES ASSUME NEW i \in T PROVE m >= i
    OBVIOUS
  <2>1. n - m <= n - i
    BY <1>2, <1>3
  <2> QED
    BY <1>0, <2>1
<1> QED
  BY <1>4 DEF Max

(* What a record that comes after a log changes of what each key's last    *)
(* record is.                                                              *)
LEMMA NamingAppended ==
  ASSUME NEW rs \in Seq(AnyRecord), NEW r \in AnyRecord \ {Unreadable}
  PROVE  LET all == Append(rs, r)
         IN  /\ KeysIn(all) = KeysIn(rs) \cup {r.key}
             /\ all[LastNaming(all, r.key)] = r
             /\ \A k \in KeysIn(rs) \ {r.key} :
                  all[LastNaming(all, k)] = rs[LastNaming(rs, k)]
<1> DEFINE all == Append(rs, r)
           n == Len(rs)
<1>1. /\ n \in Nat /\ DOMAIN rs = 1 .. n /\ DOMAIN all = 1 .. n + 1
      /\ \A i \in 1 .. n : all[i] = rs[i]
      /\ all[n + 1] = r
  OBVIOUS
<1> HIDE DEF all, n
<1>2. KeysIn(all) = KeysIn(rs) \cup {r.key}
  <2>1. {j \in DOMAIN all : all[j] # Unreadable}
          = {j \in DOMAIN rs : rs[j] # Unreadable} \cup {n + 1}
    BY <1>1
  <2>2. n + 1 \notin DOMAIN rs
    BY <1>1
  <2> QED
    BY <1>1, <2>1, <2>2 DEF KeysIn
<1>3. all[LastNaming(all, r.key)] = r
  <2>1. Naming(all, r.key) \in SUBSET (1 .. n + 1) /\ n + 1 \in Naming(all, r.key)
    BY <1>1 DEF Naming
  <2>2. \A i \in Naming(all, r.key) : n + 1 >= i /\ (i >= n + 1 => i = n + 1)
    BY <1>1, <2>1
  <2>3. Max(Naming(all, r.key)) = n + 1
    BY <2>1, <2>2 DEF Max
  <2> QED
    BY <1>1, <2>3 DEF LastNaming
<1>4. ASSUME NEW k \in KeysIn(rs) \ {r.key}
      PROVE  all[LastNaming(all, k)] = rs[LastNaming(rs, k)]
  <2>1. Naming(all, k) = Naming(rs, k)
    BY <1>1, <1>4 DEF Naming
  <2>2. Naming(rs, k) \in SUBSET (1 .. n) /\ Naming(rs, k) # {}
    BY <1>1, <1>4 DEF Naming, KeysIn
  <2>3. LastNaming(rs, k) \in 1 .. n
    BY <1>1, <2>2, GreatestNumber DEF LastNaming
  <2> QED
    BY <1>1, <2>1, <2>3 DEF LastNaming
<1> QED
  BY <1>2, <1>3, <1>4 DEF all

(* Replaying one more record is what it adds to the log: the loop body of  *)
(* recover computes, record by record, what the last record of each key    *)
(* says.                                                                   *)
LEMMA ReplayAppends ==
  ASSUME NEW rs \in Seq(AnyRecord), NEW r \in AnyRecord \ {Unreadable}, NEW t
  PROVE  Replay(Lasting(Left[rs]), r, t) = Lasting(Left[Append(rs, r)])
<1> DEFINE all == Append(rs, r)
           d == Lasting(Left[rs])
<1>1. all \in Seq(AnyRecord)
  OBVIOUS
<1>2. /\ DOMAIN d = KeysLeft(rs)
      /\ \A k \in KeysLeft(rs) :
           d[k] = [value |-> rs[LastNaming(rs, k)].value, exp |-> Never]
  BY DEF Lasting, Left
<1>3. Lasting(Left[all])
        = [k \in KeysLeft(all) |->
             [value |-> all[LastNaming(all, k)].value, exp |-> Never]]
  BY <1>1 DEF Lasting, Left
<1>4. /\ KeysIn(all) = KeysIn(rs) \cup {r.key}
      /\ all[LastNaming(all, r.key)] = r
      /\ \A k \in KeysIn(rs) \ {r.key} :
           all[LastNaming(all, k)] = rs[LastNaming(rs, k)]
  BY NamingAppended
<1> HIDE DEF all, d
<1>5. CASE r.op = "set"
  <2>1. SweepExpired(d, t) = d
    BY <1>2 DEF SweepExpired, Restrict, LiveKeys, Expired, Lasting, d
  <2>2. Replay(d, r, t)
          = [k \in KeysLeft(rs) \cup {r.key} |->
               IF k = r.key THEN [value |-> r.value, exp |-> Never] ELSE d[k]]
    BY <1>2, <1>5, <2>1 DEF Replay, SetEntry, Insert, Deadline
  <2>3. KeysLeft(all) = KeysLeft(rs) \cup {r.key}
    BY <1>4, <1>5 DEF KeysLeft
  <2>4. \A k \in KeysLeft(all) :
          [value |-> all[LastNaming(all, k)].value, exp |-> Never]
            = IF k = r.key THEN [value |-> r.value, exp |-> Never] ELSE d[k]
    BY <1>2, <1>4, <2>3 DEF KeysLeft
  <2>5. Lasting(Left[all])
          = [k \in KeysLeft(rs) \cup {r.key} |->
               IF k = r.key THEN [value |-> r.value, exp |-> Never] ELSE d[k]]
    BY <1>3, <2>3, <2>4
  <2> QED
    BY <2>2, <2>5 DEF d, all
<1>6. CASE r.op = "del"
  <2>1. Replay(d, r, t) = [k \in KeysLeft(rs) \ {r.key} |-> d[k]]
    BY <1>2, <1>6 DEF Replay, DeleteEntry, Restrict
  <2>2. KeysLeft(all) = KeysLeft(rs) \ {r.key}
    BY <1>4, <1>6 DEF KeysLeft
  <2>3. \A k \in KeysLeft(all) :
          [value |-> all[LastNaming(all, k)].value, exp |-> Never] = d[k]
    BY <1>2, <1>4, <2>2 DEF KeysLeft
  <2> QED
    BY <1>3, <2>1, <2>2, <2>3 DEF d, all
<1> QED
  BY <1>5, <1>6 DEF AnyRecord

LEMMA ReadBackGrows ==
  ASSUME NEW ls \in Seq(Text), NEW n \in 0 .. Len(ls) - 1
  PROVE  /\ ReadBack(ls, n) \in Seq(AnyRecord)
         /\ ReadBack(ls, n + 1) = Append(ReadBack(ls, n), FromLine[ls[n + 1]])
<1>1. \A i \in 1 .. Len(ls) : FromLine[ls[i]] \in AnyRecord
  BY ElementOfSeq, FromLineTyped
<1>2. n \in Nat /\ Len(ls) \in Nat /\ n + 1 \in 1 .. Len(ls)
  OBVIOUS
<1>3. /\ ReadBack(ls, n) \in [1 .. n -> AnyRecord]
      /\ ReadBack(ls, n + 1) \in [1 .. n + 1 -> AnyRecord]
  BY <1>1, <1>2 DEF ReadBack
<1>4. /\ ReadBack(ls, n) \in Seq(AnyRecord) /\ Len(ReadBack(ls, n)) = n
      /\ ReadBack(ls, n + 1) \in Seq(AnyRecord) /\ Len(ReadBack(ls, n + 1)) = n + 1
  BY <1>2, <1>3
<1>5. /\ \A i \in 1 .. n : ReadBack(ls, n + 1)[i] = ReadBack(ls, n)[i]
      /\ ReadBack(ls, n + 1)[n + 1] = FromLine[ls[n + 1]]
  BY <1>2 DEF ReadBack
<1> DEFINE a == Append(ReadBack(ls, n), FromLine[ls[n + 1]])
<1>6. /\ a \in Seq(AnyRecord) /\ Len(a) = n + 1
      /\ \A i \in 1 .. n : a[i] = ReadBack(ls, n)[i]
      /\ a[n + 1] = FromLine[ls[n + 1]]
  BY <1>1, <1>2, <1>4
<1> HIDE DEF a
<1>7. ReadBack(ls, n + 1) = a
  BY <1>2, <1>4, <1>5, <1>6, SeqEqual
<1> QED
  BY <1>4, <1>7 DEF a

-----------------------------------------------------------------------------
(* What recover has done so far: it has read pos lines, all readable, and  *)
(* the store is what they say.  That the lines were readable is what the   *)
(* next line's step, and the end of the recovery, need to know.            *)
RecoverInv ==
  /\ LogTypeOK
  /\ phase = "recovering" =>
       /\ pos <= Len(File)
       /\ \A i \in 1 .. pos : FromLine[File[i]] # Unreadable
       /\ data = Lasting(Left[ReadBack(File, pos)])

LEMMA FileIsText == LogTypeOK => File \in Seq(Text)
  BY DEF LogTypeOK, File, LinesOf

(* The empty log says nothing of any key. *)
LEMMA NothingLeft == Lasting(Left[<<>>]) = EmptyMap
<1>1. <<>> \in Seq(AnyRecord) /\ KeysLeft(<<>>) = {}
  BY DEF KeysLeft, KeysIn
<1>2. DOMAIN Left[<<>>] = {}
  BY <1>1 DEF Left
<1> QED
  BY <1>2 DEF Lasting, EmptyMap

(* The start and each turn of recover's loop keep it. *)
LEMMA RecoveryStep ==
  ASSUME RecoverInv, LogTypeOK', Restart \/ Recovering
  PROVE  RecoverInv'
<1>1. LogTypeOK /\ LogTypeOK'
  BY DEF RecoverInv
<1>2. CASE Restart
  <2>1. pos' = 0 /\ data' = EmptyMap
    BY <1>2 DEF Restart
  <2>2. ReadBack(File', 0) = <<>>
    BY DEF ReadBack
  <2>3. Len(File') \in Nat
    BY <1>2, <1>1, FileIsText DEF Restart, File
  <2> QED
    BY <1>1, <2>1, <2>2, <2>3, NothingLeft DEF RecoverInv
<1>3. CASE RecoverLine
  <2> DEFINE r == FromLine[File[pos + 1]]
  <2>1. /\ phase = "recovering" /\ pos < Len(File) /\ r # Unreadable
        /\ pos' = pos + 1 /\ data' = Replay(data, r, now)
        /\ File' = File
    BY <1>3 DEF RecoverLine, File
  <2>2. /\ pos \in 0 .. Len(File) - 1 /\ pos + 1 \in 1 .. Len(File)
        /\ File \in Seq(Text)
    BY <1>1, <2>1, FileIsText DEF LogTypeOK
  <2>3. r \in AnyRecord \ {Unreadable}
    BY <2>1, <2>2, ElementOfSeq, FromLineTyped
  <2>4. /\ ReadBack(File, pos) \in Seq(AnyRecord)
        /\ ReadBack(File, pos + 1) = Append(ReadBack(File, pos), r)
    BY <2>2, ReadBackGrows
  <2>5. data = Lasting(Left[ReadBack(File, pos)])
    BY <2>1 DEF RecoverInv
  <2>6. data' = Lasting(Left[ReadBack(File, pos + 1)])
    BY <2>1, <2>3, <2>4, <2>5, ReplayAppends
  <2>7. \A i \in 1 .. pos : FromLine[File[i]] # Unreadable
    BY <2>1 DEF RecoverInv
  <2>8. \A i \in 1 .. pos + 1 : FromLine[File[i]] # Unreadable
    BY <2>1, <2>2, <2>7
  <2> HIDE DEF r
  <2> QED
    BY <1>1, <2>1, <2>2, <2>6, <2>8 DEF RecoverInv
<1>4. CASE RecoverFails \/ ReadFails \/ RecoverDone
  BY <1>1, <1>4 DEF RecoverFails, ReadFails, RecoverDone, RecoverInv
<1> QED
  BY <1>2, <1>3, <1>4 DEF Recovering
=============================================================================
