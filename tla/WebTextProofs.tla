--------------------------- MODULE WebTextProofs ---------------------------
(***************************************************************************)
(* Theorems about the texts of the web page, as WebText.tla has them, for  *)
(* texts of any length over any symbols: what a browser sends arrives, the *)
(* page finds every key and every value in the replies of the server, and  *)
(* the reader sees the text that was shown.                                *)
(* An operator that goes over a text piece by piece is described first:    *)
(* Scan, FlattenSeq and InOrder by what they make of pieces laid end to    *)
(* end (ScanByPieces, FlattenCuts, InOrderIs), then each function of       *)
(* src/web.rs by those.                                                    *)
(***************************************************************************)
EXTENDS WebText, ParserProofs

(* Induction over the numbers up to n, for a set of them. *)
LEMMA StepByStep ==
  ASSUME NEW n \in Nat, NEW P, 0 \in P, \A k \in 0 .. n - 1 : k \in P => k + 1 \in P
  PROVE  \A k \in 0 .. n : k \in P
<1> DEFINE T == {k \in 0 .. n : k \notin P}
<1> SUFFICES ASSUME T # {} PROVE FALSE
  OBVIOUS
<1>1. T \in SUBSET Nat
  OBVIOUS
<1>2. PICK x \in T : \A y \in T : x <= y
  BY <1>1, LeastNumber
<1>3. x # 0 /\ x \in 0 .. n /\ x - 1 \in 0 .. n - 1
  BY <1>2
<1>4. x - 1 \in P
  BY <1>2, <1>3
<1>5. (x - 1) + 1 \in P
  BY <1>3, <1>4
<1> QED
  BY <1>2, <1>3, <1>5

(* F[i] is what a scan puts out from i on. *)
IsScan(F, out, step) ==
  \A i \in Nat \ {0} :
    F[i] = IF i > Len(out) THEN <<>> ELSE <<out[i]>> \o F[i + step[i]]

LEMMA ScanIs ==
  ASSUME NEW A, NEW out \in Seq(A), NEW step \in [1 .. Len(out) -> Nat \ {0}]
  PROVE  \E F \in [Nat \ {0} -> Seq(A)] : Scan(out, step) = F[1] /\ IsScan(F, out, step)
<1> DEFINE n == Len(out)
           Pos == Nat \ {0}
           Rest(F, i) == IF i > n THEN <<>> ELSE <<out[i]>> \o F[i + step[i]]
           P == {k \in 0 .. n : \E F \in [Pos -> Seq(A)] :
                                  \A i \in Pos : i > n - k => F[i] = Rest(F, i)}
<1>0. /\ n \in Nat /\ <<>> \in Seq(A)
      /\ \A i \in Pos : ~(i > n) => /\ i \in 1 .. n /\ <<out[i]>> \in Seq(A)
                                    /\ i + step[i] \in Pos /\ i + step[i] > i
  <2>1. \A i \in 1 .. n : out[i] \in A /\ step[i] \in Nat \ {0}
    BY ElementOfSeq
  <2> QED
    BY <2>1
<1> HIDE DEF n
<1>1. 0 \in P
  <2> DEFINE F == [i \in Pos |-> <<>>]
  <2>1. F \in [Pos -> Seq(A)]
    BY <1>0
  <2>2. ASSUME NEW i \in Pos, i > n - 0 PROVE F[i] = Rest(F, i)
    BY <1>0, <2>2
  <2>3. \E H \in [Pos -> Seq(A)] : \A i \in Pos : i > n - 0 => H[i] = Rest(H, i)
    <3> HIDE DEF F, Rest
    <3> QED
      BY <2>1, <2>2
  <2>4. 0 \in 0 .. n
    BY <1>0
  <2> HIDE DEF F, Rest
  <2> QED
    BY <2>3, <2>4
<1>2. ASSUME NEW k \in 0 .. n - 1, k \in P PROVE k + 1 \in P
  <2>1. PICK F \in [Pos -> Seq(A)] : \A i \in Pos : i > n - k => F[i] = Rest(F, i)
    BY <1>2
  <2>2. PICK m : m = n - k
    OBVIOUS
  <2>3. m \in Pos /\ ~(m > n) /\ k + 1 \in 0 .. n /\ n - (k + 1) = m - 1
    BY <1>0, <2>2
  <2> DEFINE G == [F EXCEPT ![m] = <<out[m]>> \o F[m + step[m]]]
  <2>4. G \in [Pos -> Seq(A)] /\ \A i \in Pos : i # m => G[i] = F[i]
    BY <1>0, <2>3, ConcatProperties
  <2>5. G[m] = <<out[m]>> \o F[m + step[m]]
    BY <2>3
  <2> HIDE DEF G
  <2>6. ASSUME NEW i \in Pos, i > m - 1 PROVE G[i] = Rest(G, i)
    <3>1. CASE i = m
      <4>1. i + step[i] # m /\ i + step[i] \in Pos /\ ~(i > n)
        BY <1>0, <2>3, <3>1
      <4> QED
        BY <2>4, <2>5, <3>1, <4>1
    <3>2. CASE i # m
      <4>0. i > m
        BY <1>0, <2>3, <2>6, <3>2
      <4>1. i > m /\ G[i] = F[i] /\ F[i] = Rest(F, i)
        <5>1. F[i] = Rest(F, i)
          BY <2>1, <2>2, <4>0
        <5> QED
          BY <2>4, <3>2, <4>0, <5>1
      <4>2. ~(i > n) => G[i + step[i]] = F[i + step[i]]
        BY <1>0, <2>3, <2>4, <4>1
      <4> QED
        BY <4>1, <4>2
    <3> QED
      BY <3>1, <3>2
  <2>7. \A i \in Pos : i > n - (k + 1) => G[i] = Rest(G, i)
    BY <2>3, <2>6
  <2> QED
    BY <2>3, <2>4, <2>7
<1>3. n \in P
  <2> HIDE DEF P
  <2>1. \A k \in 0 .. n : k \in P
    BY <1>0, <1>1, <1>2, StepByStep
  <2> QED
    BY <1>0, <2>1
<1>4. PICK F \in [Pos -> Seq(A)] : \A i \in Pos : F[i] = Rest(F, i)
  BY <1>0, <1>3
<1>5. \E G : G = [i \in Pos |-> Rest(G, i)]
  <2>1. F = [i \in Pos |-> Rest(F, i)]
    BY <1>4
  <2> QED
    BY <2>1
<1> DEFINE G == CHOOSE G : G = [i \in Pos |-> Rest(G, i)]
<1>6. G = [i \in Pos |-> Rest(G, i)]
  BY <1>5
<1>7. Scan(out, step) = G[1]
  BY DEF Scan, n
<1> HIDE DEF G
<1> DEFINE Q == {k \in 0 .. n : \A i \in Pos : i > n - k => G[i] = F[i]}
<1>8. n \in Q
  <2>1. 0 \in Q
    <3>1. ASSUME NEW i \in Pos, i > n - 0 PROVE G[i] = F[i]
      <4>1. i > n
        BY <1>0, <3>1
      <4>2. G[i] = Rest(G, i) /\ F[i] = Rest(F, i)
        BY <1>4, <1>6
      <4> QED
        BY <4>1, <4>2
    <3> QED
      BY <1>0, <3>1
  <2>2. ASSUME NEW k \in 0 .. n - 1, k \in Q PROVE k + 1 \in Q
    <3>1. PICK m : m = n - k
      OBVIOUS
    <3>2. m \in Pos /\ ~(m > n) /\ k + 1 \in 0 .. n /\ n - (k + 1) = m - 1
      BY <1>0, <3>1
    <3>3. G[m + step[m]] = F[m + step[m]]
      BY <1>0, <2>2, <3>1, <3>2
    <3>4. G[m] = F[m]
      BY <1>4, <1>6, <3>2, <3>3
    <3>5. \A i \in Pos : i > m - 1 => i > n - k \/ i = m
      BY <3>1, <3>2, <1>0
    <3> QED
      BY <2>2, <3>2, <3>4, <3>5
  <2> HIDE DEF Q
  <2>3. \A k \in 0 .. n : k \in Q
    BY <1>0, <2>1, <2>2, StepByStep
  <2> QED
    BY <1>0, <2>3
<1>9. G[1] = F[1]
  BY <1>0, <1>8
<1>10. IsScan(F, out, step)
  BY <1>4 DEF IsScan, n
<1> QED
  BY <1>7, <1>9, <1>10

LEMMA FlattenIs ==
  ASSUME NEW A, NEW ss \in Seq(Seq(A))
  PROVE  \E F \in [0 .. Len(ss) -> Seq(A)] :
           /\ F[0] = <<>> /\ FlattenSeq(ss) = F[Len(ss)]
           /\ \A k \in 1 .. Len(ss) : F[k] = F[k - 1] \o ss[k]
<1>1. PICK n : n = Len(ss)
  OBVIOUS
<1>2. /\ n \in Nat /\ <<>> \in Seq(A) /\ \A k \in 1 .. n : ss[k] \in Seq(A)
      /\ n = 0 => ss = <<>>
  BY <1>1, ElementOfSeq
<1> DEFINE Grows(F, k) == F[k] = F[k - 1] \o ss[k]
           P == {k \in 0 .. n : \E F \in [0 .. n -> Seq(A)] :
                                  F[0] = <<>> /\ \A i \in 1 .. k : Grows(F, i)}
<1>3. 0 \in P
  <2> DEFINE F == [i \in 0 .. n |-> <<>>]
  <2>1. F \in [0 .. n -> Seq(A)] /\ F[0] = <<>>
    BY <1>2
  <2> HIDE DEF F, Grows
  <2>2. \E H \in [0 .. n -> Seq(A)] : H[0] = <<>> /\ \A i \in 1 .. 0 : Grows(H, i)
    <3>1. \A i \in 1 .. 0 : FALSE
      OBVIOUS
    <3> QED
      BY <2>1, <3>1
  <2>3. 0 \in 0 .. n
    BY <1>2
  <2> QED
    BY <2>2, <2>3
<1>4. ASSUME NEW k \in 0 .. n - 1, k \in P PROVE k + 1 \in P
  <2>1. PICK F \in [0 .. n -> Seq(A)] : F[0] = <<>> /\ \A i \in 1 .. k : Grows(F, i)
    BY <1>4
  <2>2. PICK m : m = k + 1
    OBVIOUS
  <2>3. m \in 1 .. n /\ m - 1 = k /\ k \in 0 .. n /\ k \in Nat /\ m \in 0 .. n
    BY <1>2, <2>2
  <2> DEFINE G == [F EXCEPT ![m] = F[k] \o ss[m]]
  <2>4. F[k] \o ss[m] \in Seq(A)
    BY <1>2, <2>3, ConcatProperties
  <2>5. /\ G \in [0 .. n -> Seq(A)] /\ G[m] = F[k] \o ss[m]
        /\ \A i \in 0 .. n : i # m => G[i] = F[i]
    BY <2>3, <2>4
  <2> HIDE DEF G
  <2>6. G[0] = <<>> /\ G[k] = F[k]
    BY <1>2, <2>1, <2>3, <2>5
  <2>7. ASSUME NEW i \in 1 .. m PROVE Grows(G, i)
    <3>1. CASE i = m
      BY <2>3, <2>5, <2>6, <3>1
    <3>2. CASE i # m
      <4>1. i \in 1 .. k /\ i \in 0 .. n /\ i - 1 \in 0 .. n /\ i # m /\ i - 1 # m
        BY <1>2, <2>3, <3>2
      <4> QED
        BY <2>1, <2>5, <4>1
    <3> QED
      BY <3>1, <3>2
  <2>8. k + 1 \in 0 .. n
    BY <2>2, <2>3
  <2> HIDE DEF Grows
  <2>9. \E H \in [0 .. n -> Seq(A)] : H[0] = <<>> /\ \A i \in 1 .. k + 1 : Grows(H, i)
    BY <2>2, <2>5, <2>6, <2>7
  <2> QED
    BY <2>8, <2>9
<1>5. n \in P
  <2> HIDE DEF P
  <2>1. \A k \in 0 .. n : k \in P
    BY <1>2, <1>3, <1>4, StepByStep
  <2> QED
    BY <1>2, <2>1
<1>6. PICK F \in [0 .. n -> Seq(A)] : F[0] = <<>> /\ \A i \in 1 .. n : Grows(F, i)
  BY <1>5
<1>7. FlattenSeq(ss) = F[n]
  <2>1. CASE n = 0
    <3>1. Len(ss) = 0 /\ ss = <<>> /\ F[n] = <<>>
      BY <1>1, <1>2, <1>6, <2>1
    <3>2. FlattenSeq(ss) = ss
      BY <3>1 DEF FlattenSeq
    <3> QED
      BY <3>1, <3>2
  <2>2. CASE n # 0
    <3> DEFINE Def(f) == [i \in 1 .. n |-> IF i = 1 THEN ss[i] ELSE f[i - 1] \o ss[i]]
               G == CHOOSE f : f = Def(f)
               H == [i \in 1 .. n |-> F[i]]
    <3>1. H = Def(H)
      <4>1. ASSUME NEW i \in 1 .. n
            PROVE  H[i] = IF i = 1 THEN ss[i] ELSE H[i - 1] \o ss[i]
        <5>0. i \in 0 .. n /\ i - 1 \in 0 .. n
          BY <1>2
        <5>1. i \in 0 .. n /\ i - 1 \in 0 .. n /\ F[i] = F[i - 1] \o ss[i]
          BY <1>6, <5>0
        <5>2. CASE i = 1
          <6>1. i - 1 = 0 /\ ss[i] \in Seq(A)
            BY <1>2, <5>2
          <6>2. F[i] = <<>> \o ss[i]
            BY <1>6, <5>1, <6>1
          <6>3. F[i] = ss[i]
            BY <6>1, <6>2, ConcatEmptySeq
          <6> QED
            BY <5>2, <6>3
        <5>3. CASE i # 1
          <6>1. i - 1 \in 1 .. n
            BY <1>2, <5>3
          <6> QED
            BY <5>1, <5>3, <6>1
        <5> QED
          BY <5>2, <5>3
      <4> QED
        BY <4>1
    <3>2. G = Def(G)
      BY <3>1
    <3>3. FlattenSeq(ss) = G[n]
      BY <1>1, <2>2 DEF FlattenSeq
    <3> HIDE DEF G
    <3> DEFINE Q == {k \in 0 .. n : k = 0 \/ G[k] = F[k]}
    <3>4. 0 \in Q
      BY <1>2
    <3>5. ASSUME NEW k \in 0 .. n - 1, k \in Q PROVE k + 1 \in Q
      <4>1. PICK m : m = k + 1
        OBVIOUS
      <4>2. m \in 1 .. n /\ m - 1 = k /\ k \in Nat /\ m \in 0 .. n
        BY <1>2, <4>1
      <4>3. G[m] = IF m = 1 THEN ss[m] ELSE G[k] \o ss[m]
        BY <3>2, <4>2
      <4>4. F[m] = F[k] \o ss[m]
        BY <1>6, <4>2
      <4>5. G[m] = F[m]
        <5>1. CASE m = 1
          <6>1. k = 0 /\ ss[m] \in Seq(A)
            BY <1>2, <4>2, <5>1
          <6>2. F[m] = <<>> \o ss[m]
            BY <1>6, <4>4, <6>1
          <6>3. F[m] = ss[m]
            BY <6>1, <6>2, ConcatEmptySeq
          <6> QED
            BY <4>3, <5>1, <6>3
        <5>2. CASE m # 1
          <6>1. k # 0
            BY <4>2, <5>2
          <6>2. G[k] = F[k]
            BY <3>5, <6>1
          <6> QED
            BY <4>3, <4>4, <5>2, <6>2
        <5> QED
          BY <5>1, <5>2
      <4> QED
        BY <4>1, <4>2, <4>5
    <3>6. n \in Q
      <4> HIDE DEF Q
      <4>1. \A k \in 0 .. n : k \in Q
        BY <1>2, <3>4, <3>5, StepByStep
      <4> QED
        BY <1>2, <4>1
    <3> QED
      BY <2>2, <3>3, <3>6
  <2> QED
    BY <2>1, <2>2
<1> QED
  BY <1>1, <1>6, <1>7

(* f is the first n pieces of ss end to end; piece k ends at o[k]. *)
EndToEnd(f, ss, n, o) ==
  /\ Len(f) = o[n]
  /\ \A k \in 1 .. n :
       /\ o[k] = o[k - 1] + Len(ss[k]) /\ o[k] <= o[n]
       /\ \A j \in 1 .. Len(ss[k]) : f[o[k - 1] + j] = ss[k][j]
  /\ \A i \in 1 .. o[n] : \E k \in 1 .. n : i \in o[k - 1] + 1 .. o[k]

LEMMA FlattenCuts ==
  ASSUME NEW A, NEW ss \in Seq(Seq(A))
  PROVE  /\ FlattenSeq(ss) \in Seq(A)
         /\ \E o \in [0 .. Len(ss) -> Nat] :
              o[0] = 0 /\ EndToEnd(FlattenSeq(ss), ss, Len(ss), o)
<1>1. PICK n : n = Len(ss)
  OBVIOUS
<1>2. PICK F \in [0 .. n -> Seq(A)] :
        /\ F[0] = <<>> /\ FlattenSeq(ss) = F[n]
        /\ \A k \in 1 .. n : F[k] = F[k - 1] \o ss[k]
  BY <1>1, FlattenIs
<1> DEFINE o == [k \in 0 .. n |-> Len(F[k])]
           Q == {k \in 0 .. n : EndToEnd(F[k], ss, k, o)}
<1>3. /\ n \in Nat /\ n \in 0 .. n /\ 0 \in 0 .. n
      /\ \A k \in 0 .. n : F[k] \in Seq(A) /\ Len(F[k]) \in Nat
      /\ \A k \in 1 .. n : ss[k] \in Seq(A) /\ Len(ss[k]) \in Nat
  <2>1. n \in Nat /\ \A k \in 1 .. n : ss[k] \in Seq(A)
    BY <1>1, ElementOfSeq
  <2> QED
    BY <2>1
<1>4. o \in [0 .. n -> Nat] /\ o[0] = 0 /\ \A k \in 0 .. n : o[k] = Len(F[k])
  BY <1>2, <1>3
<1> HIDE DEF o
<1>5. 0 \in Q
  <2>1. (\A k \in 1 .. 0 : FALSE) /\ \A i \in 1 .. o[0] : FALSE
    BY <1>4
  <2> QED
    BY <1>3, <1>4, <2>1 DEF EndToEnd
<1>6. ASSUME NEW k \in 0 .. n - 1, k \in Q PROVE k + 1 \in Q
  <2>1. PICK m, p, q : m = k + 1 /\ p = o[k] /\ q = Len(ss[m])
    OBVIOUS
  <2>2. /\ m \in 1 .. n /\ m - 1 = k /\ k \in 0 .. n /\ k \in Nat /\ m \in 0 .. n
        /\ p \in Nat /\ q \in Nat
    <3>1. m \in 1 .. n /\ m - 1 = k /\ k \in 0 .. n /\ k \in Nat /\ m \in 0 .. n
      BY <1>3, <2>1
    <3> QED
      BY <1>3, <1>4, <2>1, <3>1
  <2>3. F[m] = F[k] \o ss[m] /\ Len(F[k]) = p /\ F[k] \in Seq(A) /\ ss[m] \in Seq(A)
    BY <1>2, <1>3, <1>4, <2>1, <2>2
  <2>4. /\ o[m] = p + q /\ Len(F[m]) = p + q
        /\ \A i \in 1 .. p : F[m][i] = F[k][i]
        /\ \A i \in 1 .. q : F[m][p + i] = ss[m][i]
    <3>1. /\ Len(F[m]) = p + q
          /\ \A i \in 1 .. p + q :
               F[m][i] = IF i <= p THEN F[k][i] ELSE ss[m][i - p]
      <4>1. /\ Len(F[k] \o ss[m]) = Len(F[k]) + Len(ss[m])
            /\ \A i \in 1 .. Len(F[k]) + Len(ss[m]) :
                 (F[k] \o ss[m])[i]
                   = IF i <= Len(F[k]) THEN F[k][i] ELSE ss[m][i - Len(F[k])]
        BY <2>3, ConcatProperties
      <4> QED
        BY <2>1, <2>3, <4>1
    <3>2. ASSUME NEW i \in 1 .. p PROVE F[m][i] = F[k][i]
      <4>1. i \in 1 .. p + q /\ i <= p
        BY <2>2
      <4> QED
        BY <3>1, <4>1
    <3>3. ASSUME NEW i \in 1 .. q PROVE F[m][p + i] = ss[m][i]
      <4>1. p + i \in 1 .. p + q /\ ~(p + i <= p) /\ (p + i) - p = i
        BY <2>2
      <4> QED
        BY <3>1, <4>1
    <3>4. o[m] = p + q
      BY <1>4, <2>2, <3>1
    <3> QED
      BY <3>1, <3>2, <3>3, <3>4
  <2>5. EndToEnd(F[k], ss, k, o)
    BY <1>6
  <2>6. ASSUME NEW l \in 1 .. m
        PROVE  /\ o[l] = o[l - 1] + Len(ss[l]) /\ o[l] <= o[m]
               /\ \A j \in 1 .. Len(ss[l]) : F[m][o[l - 1] + j] = ss[l][j]
    <3>1. CASE l = m
      BY <2>1, <2>2, <2>4, <3>1
    <3>2. CASE l # m
      <4>1. l \in 1 .. k /\ l \in 0 .. n /\ l - 1 \in 0 .. n
        BY <2>2, <3>2, <1>3
      <4>2. /\ o[l] = o[l - 1] + Len(ss[l]) /\ o[l] <= p
            /\ \A j \in 1 .. Len(ss[l]) : F[k][o[l - 1] + j] = ss[l][j]
        BY <2>1, <2>5, <4>1 DEF EndToEnd
      <4>3. PICK a, b : a = o[l - 1] /\ b = Len(ss[l])
        OBVIOUS
      <4>4. a \in Nat /\ b \in Nat /\ o[l] = a + b /\ a + b <= p
        <5>1. b \in Nat
          BY <1>3, <4>1, <4>3
        <5>2. a \in Nat
          BY <1>4, <4>1, <4>3
        <5> QED
          BY <4>2, <4>3, <5>1, <5>2
      <4>5. o[l] <= o[m]
        <5>1. o[m] = p + q
          BY <2>4
        <5> QED
          BY <2>2, <4>4, <5>1
      <4>6. \A j \in 1 .. Len(ss[l]) : o[l - 1] + j \in 1 .. p
        <5>1. \A j \in 1 .. b : a + j \in 1 .. p
          BY <2>2, <4>4
        <5> QED
          BY <4>3, <5>1
      <4> QED
        BY <2>4, <4>2, <4>5, <4>6
    <3> QED
      BY <3>1, <3>2
  <2>7. ASSUME NEW i \in 1 .. o[m] PROVE \E l \in 1 .. m : i \in o[l - 1] + 1 .. o[l]
    <3>1. CASE i <= p
      <4>1. i \in 1 .. o[k]
        BY <2>1, <2>2, <2>4, <3>1
      <4>2. PICK l \in 1 .. k : i \in o[l - 1] + 1 .. o[l]
        BY <2>5, <4>1 DEF EndToEnd
      <4>3. l \in 1 .. m
        BY <2>2
      <4> QED
        BY <4>2, <4>3
    <3>2. CASE ~(i <= p)
      <4>1. i \in o[m - 1] + 1 .. o[m] /\ m \in 1 .. m
        BY <2>1, <2>2, <2>4, <3>2
      <4> QED
        BY <4>1
    <3> QED
      BY <3>1, <3>2
  <2>8. EndToEnd(F[m], ss, m, o)
    BY <2>4, <2>6, <2>7 DEF EndToEnd
  <2> QED
    BY <2>1, <2>2, <2>8
<1>7. n \in Q
  <2> HIDE DEF Q
  <2>1. \A k \in 0 .. n : k \in Q
    BY <1>3, <1>5, <1>6, StepByStep
  <2> QED
    BY <1>3, <2>1
<1>8. EndToEnd(FlattenSeq(ss), ss, n, o) /\ FlattenSeq(ss) \in Seq(A)
  BY <1>2, <1>3, <1>7
<1> QED
  BY <1>1, <1>4, <1>8

(* A scan that puts out s[k] at the beginning of piece k, and goes on to   *)
(* the next piece.                                                         *)
LEMMA ScanByPieces ==
  ASSUME NEW A, NEW s \in Seq(A), NEW out \in Seq(A),
         NEW step \in [1 .. Len(out) -> Nat \ {0}],
         NEW o \in [0 .. Len(s) -> Nat], o[0] = 0, o[Len(s)] = Len(out),
         \A k \in 1 .. Len(s) : /\ o[k - 1] + 1 <= Len(out)
                                /\ out[o[k - 1] + 1] = s[k]
                                /\ o[k - 1] + 1 + step[o[k - 1] + 1] = o[k] + 1
  PROVE  Scan(out, step) = s
<1>1. PICK F \in [Nat \ {0} -> Seq(A)] :
        Scan(out, step) = F[1] /\ IsScan(F, out, step)
  BY ScanIs
<1>2. PICK m : m = Len(s)
  OBVIOUS
<1>3. m \in Nat /\ Len(out) \in Nat
  BY <1>2
<1> DEFINE Q == {k \in 0 .. m : F[o[m - k] + 1] = SubSeq(s, m - k + 1, m)}
<1>4. 0 \in Q
  <2>1. m - 0 = m /\ m - 0 + 1 = m + 1 /\ m + 1 \in Int /\ m \in Int /\ m < m + 1 /\ 0 \in 0 .. m
    BY <1>3
  <2>2. SubSeq(s, m + 1, m) = <<>>
    BY <2>1, SubSeqEmpty
  <2>3. o[m] + 1 \in Nat \ {0} /\ o[m] + 1 > Len(out)
    BY <1>2, <1>3
  <2>4. F[o[m] + 1] = <<>>
    BY <1>1, <2>3 DEF IsScan
  <2>5. F[o[m - 0] + 1] = SubSeq(s, m - 0 + 1, m)
    BY <2>1, <2>2, <2>4
  <2> QED
    BY <2>1, <2>5
<1>5. ASSUME NEW k \in 0 .. m - 1, k \in Q PROVE k + 1 \in Q
  <2>1. PICK l : l = m - k
    OBVIOUS
  <2>2. /\ l \in 1 .. m /\ m - (k + 1) = l - 1 /\ m - (k + 1) + 1 = l /\ k + 1 \in 0 .. m
        /\ l - 1 \in 0 .. m /\ l \in 0 .. m
    BY <1>3, <2>1
  <2>3. PICK i : i = o[l - 1] + 1
    OBVIOUS
  <2>4. o[l - 1] \in Nat /\ o[l] \in Nat
    BY <1>2, <2>2
  <2>5. i <= Len(out) /\ out[i] = s[l] /\ i + step[i] = o[l] + 1
    BY <1>2, <2>2, <2>3
  <2>6. i \in Nat \ {0} /\ ~(i > Len(out))
    <3>1. i \in Nat \ {0}
      BY <2>3, <2>4
    <3> QED
      BY <1>3, <2>5, <3>1
  <2>7. F[i] = <<s[l]>> \o F[o[l] + 1]
    BY <1>1, <2>5, <2>6 DEF IsScan
  <2>8. F[o[l] + 1] = SubSeq(s, l + 1, m)
    BY <1>5, <2>1
  <2>9. SubSeq(s, l, m) = <<s[l]>> \o SubSeq(s, l + 1, m)
    <3>1. l \in 1 .. Len(s) /\ m \in l .. Len(s)
      BY <1>2, <1>3, <2>2
    <3> QED
      BY <3>1, SubSeqRecursiveFirst
  <2>10. F[o[m - (k + 1)] + 1] = SubSeq(s, m - (k + 1) + 1, m)
    BY <2>2, <2>3, <2>7, <2>8, <2>9
  <2> QED
    BY <2>2, <2>10
<1>6. m \in Q
  <2> HIDE DEF Q
  <2>1. \A k \in 0 .. m : k \in Q
    BY <1>3, <1>4, <1>5, StepByStep
  <2> QED
    BY <1>3, <2>1
<1>7. m - m = 0 /\ m - m + 1 = 1 /\ o[0] + 1 = 1
  BY <1>3
<1>8. F[1] = SubSeq(s, 1, m)
  BY <1>6, <1>7
<1> QED
  BY <1>1, <1>2, <1>8, SubSeqFull

(* The numbers f[1] < f[2] < ... in their order. *)
LEMMA InOrderIs ==
  ASSUME NEW n \in Nat, NEW f \in [1 .. n -> Nat],
         \A i, j \in 1 .. n : i < j => f[i] < f[j]
  PROVE  LET S == {f[k] : k \in 1 .. n}
         IN  Cardinality(S) = n /\ InOrder(S) = f
<1> DEFINE S == {f[k] : k \in 1 .. n}
           upto(k) == {f[i] : i \in 1 .. k}
<1>1. ASSUME NEW k \in 0 .. n
      PROVE  IsFiniteSet(upto(k)) /\ Cardinality(upto(k)) = k
  <2> DEFINE g == [i \in 1 .. k |-> f[i]]
  <2>0. k \in Nat /\ \A i \in 1 .. k : i \in 1 .. n
    OBVIOUS
  <2>1. g \in [1 .. k -> upto(k)] /\ \A i \in 1 .. k : g[i] = f[i]
    OBVIOUS
  <2>2. ASSUME NEW i \in 1 .. k, NEW j \in 1 .. k, g[i] = g[j] PROVE i = j
    <3>1. f[i] = f[j] /\ i \in 1 .. n /\ j \in 1 .. n
      BY <2>0, <2>1, <2>2
    <3>2. f[i] \in Nat /\ ~(i < j) /\ ~(j < i)
      BY <3>1
    <3> QED
      BY <3>2
  <2>3. \A x \in upto(k) : \E i \in 1 .. k : g[i] = x
    BY <2>1
  <2> HIDE DEF g
  <2>4. g \in Bijection(1 .. k, upto(k))
    BY <2>1, <2>2, <2>3 DEF Bijection, Injection, Surjection, IsInjective
  <2>5. ExistsBijection(1 .. k, upto(k))
    BY <2>4 DEF ExistsBijection
  <2> HIDE DEF upto
  <2> QED
    BY <2>0, <2>5, FS_CountingElements, FS_NatBijection
<1>2. S = upto(n) /\ n \in 0 .. n
  OBVIOUS
<1>3. IsFiniteSet(S) /\ Cardinality(S) = n
  <2> HIDE DEF S, upto
  <2> QED
    BY <1>1, <1>2
<1>4. ASSUME NEW k \in 1 .. n PROVE Nth(S, k) = f[k]
  <2>1. {j \in S : j <= f[k]} = upto(k)
    <3>1. ASSUME NEW i \in 1 .. n PROVE f[i] <= f[k] <=> i \in 1 .. k
      <4>1. f[i] \in Nat /\ f[k] \in Nat
        OBVIOUS
      <4>2. CASE i < k
        BY <4>1, <4>2
      <4>3. CASE i = k
        BY <4>1, <4>3
      <4>4. CASE k < i
        BY <4>1, <4>4
      <4> QED
        BY <4>2, <4>3, <4>4
    <3>2. \A i \in 1 .. k : i \in 1 .. n
      OBVIOUS
    <3> QED
      BY <3>1, <3>2
  <2>2. k \in 0 .. n /\ f[k] \in S /\ S \in SUBSET Nat
    OBVIOUS
  <2>3. Cardinality({j \in S : j <= f[k]}) = k
    BY <1>1, <2>1, <2>2
  <2> HIDE DEF S, upto
  <2> QED
    BY <1>3, <2>2, <2>3, NthIs
<1>5. InOrder(S) = f
  <2> HIDE DEF S
  <2>1. InOrder(S) = [k \in 1 .. n |-> Nth(S, k)]
    BY <1>3 DEF InOrder
  <2>2. [k \in 1 .. n |-> Nth(S, k)] = f
    BY <1>4
  <2> QED
    BY <2>1, <2>2
<1> QED
  BY <1>3, <1>5

-----------------------------------------------------------------------------
(* Shown and read again.                                                   *)
Markup == {"<", ">", "quote", "dquote"}

LEMMA EntityPairs ==
  /\ \A e, f \in Entities : e[1] = f[1] \/ e[2] = f[2] => e = f
  /\ \A e \in Entities : e[2] \notin Markup
  /\ \A c \in Markup \cup {"&"} : \E e \in Entities : e[1] = c
<1>1. \A e, f \in Entities : e[1] = f[1] \/ e[2] = f[2] => e = f
  BY DEF Entities
<1>2. \A e \in Entities : e[2] \notin Markup
  BY DEF Entities, Markup
<1>3. \A c \in Markup \cup {"&"} : \E e \in Entities : e[1] = c
  BY DEF Entities, Markup
<1> QED
  BY <1>1, <1>2, <1>3

LEMMA ShownIs ==
  ASSUME NEW c
  PROVE  \/ \E e \in Entities : e[1] = c /\ Shown(c) = <<"&", e[2], ";">>
         \/ Shown(c) = <<c>> /\ c \notin Markup \cup {"&"}
<1>1. CASE \E e \in Entities : e[1] = c
  <2>1. PICK e : e = CHOOSE g \in Entities : g[1] = c
    OBVIOUS
  <2>2. e \in Entities /\ e[1] = c
    BY <1>1, <2>1
  <2>3. Shown(c) = <<"&", e[2], ";">>
    BY <1>1, <2>1 DEF Shown
  <2> QED
    BY <2>2, <2>3
<1>2. CASE ~\E e \in Entities : e[1] = c
  <2>1. c \notin Markup \cup {"&"}
    BY <1>2, EntityPairs
  <2>2. Shown(c) = <<c>>
    BY <1>2 DEF Shown
  <2> QED
    BY <2>1, <2>2
<1> QED
  BY <1>1, <1>2

(* The text f from p + 1 to q is an entity, or a symbol that needs none.  *)
EntityAt(f, p, q, e) ==
  q = p + 3 /\ f[p + 1] = "&" /\ f[p + 2] = e[2] /\ f[p + 3] = ";"
PlainAt(f, p, q, c) == q = p + 1 /\ f[p + 1] = c /\ c \notin Markup \cup {"&"}

LEMMA ShownReadsBack ==
  ASSUME NEW A, NEW s \in Seq(A)
  PROVE  /\ Unescape(HtmlEscape(s)) = s
         /\ \A i \in DOMAIN HtmlEscape(s) : HtmlEscape(s)[i] \notin Markup
<1>1. PICK B : B = A \cup {"&", ";"} \cup {e[1] : e \in Entities} \cup {e[2] : e \in Entities}
  OBVIOUS
<1>2. PICK m : m = Len(s)
  OBVIOUS
<1>3. PICK ss : ss = [i \in DOMAIN s |-> Shown(s[i])]
  OBVIOUS
<1>4. /\ m \in Nat /\ DOMAIN s = 1 .. m /\ \A k \in 1 .. m : s[k] \in A
      /\ s \in Seq(B)
  <2>1. m \in Nat /\ DOMAIN s = 1 .. m /\ \A k \in 1 .. m : s[k] \in A
    BY <1>2, ElementOfSeq
  <2>2. A \subseteq B
    BY <1>1
  <2> QED
    BY <2>1, <2>2, SeqMonotonic
<1>5. ss \in Seq(Seq(B)) /\ Len(ss) = m /\ \A k \in 1 .. m : ss[k] = Shown(s[k])
  <2>1. ASSUME NEW c \in A PROVE Shown(c) \in Seq(B)
    <3>1. CASE \E e \in Entities : e[1] = c /\ Shown(c) = <<"&", e[2], ";">>
      <4>1. PICK e \in Entities : Shown(c) = <<"&", e[2], ";">>
        BY <3>1
      <4>2. PICK x, y, z : x = "&" /\ y = e[2] /\ z = ";"
        OBVIOUS
      <4>3. x \in B /\ y \in B /\ z \in B
        BY <1>1, <4>2
      <4>4. <<x, y, z>> \in Seq(B)
        BY <4>3
      <4> QED
        BY <4>1, <4>2, <4>4
    <3>2. CASE Shown(c) = <<c>>
      <4>1. c \in B
        BY <1>1
      <4> QED
        BY <3>2, <4>1
    <3> QED
      BY <3>1, <3>2, ShownIs
  <2>2. \A k \in 1 .. m : Shown(s[k]) \in Seq(B)
    BY <1>4, <2>1
  <2>3. ss = [k \in 1 .. m |-> Shown(s[k])]
    BY <1>3, <1>4
  <2> QED
    BY <1>4, <2>2, <2>3
<1>6. PICK f : f = HtmlEscape(s)
  OBVIOUS
<1>7. f = FlattenSeq(ss)
  BY <1>3, <1>6 DEF HtmlEscape
<1>8. PICK o \in [0 .. m -> Nat] : o[0] = 0 /\ EndToEnd(f, ss, m, o)
  BY <1>5, <1>7, FlattenCuts
<1>9. f \in Seq(B) /\ Len(f) \in Nat /\ DOMAIN f = 1 .. Len(f) /\ Len(f) = o[m]
      /\ \A i \in 1 .. Len(f) : f[i] \in B
  <2>1. f \in Seq(B)
    BY <1>5, <1>7, FlattenCuts
  <2> QED
    BY <1>8, <2>1, ElementOfSeq DEF EndToEnd
<1>10. ASSUME NEW k \in 1 .. m
       PROVE  /\ o[k - 1] \in Nat /\ o[k] \in Nat /\ o[k] <= Len(f)
              /\ \/ \E e \in Entities : e[1] = s[k] /\ EntityAt(f, o[k - 1], o[k], e)
                 \/ PlainAt(f, o[k - 1], o[k], s[k])
  <2>1. k - 1 \in 0 .. m /\ k \in 0 .. m
    BY <1>4
  <2>2. /\ o[k] = o[k - 1] + Len(Shown(s[k])) /\ o[k] <= Len(f)
        /\ \A j \in 1 .. Len(Shown(s[k])) : f[o[k - 1] + j] = Shown(s[k])[j]
    <3>1. /\ o[k] = o[k - 1] + Len(ss[k]) /\ o[k] <= o[m]
          /\ \A j \in 1 .. Len(ss[k]) : f[o[k - 1] + j] = ss[k][j]
      BY <1>8 DEF EndToEnd
    <3>2. ss[k] = Shown(s[k]) /\ o[m] = Len(f)
      BY <1>5, <1>9
    <3> QED
      BY <3>1, <3>2
  <2>3. o[k - 1] \in Nat /\ o[k] \in Nat
    BY <2>1
  <2>4. CASE \E e \in Entities : e[1] = s[k] /\ Shown(s[k]) = <<"&", e[2], ";">>
    <3>1. PICK e \in Entities : e[1] = s[k] /\ Shown(s[k]) = <<"&", e[2], ";">>
      BY <2>4
    <3>2. /\ Len(Shown(s[k])) = 3 /\ Shown(s[k])[1] = "&" /\ Shown(s[k])[2] = e[2]
          /\ Shown(s[k])[3] = ";"
      <4>1. PICK n : n = e[2]
        OBVIOUS
      <4>2. PICK t : t = <<"&", n, ";">>
        OBVIOUS
      <4>3. Len(t) = 3 /\ t[1] = "&" /\ t[2] = n /\ t[3] = ";"
        BY <4>2
      <4>4. t = Shown(s[k])
        BY <3>1, <4>1, <4>2
      <4> QED
        BY <4>1, <4>3, <4>4
    <3>3. 1 \in 1 .. 3 /\ 2 \in 1 .. 3 /\ 3 \in 1 .. 3
      OBVIOUS
    <3>4. EntityAt(f, o[k - 1], o[k], e)
      BY <2>2, <3>2, <3>3 DEF EntityAt
    <3> QED
      BY <2>2, <2>3, <3>1, <3>4
  <2>5. CASE Shown(s[k]) = <<s[k]>> /\ s[k] \notin Markup \cup {"&"}
    <3>1. Len(Shown(s[k])) = 1 /\ Shown(s[k])[1] = s[k] /\ 1 \in 1 .. 1
      BY <2>5
    <3>2. PlainAt(f, o[k - 1], o[k], s[k])
      BY <2>2, <2>5, <3>1 DEF PlainAt
    <3> QED
      BY <2>2, <2>3, <3>2
  <2> QED
    BY <2>4, <2>5, ShownIs
<1>11. ASSUME NEW i \in DOMAIN f PROVE f[i] \notin Markup
  <2>0. i \in 1 .. o[m]
    BY <1>9
  <2>1. PICK k \in 1 .. m : i \in o[k - 1] + 1 .. o[k]
    BY <1>8, <2>0 DEF EndToEnd
  <2>2. PICK p, q : p = o[k - 1] /\ q = o[k]
    OBVIOUS
  <2>3. p \in Nat /\ q \in Nat /\ i \in p + 1 .. q
    BY <1>10, <2>1, <2>2
  <2>4. ASSUME NEW e \in Entities, EntityAt(f, p, q, e) PROVE f[i] \notin Markup
    <3>1. q = p + 3 /\ f[p + 1] = "&" /\ f[p + 2] = e[2] /\ f[p + 3] = ";"
      BY <2>4 DEF EntityAt
    <3>2. i = p + 1 \/ i = p + 2 \/ i = p + 3
      <4>1. q = p + 3
        BY <3>1
      <4> QED
        BY <2>3, <4>1
    <3>3. "&" \notin Markup /\ ";" \notin Markup /\ e[2] \notin Markup
      BY EntityPairs DEF Markup
    <3> QED
      BY <3>1, <3>2, <3>3
  <2>5. ASSUME PlainAt(f, p, q, s[k]) PROVE f[i] \notin Markup
    <3>1. i = p + 1
      BY <2>3, <2>5 DEF PlainAt
    <3> QED
      BY <2>5, <3>1 DEF PlainAt
  <2> QED
    BY <1>10, <2>2, <2>4, <2>5
<1> DEFINE At(i) == IF i \in EntitiesIn(f)
                      THEN (CHOOSE e \in Entities : e[2] = f[i + 1])[1]
                      ELSE f[i]
<1>12. PICK out : out = [i \in DOMAIN f |-> At(i)]
  OBVIOUS
<1>13. PICK step : step = [i \in DOMAIN f |-> IF i \in EntitiesIn(f) THEN 3 ELSE 1]
  OBVIOUS
<1>14. Unescape(f) = Scan(out, step)
  BY <1>12, <1>13 DEF Unescape
<1>15. \A i \in DOMAIN f : At(i) \in B
  <2>1. ASSUME NEW i \in EntitiesIn(f)
        PROVE  (CHOOSE e \in Entities : e[2] = f[i + 1])[1] \in B
    <3>1. \E e \in Entities : e[2] = f[i + 1]
      BY DEF EntitiesIn
    <3>2. PICK g : g = CHOOSE e \in Entities : e[2] = f[i + 1]
      OBVIOUS
    <3>3. g \in Entities
      BY <3>1, <3>2
    <3>4. g[1] \in B
      BY <1>1, <3>3
    <3> QED
      BY <3>2, <3>4
  <2> QED
    BY <1>9, <2>1
<1> HIDE DEF At
<1>16. /\ out \in Seq(B) /\ Len(out) = Len(f)
       /\ step \in [1 .. Len(out) -> Nat \ {0}]
  <2>1. out = [i \in 1 .. Len(f) |-> At(i)]
    BY <1>9, <1>12
  <2>2. \A i \in 1 .. Len(f) : At(i) \in B
    BY <1>9, <1>15
  <2>3. out \in Seq(B) /\ Len(out) = Len(f)
    BY <1>9, <2>1, <2>2
  <2> QED
    BY <1>9, <1>13, <2>3
<1>17. ASSUME NEW k \in 1 .. Len(s)
       PROVE  /\ o[k - 1] + 1 <= Len(out)
              /\ out[o[k - 1] + 1] = s[k]
              /\ o[k - 1] + 1 + step[o[k - 1] + 1] = o[k] + 1
  <2>1. k \in 1 .. m
    BY <1>2
  <2>2. PICK p, q, i : p = o[k - 1] /\ q = o[k] /\ i = p + 1
    OBVIOUS
  <2>3. /\ p \in Nat /\ q \in Nat /\ q <= Len(f)
        /\ \/ \E e \in Entities : e[1] = s[k] /\ EntityAt(f, p, q, e)
           \/ PlainAt(f, p, q, s[k])
    BY <1>10, <2>1, <2>2
  <2>4. ASSUME NEW e \in Entities, e[1] = s[k], EntityAt(f, p, q, e)
        PROVE  i \in DOMAIN f /\ At(i) = s[k] /\ i \in EntitiesIn(f) /\ i + 3 = q + 1
    <3>0. q = p + 3 /\ f[p + 1] = "&" /\ f[p + 2] = e[2] /\ f[p + 3] = ";"
      BY <2>4 DEF EntityAt
    <3>1. i \in DOMAIN f /\ i + 1 = p + 2 /\ i + 2 = p + 3 /\ i + 2 <= Len(f) /\ i + 3 = q + 1
      <4>1. q = p + 3 /\ i = p + 1 /\ p \in Nat /\ q <= Len(f) /\ Len(f) \in Nat
        BY <1>9, <2>2, <2>3, <3>0
      <4>2. i \in 1 .. Len(f) /\ i + 1 = p + 2 /\ i + 2 = p + 3 /\ i + 2 <= Len(f) /\ i + 3 = q + 1
        BY <4>1
      <4> QED
        BY <1>9, <4>2
    <3>2. i \in EntitiesIn(f) /\ f[i + 1] = e[2]
      BY <2>2, <3>0, <3>1 DEF EntitiesIn
    <3>3. (CHOOSE g \in Entities : g[2] = f[i + 1]) = e
      BY <3>2, EntityPairs
    <3>4. At(i) = s[k]
      BY <2>4, <3>2, <3>3 DEF At
    <3> QED
      BY <3>1, <3>2, <3>4
  <2>5. ASSUME PlainAt(f, p, q, s[k])
        PROVE  i \in DOMAIN f /\ At(i) = s[k] /\ i \notin EntitiesIn(f) /\ i + 1 = q + 1
    <3>1. i \in DOMAIN f /\ i + 1 = q + 1
      BY <1>9, <2>2, <2>3, <2>5 DEF PlainAt
    <3>2. i \notin EntitiesIn(f)
      BY <2>2, <2>5 DEF EntitiesIn, PlainAt
    <3>3. At(i) = s[k]
      BY <2>2, <2>5, <3>2 DEF At, PlainAt
    <3> QED
      BY <3>1, <3>2, <3>3
  <2>6. i \in DOMAIN f /\ At(i) = s[k] /\ i + (IF i \in EntitiesIn(f) THEN 3 ELSE 1) = q + 1
    BY <2>3, <2>4, <2>5
  <2>7. i <= Len(f) /\ out[i] = s[k] /\ i + step[i] = q + 1
    <3>1. out[i] = At(i) /\ step[i] = IF i \in EntitiesIn(f) THEN 3 ELSE 1
      BY <1>12, <1>13, <2>6
    <3>2. i <= Len(f)
      BY <1>9, <2>6
    <3> QED
      BY <2>6, <3>1, <3>2
  <2> QED
    BY <1>16, <2>2, <2>7
<1>18. Scan(out, step) = s
  <2>1. o \in [0 .. Len(s) -> Nat] /\ o[0] = 0 /\ o[Len(s)] = Len(out)
    BY <1>2, <1>8, <1>9, <1>16
  <2> QED
    BY <1>4, <1>16, <1>17, <2>1, ScanByPieces
<1> QED
  BY <1>6, <1>11, <1>14, <1>18

(* The text t is in f from p + 1 on. *)
Reads(f, p, t) == \A j \in 1 .. Len(t) : f[p + j] = t[j]

LEMMA PieceAt ==
  ASSUME NEW f, NEW ss, NEW n \in Nat, NEW o \in [0 .. n -> Nat], EndToEnd(f, ss, n, o),
         NEW k \in 1 .. n
  PROVE  /\ o[k - 1] \in Nat /\ o[k] \in Nat /\ o[k] <= Len(f)
         /\ o[k] = o[k - 1] + Len(ss[k]) /\ Reads(f, o[k - 1], ss[k])
<1>1. o[k - 1] \in Nat /\ o[k] \in Nat
  OBVIOUS
<1> QED
  BY <1>1 DEF EndToEnd, Reads

LEMMA ReadsOne ==
  ASSUME NEW f, NEW p \in Nat, NEW x, Reads(f, p, <<x>>)
  PROVE  Len(<<x>>) = 1 /\ f[p + 1] = x
<1>1. PICK t : t = <<x>>
  OBVIOUS
<1>2. Len(t) = 1 /\ t[1] = x /\ 1 \in 1 .. 1
  BY <1>1
<1> QED
  BY <1>1, <1>2 DEF Reads

LEMMA ReadsTwo ==
  ASSUME NEW f, NEW p \in Nat, NEW x, NEW y, Reads(f, p, <<x, y>>)
  PROVE  Len(<<x, y>>) = 2 /\ f[p + 1] = x /\ f[p + 2] = y
<1>1. PICK t : t = <<x, y>>
  OBVIOUS
<1>2. Len(t) = 2 /\ t[1] = x /\ t[2] = y /\ 1 \in 1 .. 2 /\ 2 \in 1 .. 2
  BY <1>1
<1> QED
  BY <1>1, <1>2 DEF Reads

LEMMA ReadsThree ==
  ASSUME NEW f, NEW p \in Nat, NEW x, NEW y, NEW z, Reads(f, p, <<x, y, z>>)
  PROVE  Len(<<x, y, z>>) = 3 /\ f[p + 1] = x /\ f[p + 2] = y /\ f[p + 3] = z
<1>1. PICK t : t = <<x, y, z>>
  OBVIOUS
<1>2. /\ Len(t) = 3 /\ t[1] = x /\ t[2] = y /\ t[3] = z
      /\ 1 \in 1 .. 3 /\ 2 \in 1 .. 3 /\ 3 \in 1 .. 3
  BY <1>1
<1> QED
  BY <1>1, <1>2 DEF Reads

LEMMA Rising ==
  ASSUME NEW n \in Nat, NEW o \in [0 .. n -> Nat], \A k \in 1 .. n : o[k - 1] < o[k],
         NEW i \in 0 .. n, NEW j \in 0 .. n, i < j
  PROVE  o[i] < o[j]
<1> DEFINE Q == {k \in 0 .. n : i < k => o[i] < o[k]}
<1>1. 0 \in Q
  OBVIOUS
<1>2. ASSUME NEW k \in 0 .. n - 1, k \in Q PROVE k + 1 \in Q
  <2>1. PICK m : m = k + 1
    OBVIOUS
  <2>2. m \in 1 .. n /\ m \in 0 .. n /\ m - 1 = k /\ k \in 0 .. n
    BY <2>1
  <2>3. o[k] < o[m] /\ o[k] \in Nat /\ o[m] \in Nat /\ o[i] \in Nat
    BY <2>2
  <2>4. CASE i < k
    BY <1>2, <2>1, <2>2, <2>3, <2>4
  <2>5. CASE ~(i < k)
    <3>1. i < m => i = k
      BY <2>1, <2>5
    <3> QED
      BY <2>1, <2>2, <2>3, <3>1
  <2> QED
    BY <2>4, <2>5
<1> HIDE DEF Q
<1>3. \A k \in 0 .. n : k \in Q
  BY <1>1, <1>2, StepByStep
<1> QED
  BY <1>3 DEF Q

(* A function on 1 .. m is a sequence. *)
LEMMA IsSeq ==
  ASSUME NEW B, NEW m \in Nat, NEW ss, ss = [i \in 1 .. m |-> ss[i]],
         \A k \in 1 .. m : ss[k] \in B
  PROVE  ss \in Seq(B) /\ Len(ss) = m
<1>1. ss \in [1 .. m -> B]
  OBVIOUS
<1> QED
  BY <1>1

(* Bytes that are characters already. *)
LEMMA BytesOfPlain ==
  ASSUME NEW A, Wide \notin A, NEW s \in Seq(A)
  PROVE  Bytes(s) = s
<1>1. PICK ss : ss = [i \in DOMAIN s |-> BytesOf(s[i])]
  OBVIOUS
<1>2. PICK m : m = Len(s)
  OBVIOUS
<1>3. m \in Nat /\ DOMAIN s = 1 .. m /\ \A k \in 1 .. m : s[k] \in A
  BY <1>2, ElementOfSeq
<1>4. \A k \in 1 .. m : ss[k] = <<s[k]>> /\ ss[k] \in Seq(A)
  <2>1. \A c \in A : BytesOf(c) = <<c>> /\ <<c>> \in Seq(A)
    BY DEF BytesOf
  <2> QED
    BY <1>1, <1>3, <2>1
<1>5. ss \in Seq(Seq(A)) /\ Len(ss) = m
  <2>1. ss = [i \in 1 .. m |-> ss[i]]
    BY <1>1, <1>3
  <2>2. PICK B : B = Seq(A)
    OBVIOUS
  <2>3. \A k \in 1 .. m : ss[k] \in B
    BY <1>4, <2>2
  <2> QED
    BY <1>3, <2>1, <2>2, <2>3, IsSeq
<1>6. PICK f : f = FlattenSeq(ss)
  OBVIOUS
<1>7. PICK o \in [0 .. m -> Nat] : o[0] = 0 /\ EndToEnd(f, ss, m, o)
  BY <1>5, <1>6, FlattenCuts
<1>8. f \in Seq(A) /\ Len(f) = o[m] /\ Bytes(s) = f
  <2>1. f \in Seq(A)
    BY <1>5, <1>6, FlattenCuts
  <2>2. Len(f) = o[m]
    BY <1>7 DEF EndToEnd
  <2>3. Bytes(s) = f
    BY <1>1, <1>6 DEF Bytes
  <2> QED
    BY <2>1, <2>2, <2>3
<1>9. ASSUME NEW k \in 1 .. m PROVE o[k] = o[k - 1] + 1 /\ f[o[k - 1] + 1] = s[k]
  <2>1. PICK x, p : x = s[k] /\ p = o[k - 1]
    OBVIOUS
  <2>2. ss[k] = <<x>>
    BY <1>4, <2>1
  <2>3. /\ o[k - 1] \in Nat /\ o[k] \in Nat /\ o[k] <= Len(f)
        /\ o[k] = o[k - 1] + Len(ss[k]) /\ Reads(f, o[k - 1], ss[k])
    <3>1. m \in Nat /\ EndToEnd(f, ss, m, o)
      BY <1>3, <1>7
    <3> QED
      BY <3>1, PieceAt
  <2>4. p \in Nat /\ o[k] = p + Len(<<x>>) /\ Reads(f, p, <<x>>)
    BY <2>1, <2>2, <2>3
  <2> QED
    BY <2>1, <2>4, ReadsOne
<1> DEFINE Q == {k \in 0 .. m : o[k] = k}
<1>10. \A k \in 0 .. m : o[k] = k
  <2>1. 0 \in Q
    BY <1>3, <1>7
  <2>2. ASSUME NEW k \in 0 .. m - 1, k \in Q PROVE k + 1 \in Q
    <3>1. PICK l : l = k + 1
      OBVIOUS
    <3>2. l \in 1 .. m /\ l - 1 = k /\ l \in 0 .. m
      BY <1>3, <3>1
    <3>3. o[l] = o[k] + 1
      BY <1>9, <3>2
    <3> QED
      BY <2>2, <3>1, <3>2, <3>3
  <2> HIDE DEF Q
  <2>3. \A k \in 0 .. m : k \in Q
    BY <1>3, <2>1, <2>2, StepByStep
  <2> QED
    BY <2>3 DEF Q
<1>11. ASSUME NEW k \in 1 .. m PROVE f[k] = s[k]
  <2>1. k - 1 \in 0 .. m /\ (k - 1) + 1 = k
    BY <1>3
  <2>2. o[k - 1] = k - 1
    BY <1>10, <2>1
  <2> QED
    BY <1>9, <2>1, <2>2
<1>12. Len(f) = m
  BY <1>3, <1>8, <1>10
<1>13. Len(f) = Len(s) /\ \A k \in 1 .. Len(f) : f[k] = s[k]
  BY <1>2, <1>11, <1>12
<1>14. f = s
  BY <1>8, <1>13, SeqEqual
<1> QED
  BY <1>8, <1>14

-----------------------------------------------------------------------------
(* Bytes and characters again.                                             *)
LEMMA BytesBack ==
  ASSUME NEW A, A \cap {Lead, Trail} = {}, NEW s \in Seq(A)
  PROVE  FromBytes(Bytes(s)) = s /\ Bytes(s) \in Seq((A \ {Wide}) \cup {Lead, Trail})
<1>1. PICK ss : ss = [i \in DOMAIN s |-> BytesOf(s[i])]
  OBVIOUS
<1>2. PICK m, B : m = Len(s) /\ B = (A \ {Wide}) \cup {Lead, Trail}
  OBVIOUS
<1>3. /\ m \in Nat /\ DOMAIN s = 1 .. m
      /\ \A k \in 1 .. m : s[k] \in A /\ s[k] \notin {Lead, Trail}
  BY <1>2, ElementOfSeq
<1>4. \A k \in 1 .. m : /\ s[k] = Wide => ss[k] = <<Lead, Trail>>
                        /\ s[k] # Wide => ss[k] = <<s[k]>>
  BY <1>1, <1>3 DEF BytesOf
<1>5. ss \in Seq(Seq(B)) /\ Len(ss) = m
  <2>1. ss = [i \in 1 .. m |-> ss[i]]
    BY <1>1, <1>3
  <2>2. PICK C : C = Seq(B)
    OBVIOUS
  <2>3. \A c \in B : <<c>> \in C /\ <<Lead, Trail>> \in C
    BY <1>2, <2>2
  <2>4. \A k \in 1 .. m : ss[k] \in C
    BY <1>2, <1>3, <1>4, <2>3
  <2> QED
    BY <1>3, <2>1, <2>2, <2>4, IsSeq
<1>6. PICK f : f = FlattenSeq(ss)
  OBVIOUS
<1>7. PICK o \in [0 .. m -> Nat] : o[0] = 0 /\ EndToEnd(f, ss, m, o)
  BY <1>5, <1>6, FlattenCuts
<1>8. f \in Seq(B) /\ Len(f) = o[m] /\ Bytes(s) = f
  <2>1. f \in Seq(B)
    BY <1>5, <1>6, FlattenCuts
  <2>2. Len(f) = o[m]
    BY <1>7 DEF EndToEnd
  <2>3. Bytes(s) = f
    BY <1>1, <1>6 DEF Bytes
  <2> QED
    BY <2>1, <2>2, <2>3
<1>9. ASSUME NEW k \in 1 .. m
      PROVE  /\ o[k - 1] \in Nat /\ o[k] \in Nat /\ o[k] <= Len(f)
             /\ s[k] = Wide => /\ o[k] = o[k - 1] + 2
                               /\ f[o[k - 1] + 1] = Lead /\ f[o[k - 1] + 2] = Trail
             /\ s[k] # Wide => o[k] = o[k - 1] + 1 /\ f[o[k - 1] + 1] = s[k]
  <2>1. PICK x, p, q, t : x = s[k] /\ p = o[k - 1] /\ q = o[k] /\ t = ss[k]
    OBVIOUS
  <2>2. p \in Nat /\ q \in Nat /\ q <= Len(f) /\ q = p + Len(t) /\ Reads(f, p, t)
    <3>1. m \in Nat /\ EndToEnd(f, ss, m, o)
      BY <1>3, <1>7
    <3>2. /\ o[k - 1] \in Nat /\ o[k] \in Nat /\ o[k] <= Len(f)
          /\ o[k] = o[k - 1] + Len(ss[k]) /\ Reads(f, o[k - 1], ss[k])
      BY <3>1, PieceAt
    <3> QED
      BY <2>1, <3>2
  <2>3. CASE x = Wide
    <3>1. PICK y, z : y = Lead /\ z = Trail
      OBVIOUS
    <3>2. t = <<y, z>>
      BY <1>4, <2>1, <2>3, <3>1
    <3>3. q = p + 2 /\ f[p + 1] = y /\ f[p + 2] = z
      BY <2>2, <3>2, ReadsTwo
    <3> QED
      BY <2>1, <2>2, <2>3, <3>1, <3>3
  <2>4. CASE x # Wide
    <3>1. t = <<x>>
      BY <1>4, <2>1, <2>4
    <3>2. q = p + 1 /\ f[p + 1] = x
      BY <2>2, <3>1, ReadsOne
    <3> QED
      BY <2>1, <2>2, <2>4, <3>2
  <2> QED
    BY <2>3, <2>4
<1> DEFINE Begins(i) == f[i] = Lead /\ i < Len(f) /\ f[i + 1] = Trail
           g == [k \in 1 .. m |-> o[k - 1] + 1]
           S == {g[k] : k \in 1 .. m}
           At(i) == IF Begins(i) THEN Wide ELSE IF f[i] \in {Lead, Trail} THEN Lost ELSE f[i]
<1>10. g \in [1 .. m -> Nat] /\ \A k \in 1 .. m : g[k] = o[k - 1] + 1
  BY <1>9
<1>11. \A k \in 1 .. m : o[k - 1] < o[k]
  BY <1>9
<1>12. ASSUME NEW i \in 1 .. m, NEW j \in 1 .. m, i < j PROVE g[i] < g[j]
  <2>1. i - 1 \in 0 .. m /\ j - 1 \in 0 .. m /\ i - 1 < j - 1
    BY <1>3, <1>12
  <2>2. o[i - 1] < o[j - 1]
    <3>1. m \in Nat /\ \A k \in 1 .. m : o[k - 1] < o[k]
      BY <1>3, <1>11
    <3> QED
      BY <2>1, <3>1, Rising
  <2> QED
    BY <1>10, <2>1, <2>2
<1>13. ASSUME NEW k \in 1 .. m
       PROVE  g[k] \in 1 .. Len(f) /\ At(g[k]) = s[k] /\ (Begins(g[k]) <=> s[k] = Wide)
  <2>1. PICK p, q, i : p = o[k - 1] /\ q = o[k] /\ i = p + 1
    OBVIOUS
  <2>2. i = g[k] /\ p \in Nat /\ q \in Nat /\ q <= Len(f) /\ Len(f) \in Nat
    <3>1. p \in Nat /\ q \in Nat /\ q <= Len(f)
      BY <1>9, <2>1
    <3>2. i = g[k]
      BY <1>10, <2>1
    <3> QED
      BY <1>8, <3>1, <3>2
  <2>3. CASE s[k] = Wide
    <3>1. q = p + 2 /\ f[i] = Lead /\ f[p + 2] = Trail
      BY <1>9, <2>1, <2>3
    <3>2. i \in 1 .. Len(f) /\ i < Len(f) /\ i + 1 = p + 2
      BY <2>1, <2>2, <3>1
    <3>3. Begins(i)
      BY <3>1, <3>2
    <3> QED
      BY <2>2, <2>3, <3>2, <3>3
  <2>4. CASE s[k] # Wide
    <3>1. q = p + 1 /\ f[i] = s[k]
      BY <1>9, <2>1, <2>4
    <3>2. i \in 1 .. Len(f)
      BY <2>1, <2>2, <3>1
    <3>3. f[i] \notin {Lead, Trail} /\ ~Begins(i)
      BY <1>3, <3>1
    <3> QED
      BY <2>2, <2>4, <3>1, <3>2, <3>3
  <2> QED
    BY <2>3, <2>4
<1>14. ASSUME NEW i \in DOMAIN f PROVE i \in S <=> i = 1 \/ ~Begins(i - 1)
  <2>1. i \in 1 .. o[m] /\ i \in Nat
    BY <1>8
  <2>2. PICK k \in 1 .. m : i \in o[k - 1] + 1 .. o[k]
    BY <1>7, <2>1 DEF EndToEnd
  <2>3. PICK p, q : p = o[k - 1] /\ q = o[k]
    OBVIOUS
  <2>4. /\ p \in Nat /\ q \in Nat /\ i \in p + 1 .. q
        /\ s[k] = Wide => q = p + 2 /\ f[p + 1] = Lead
        /\ s[k] # Wide => q = p + 1
    BY <1>9, <2>2, <2>3
  <2>5. CASE i = p + 1
    <3>1. i \in S
      BY <1>10, <2>3, <2>5
    <3>2. CASE k = 1
      BY <1>7, <2>3, <2>5, <3>1, <3>2
    <3>3. CASE k # 1
      <4>1. PICK l : l = k - 1
        OBVIOUS
      <4>2. l \in 1 .. m /\ o[l] = p
        BY <1>3, <2>3, <3>3, <4>1
      <4>3. PICK r : r = o[l - 1]
        OBVIOUS
      <4>4. r \in Nat /\ (s[l] = Wide => p = r + 2 /\ f[p] = Trail)
            /\ (s[l] # Wide => p = r + 1 /\ f[p] = s[l])
        BY <1>9, <4>2, <4>3
      <4>5. f[p] # Lead /\ i - 1 = p
        <5>1. f[p] # Lead
          BY <1>3, <4>2, <4>4 DEF Lead, Trail
        <5> QED
          BY <2>4, <2>5, <5>1
      <4> QED
        BY <3>1, <4>5
    <3> QED
      BY <3>2, <3>3
  <2>6. CASE i # p + 1
    <3>1. s[k] = Wide /\ i = p + 2 /\ i - 1 = p + 1
      BY <2>4, <2>6
    <3>2. g[k] = i - 1
      BY <1>10, <2>3, <3>1
    <3>3. Begins(i - 1)
      BY <1>13, <3>1, <3>2
    <3>4. i \notin S
      <4> SUFFICES ASSUME NEW l \in 1 .. m, g[l] = i PROVE FALSE
        OBVIOUS
      <4>0. l - 1 \in 0 .. m /\ k - 1 \in 0 .. m /\ k \in 0 .. m
        BY <1>3
      <4>1. o[l - 1] = p + 1 /\ l - 1 \in 0 .. m /\ k - 1 \in 0 .. m /\ k \in 0 .. m
        <5>1. o[l - 1] + 1 = i /\ o[l - 1] \in Nat
          BY <1>10, <4>0
        <5> QED
          BY <2>4, <3>1, <4>0, <5>1
      <4>2. o[k] = p + 2 /\ o[k - 1] = p
        BY <2>3, <2>4, <3>1
      <4>3. CASE l - 1 < k - 1
        <5>1. o[l - 1] < o[k - 1]
          BY <1>3, <1>11, <4>1, <4>3, Rising
        <5> QED
          BY <2>4, <4>1, <4>2, <5>1
      <4>4. CASE l - 1 = k - 1
        BY <2>4, <4>1, <4>2, <4>4
      <4>5. CASE l - 1 = k
        BY <2>4, <4>1, <4>2, <4>5
      <4>6. CASE k < l - 1
        <5>1. o[k] < o[l - 1]
          BY <1>3, <1>11, <4>1, <4>6, Rising
        <5> QED
          BY <2>4, <4>1, <4>2, <5>1
      <4> QED
        BY <4>1, <4>3, <4>4, <4>5, <4>6
    <3>5. i # 1
      BY <2>4, <3>1
    <3> QED
      BY <3>3, <3>4, <3>5
  <2> QED
    BY <2>5, <2>6
<1>15. S = {i \in DOMAIN f : i = 1 \/ ~Begins(i - 1)}
  <2>1. \A k \in 1 .. m : g[k] \in DOMAIN f
    BY <1>8, <1>13
  <2> HIDE DEF g, Begins
  <2> QED
    BY <1>14, <2>1
<1>16. InOrder(S) = g
  BY <1>3, <1>10, <1>12, InOrderIs
<1>17. FromBytes(f) = [n \in DOMAIN g |-> At(g[n])]
  BY <1>15, <1>16 DEF FromBytes
<1>18. DOMAIN g = 1 .. m
  OBVIOUS
<1> HIDE DEF g, At
<1>19. FromBytes(f) = s
  <2>1. [n \in DOMAIN g |-> At(g[n])] = [n \in 1 .. m |-> s[n]]
    BY <1>13, <1>18
  <2>2. s = [n \in 1 .. m |-> s[n]]
    BY <1>3
  <2> QED
    BY <1>17, <2>1, <2>2
<1> QED
  BY <1>2, <1>8, <1>19

-----------------------------------------------------------------------------
(* Encoded and decoded again.                                              *)
Encoded == {"%", "+", "&", "=", Lead, Trail}

LEMMA CodePairs ==
  /\ \A c, d \in Codes : c[1] = d[1] => c = d
  /\ \A c, d \in Decoded : c[2] = d[2] /\ c[3] = d[3] => c = d
  /\ \A c \in Decoded : c = <<c[1], c[2], c[3]>> /\ c[2] \in HexDigits /\ c[3] \in HexDigits
  /\ Codes \subseteq Decoded
  /\ \A x \in Encoded : \E c \in Codes : c[1] = x
  /\ \A c \in Codes : c[1] # BL
<1>0. /\ "0" \in HexDigits /\ "1" \in HexDigits /\ "2" \in HexDigits /\ "3" \in HexDigits
      /\ "4" \in HexDigits /\ "5" \in HexDigits /\ "6" \in HexDigits
      /\ "7" \in HexDigits /\ "8" \in HexDigits /\ "9" \in HexDigits
      /\ "A" \in HexDigits /\ "B" \in HexDigits /\ "C" \in HexDigits /\ "D" \in HexDigits
  <2>1. PICK d : d = Digits
    OBVIOUS
  <2>2. /\ DOMAIN d = 1 .. 10 /\ d[1] = "0" /\ d[2] = "1" /\ d[3] = "2" /\ d[4] = "3"
        /\ d[5] = "4" /\ d[6] = "5" /\ d[7] = "6" /\ d[8] = "7" /\ d[9] = "8" /\ d[10] = "9"
    BY <2>1 DEF Digits
  <2>3. \A i \in 1 .. 10 : d[i] \in HexDigits
    BY <2>1, <2>2 DEF HexDigits
  <2>4. \A i \in {1, 2, 3, 4, 5, 6, 7, 8, 9, 10} : i \in 1 .. 10
    OBVIOUS
  <2>5. {"A", "B", "C", "D"} \subseteq HexDigits
    BY DEF HexDigits
  <2> QED
    BY <2>2, <2>3, <2>4, <2>5
<1> DEFINE Is(c, x, h, l) == c = <<x, h, l>> /\ c[1] = x /\ c[2] = h /\ c[3] = l
<1>a. ASSUME NEW x, NEW h, NEW l PROVE Is(<<x, h, l>>, x, h, l)
  OBVIOUS
<1> HIDE DEF Is
<1>b. ASSUME NEW c \in Codes
      PROVE  \/ Is(c, "%", "2", "5") \/ Is(c, "+", "2", "B") \/ Is(c, "&", "2", "6")
             \/ Is(c, "=", "3", "D") \/ Is(c, "<", "3", "C") \/ Is(c, ";", "3", "B")
             \/ Is(c, Lead, "C", "3") \/ Is(c, Trail, "A", "9")
  BY <1>a DEF Codes
<1>c. ASSUME NEW c \in Decoded PROVE c \in Codes \/ Is(c, BL, "2", "0")
  BY <1>a DEF Decoded
<1>1. \A c, d \in Codes : c[1] = d[1] => c = d
  BY <1>b DEF Is, Lead, Trail
<1>2. \A c, d \in Decoded : c[2] = d[2] /\ c[3] = d[3] => c = d
  BY <1>b, <1>c DEF Is
<1>3. \A c \in Decoded : c = <<c[1], c[2], c[3]>>
  BY <1>b, <1>c DEF Is
<1>4. \A c \in Decoded : c[2] \in HexDigits /\ c[3] \in HexDigits
  BY <1>0, <1>b, <1>c DEF Is
<1>5. \A x \in Encoded : \E c \in Codes : c[1] = x
  BY DEF Encoded, Codes
<1>6. \A c \in Codes : c[1] # BL
  BY <1>b DEF Is, Lead, Trail, BL
<1>7. Codes \subseteq Decoded
  BY DEF Decoded
<1> QED
  BY <1>1, <1>2, <1>3, <1>4, <1>5, <1>6, <1>7

LEMMA SentIs ==
  ASSUME NEW x
  PROVE  \/ x = BL /\ Sent(x) = <<"+">>
         \/ \E c \in Codes : c[1] = x /\ Sent(x) = <<"%", c[2], c[3]>>
         \/ x # BL /\ x \notin Encoded /\ Sent(x) = <<x>>
<1>1. CASE x = BL
  BY <1>1 DEF Sent
<1>2. CASE x # BL /\ \E c \in Codes : c[1] = x
  <2>1. PICK c : c = CHOOSE g \in Codes : g[1] = x
    OBVIOUS
  <2>2. c \in Codes /\ c[1] = x
    BY <1>2, <2>1
  <2>3. Sent(x) = <<"%", c[2], c[3]>>
    BY <1>2, <2>1 DEF Sent
  <2> QED
    BY <2>2, <2>3
<1>3. CASE x # BL /\ ~\E c \in Codes : c[1] = x
  <2>1. x \notin Encoded
    BY <1>3, CodePairs
  <2> QED
    BY <1>3, <2>1 DEF Sent
<1> QED
  BY <1>1, <1>2, <1>3

(* How the byte x is in f, from p + 1 to q.                                *)
BlankAt(f, p, q) == q = p + 1 /\ f[p + 1] = "+"
CodeAt(f, p, q, c) == q = p + 3 /\ f[p + 1] = "%" /\ f[p + 2] = c[2] /\ f[p + 3] = c[3]
ByteAt(f, p, q, x) == q = p + 1 /\ f[p + 1] = x /\ x # BL /\ x \notin Encoded

SentAt(f, p, q, x) ==
  \/ x = BL /\ BlankAt(f, p, q)
  \/ \E c \in Codes : c[1] = x /\ CodeAt(f, p, q, c)
  \/ ByteAt(f, p, q, x)

LEMMA SentReads ==
  ASSUME NEW f, NEW p \in Nat, NEW q \in Nat, NEW x, NEW t, t = Sent(x),
         q = p + Len(t), Reads(f, p, t)
  PROVE  SentAt(f, p, q, x)
<1>1. CASE x = BL /\ t = <<"+">>
  <2>1. PICK u : u = "+"
    OBVIOUS
  <2>2. t = <<u>> /\ Len(<<u>>) = 1 /\ f[p + 1] = u
    BY <1>1, <2>1, ReadsOne
  <2>3. BlankAt(f, p, q)
    BY <2>1, <2>2 DEF BlankAt
  <2> QED
    BY <1>1, <2>3 DEF SentAt
<1>2. CASE \E c \in Codes : c[1] = x /\ t = <<"%", c[2], c[3]>>
  <2>1. PICK c \in Codes : c[1] = x /\ t = <<"%", c[2], c[3]>>
    BY <1>2
  <2>2. PICK u, v, w : u = "%" /\ v = c[2] /\ w = c[3]
    OBVIOUS
  <2>3. t = <<u, v, w>>
    BY <2>1, <2>2
  <2>4. Len(<<u, v, w>>) = 3 /\ f[p + 1] = u /\ f[p + 2] = v /\ f[p + 3] = w
    BY <2>3, ReadsThree
  <2>5. CodeAt(f, p, q, c)
    BY <2>2, <2>3, <2>4 DEF CodeAt
  <2> QED
    BY <2>1, <2>5 DEF SentAt
<1>3. CASE x # BL /\ x \notin Encoded /\ t = <<x>>
  <2>1. Len(<<x>>) = 1 /\ f[p + 1] = x
    BY <1>3, ReadsOne
  <2>2. ByteAt(f, p, q, x)
    BY <1>3, <2>1 DEF ByteAt
  <2> QED
    BY <2>2 DEF SentAt
<1> QED
  BY <1>1, <1>2, <1>3, SentIs

(* The bytes of an encoded text.                                           *)
SentBytes(A) == (A \cup HexDigits \cup {"%", "+"}) \ {Wide, Lead, Trail, "&", "=", BL}

LEMMA SentIn ==
  ASSUME NEW A, NEW x \in (A \ {Wide}) \cup {Lead, Trail}
  PROVE  Sent(x) \in Seq(SentBytes(A))
<1>1. PICK B : B = SentBytes(A)
  OBVIOUS
<1>2. "%" \in B /\ "+" \in B
  BY <1>1 DEF SentBytes, Wide, Lead, Trail, BL
<1>3. HexDigits \subseteq B
  <2>1. ASSUME NEW h \in HexDigits PROVE h \notin {Wide, Lead, Trail, "&", "=", BL}
    <3>1. CASE h \in {"A", "B", "C", "D", "E", "F", "a", "b", "c", "d", "e", "f"}
      BY <3>1 DEF Wide, Lead, Trail, BL
    <3>2. CASE h \in {Digits[d] : d \in DOMAIN Digits}
      <4>1. h \in {"0", "1", "2", "3", "4", "5", "6", "7", "8", "9"}
        BY <3>2 DEF Digits
      <4> QED
        BY <4>1 DEF Wide, Lead, Trail, BL
    <3> QED
      BY <3>1, <3>2 DEF HexDigits
  <2> QED
    BY <1>1, <2>1 DEF SentBytes
<1>4. CASE Sent(x) = <<"+">>
  BY <1>1, <1>2, <1>4
<1>5. CASE \E c \in Codes : c[1] = x /\ Sent(x) = <<"%", c[2], c[3]>>
  <2>1. PICK c \in Codes : Sent(x) = <<"%", c[2], c[3]>>
    BY <1>5
  <2>2. PICK u, v, w : u = "%" /\ v = c[2] /\ w = c[3]
    OBVIOUS
  <2>3. u \in B /\ v \in B /\ w \in B
    BY <1>2, <1>3, <2>2, CodePairs
  <2>4. <<u, v, w>> \in Seq(B)
    BY <2>3
  <2> QED
    BY <1>1, <2>1, <2>2, <2>4
<1>6. CASE x # BL /\ x \notin Encoded /\ Sent(x) = <<x>>
  <2>1. x \in B
    BY <1>1, <1>6 DEF SentBytes, Encoded
  <2> QED
    BY <1>1, <1>6, <2>1
<1> QED
  BY <1>4, <1>5, <1>6, SentIs

(* What the decoder does with a byte that was encoded.                     *)
LEMMA DecodesAt ==
  ASSUME NEW f, Len(f) \in Nat, DOMAIN f = 1 .. Len(f),
         NEW p \in Nat, NEW q \in Nat, q <= Len(f), NEW x, SentAt(f, p, q, x), NEW i, i = p + 1
  PROVE  /\ i \in 1 .. Len(f)
         /\ x = IF i \in CodesIn(f) THEN ByteOf(SubSeq(f, i + 1, i + 2))
                ELSE IF f[i] = "+" THEN BL
                ELSE f[i]
         /\ i + (IF i \in CodesIn(f) THEN 3 ELSE 1) = q + 1
<1>1. CASE x = BL /\ BlankAt(f, p, q)
  <2>1. q = p + 1 /\ f[i] = "+"
    BY <1>1 DEF BlankAt
  <2>2. i \notin CodesIn(f)
    BY <2>1 DEF CodesIn
  <2> QED
    BY <1>1, <2>1, <2>2
<1>2. CASE \E c \in Codes : c[1] = x /\ CodeAt(f, p, q, c)
  <2>1. PICK c \in Codes : c[1] = x /\ CodeAt(f, p, q, c)
    BY <1>2
  <2>2. q = p + 3 /\ f[i] = "%" /\ f[p + 2] = c[2] /\ f[p + 3] = c[3]
    BY <2>1 DEF CodeAt
  <2>3. /\ i + 1 = p + 2 /\ i + 2 = p + 3 /\ i + 2 <= Len(f) /\ i \in 1 .. Len(f)
        /\ i + 3 = q + 1
    BY <2>2
  <2>4. PICK h : h = SubSeq(f, i + 1, i + 2)
    OBVIOUS
  <2>5. PICK u, v, w : u = c[1] /\ v = c[2] /\ w = c[3]
    OBVIOUS
  <2>6. h = <<v, w>>
    <3>1. h = [k \in 1 .. 2 |-> f[i + k]]
      BY <2>3, <2>4
    <3> QED
      BY <2>2, <2>3, <2>5, <3>1
  <2>7. h[1] = v /\ h[2] = w
    BY <2>6
  <2>8. v \in HexDigits /\ w \in HexDigits /\ c = <<u, v, w>>
    BY <2>1, <2>5, CodePairs
  <2>9. i \in CodesIn(f)
    BY <2>2, <2>3, <2>4, <2>7, <2>8 DEF CodesIn, IsByte
  <2>10. \A d \in Decoded : Tail(d) = <<d[2], d[3]>>
    <3> SUFFICES ASSUME NEW d \in Decoded PROVE Tail(d) = <<d[2], d[3]>>
      OBVIOUS
    <3>1. PICK k, l, m : k = d[1] /\ l = d[2] /\ m = d[3]
      OBVIOUS
    <3>2. d = <<k, l, m>>
      BY <3>1, CodePairs
    <3>3. Tail(<<k, l, m>>) = <<l, m>>
      OBVIOUS
    <3> QED
      BY <3>1, <3>2, <3>3
  <2>11. Tail(c) = h /\ c \in Decoded
    BY <2>5, <2>6, <2>10, CodePairs
  <2>12. \A d \in Decoded : Tail(d) = h => d = c
    <3> SUFFICES ASSUME NEW d \in Decoded, Tail(d) = h PROVE d = c
      OBVIOUS
    <3>1. PICK l, m : l = d[2] /\ m = d[3]
      OBVIOUS
    <3>2. h = <<l, m>>
      BY <2>10, <3>1
    <3>3. h[1] = l /\ h[2] = m
      BY <3>2
    <3>4. d[2] = c[2] /\ d[3] = c[3]
      BY <2>5, <2>7, <3>1, <3>3
    <3> QED
      BY <2>11, <3>4, CodePairs
  <2>13. ByteOf(h) = c[1]
    BY <2>11, <2>12 DEF ByteOf
  <2> QED
    BY <2>1, <2>3, <2>4, <2>9, <2>13
<1>3. CASE ByteAt(f, p, q, x)
  <2>1. q = p + 1 /\ f[i] = x /\ x # "%" /\ x # "+"
    BY <1>3 DEF ByteAt, Encoded
  <2>2. i \notin CodesIn(f)
    BY <2>1 DEF CodesIn
  <2> QED
    BY <2>1, <2>2
<1> QED
  BY <1>1, <1>2, <1>3 DEF SentAt

(* What the browser encodes, url_decode decodes, and it does not panic.    *)
LEMMA EncodeDecode ==
  ASSUME NEW A, A \cap {Lead, Trail} = {}, NEW s \in Seq(A)
  PROVE  /\ Encode(s) \in Seq(SentBytes(A))
         /\ UrlDecode(Encode(s)) = s /\ ~Cuts(Encode(s))
<1>1. PICK D, B, C : /\ D = (A \ {Wide}) \cup {Lead, Trail}
                     /\ B = SentBytes(A)
                     /\ C = B \cup D \cup {BL, Other} \cup {c[1] : c \in Decoded}
  OBVIOUS
<1>2. PICK b : b = Bytes(s)
  OBVIOUS
<1>3. PICK n : n = Len(b)
  OBVIOUS
<1>4. b \in Seq(D) /\ FromBytes(b) = s
  BY <1>1, <1>2, BytesBack
<1>5. n \in Nat /\ DOMAIN b = 1 .. n /\ \A k \in 1 .. n : b[k] \in D
  BY <1>3, <1>4, ElementOfSeq
<1>6. PICK ss : ss = [i \in DOMAIN b |-> Sent(b[i])]
  OBVIOUS
<1>7. ss \in Seq(Seq(B)) /\ Len(ss) = n
  <2>1. ss = [i \in 1 .. n |-> ss[i]]
    BY <1>5, <1>6
  <2>2. PICK T : T = Seq(B)
    OBVIOUS
  <2>3. \A x \in D : Sent(x) \in T
    BY <1>1, <2>2, SentIn
  <2>4. \A k \in 1 .. n : ss[k] \in T
    BY <1>5, <1>6, <2>3
  <2> QED
    BY <1>5, <2>1, <2>2, <2>4, IsSeq
<1>8. PICK f : f = FlattenSeq(ss)
  OBVIOUS
<1>9. Encode(s) = f
  BY <1>2, <1>6, <1>8 DEF Encode
<1>10. PICK o \in [0 .. n -> Nat] : o[0] = 0 /\ EndToEnd(f, ss, n, o)
  BY <1>7, <1>8, FlattenCuts
<1>11. f \in Seq(B) /\ Len(f) = o[n]
  <2>1. f \in Seq(B)
    BY <1>7, <1>8, FlattenCuts
  <2> QED
    BY <1>10, <2>1 DEF EndToEnd
<1>12. Len(f) \in Nat /\ DOMAIN f = 1 .. Len(f) /\ \A i \in 1 .. Len(f) : f[i] \in B
  BY <1>11, ElementOfSeq
<1>13. Wide \notin B /\ Trail \notin B
  BY <1>1 DEF SentBytes
<1>14. Bytes(f) = f
  BY <1>11, <1>13, BytesOfPlain
<1>15. ASSUME NEW k \in 1 .. n
       PROVE  /\ o[k - 1] \in Nat /\ o[k] \in Nat /\ o[k] <= Len(f)
              /\ SentAt(f, o[k - 1], o[k], b[k])
  <2>1. /\ o[k - 1] \in Nat /\ o[k] \in Nat /\ o[k] <= Len(f)
        /\ o[k] = o[k - 1] + Len(ss[k]) /\ Reads(f, o[k - 1], ss[k])
    BY <1>5, <1>10, PieceAt
  <2>2. PICK p, q, x, t : p = o[k - 1] /\ q = o[k] /\ x = b[k] /\ t = ss[k]
    OBVIOUS
  <2>3. p \in Nat /\ q \in Nat /\ q = p + Len(t) /\ Reads(f, p, t)
    BY <2>1, <2>2
  <2>4. t = Sent(x)
    BY <1>5, <1>6, <2>2
  <2>5. SentAt(f, p, q, x)
    BY <2>3, <2>4, SentReads
  <2> QED
    BY <2>1, <2>2, <2>5
<1> DEFINE At(i) == IF i \in CodesIn(f) THEN ByteOf(SubSeq(f, i + 1, i + 2))
                    ELSE IF f[i] = "+" THEN BL
                    ELSE f[i]
           On(i) == IF i \in CodesIn(f) THEN 3 ELSE 1
<1>16. PICK out, step : out = [i \in DOMAIN f |-> At(i)] /\ step = [i \in DOMAIN f |-> On(i)]
  OBVIOUS
<1>17. UrlDecode(f) = FromBytes(Scan(out, step))
  BY <1>14, <1>16 DEF UrlDecode
<1>18. \A i \in 1 .. Len(f) : At(i) \in C
  <2>1. \A h : ByteOf(h) \in C
    <3> SUFFICES ASSUME NEW h PROVE ByteOf(h) \in C
      OBVIOUS
    <3>1. CASE \E c \in Decoded : Tail(c) = h
      <4>1. PICK d : d = CHOOSE c \in Decoded : Tail(c) = h
        OBVIOUS
      <4>2. d \in Decoded
        BY <3>1, <4>1
      <4>3. d[1] \in C
        BY <1>1, <4>2
      <4> QED
        BY <3>1, <4>1, <4>3 DEF ByteOf
    <3>2. CASE ~\E c \in Decoded : Tail(c) = h
      BY <1>1, <3>2 DEF ByteOf
    <3> QED
      BY <3>1, <3>2
  <2> QED
    BY <1>1, <1>12, <2>1
<1>19. ASSUME NEW k \in 1 .. n, NEW i, i = o[k - 1] + 1
       PROVE  i \in 1 .. Len(f) /\ b[k] = At(i) /\ i + On(i) = o[k] + 1
  <2>1. PICK p, q, x : p = o[k - 1] /\ q = o[k] /\ x = b[k]
    OBVIOUS
  <2>2. p \in Nat /\ q \in Nat /\ q <= Len(f) /\ SentAt(f, p, q, x) /\ i = p + 1
    BY <1>15, <1>19, <2>1
  <2>3. i \in 1 .. Len(f) /\ x = At(i) /\ i + On(i) = q + 1
    BY <1>12, <2>2, DecodesAt
  <2> QED
    BY <2>1, <2>3
<1>20. \A i : On(i) \in Nat \ {0}
  OBVIOUS
<1> HIDE DEF At, On
<1>21. out \in Seq(C) /\ Len(out) = Len(f) /\ step \in [1 .. Len(out) -> Nat \ {0}]
  <2>1. out = [i \in 1 .. Len(f) |-> out[i]] /\ \A i \in 1 .. Len(f) : out[i] \in C
    BY <1>12, <1>16, <1>18
  <2>2. out \in Seq(C) /\ Len(out) = Len(f)
    BY <1>12, <2>1, IsSeq
  <2> QED
    BY <1>12, <1>16, <1>20, <2>2
<1>22. b \in Seq(C)
  <2>1. D \subseteq C
    BY <1>1
  <2> QED
    BY <1>4, <2>1, SeqMonotonic
<1>23. ASSUME NEW k \in 1 .. Len(b)
       PROVE  /\ o[k - 1] + 1 <= Len(out)
              /\ out[o[k - 1] + 1] = b[k]
              /\ o[k - 1] + 1 + step[o[k - 1] + 1] = o[k] + 1
  <2>1. PICK i : i = o[k - 1] + 1
    OBVIOUS
  <2>2. i \in 1 .. Len(f) /\ b[k] = At(i) /\ i + On(i) = o[k] + 1
    BY <1>3, <1>19, <2>1
  <2>3. out[i] = At(i) /\ step[i] = On(i) /\ i <= Len(out)
    BY <1>12, <1>16, <1>21, <2>2
  <2>4. i + step[i] = o[k] + 1
    BY <2>2, <2>3
  <2> QED
    BY <2>1, <2>2, <2>3, <2>4
<1>24. Scan(out, step) = b
  <2>1. o \in [0 .. Len(b) -> Nat] /\ o[0] = 0 /\ o[Len(b)] = Len(out)
    BY <1>3, <1>10, <1>11, <1>21
  <2> QED
    BY <1>21, <1>22, <1>23, <2>1, ScanByPieces
<1>25. ~Cuts(f)
  <2> SUFFICES ASSUME NEW i \in DOMAIN f, i + 3 <= Len(f), f[i + 3] = Trail PROVE FALSE
    BY <1>14 DEF Cuts
  <2>1. i + 3 \in 1 .. Len(f)
    BY <1>12
  <2> QED
    BY <1>12, <1>13, <2>1
<1> QED
  BY <1>1, <1>4, <1>9, <1>11, <1>17, <1>24, <1>25

-----------------------------------------------------------------------------
(* Cut apart at a symbol: f[k] is where the cut before piece k is.         *)
CutsAt(s, c, n, f) ==
  /\ f[1] = 0 /\ f[n + 1] = Len(s) + 1
  /\ \A k \in 1 .. n : f[k] < f[k + 1]
  /\ \A i \in 1 .. Len(s) : s[i] = c <=> \E k \in 2 .. n : f[k] = i

Pieces(s, n, f) == [k \in 1 .. n |-> SubSeq(s, f[k] + 1, f[k + 1] - 1)]

LEMMA RisingCuts ==
  ASSUME NEW n \in Nat \ {0}, NEW f \in [1 .. n + 1 -> Nat],
         \A k \in 1 .. n : f[k] < f[k + 1],
         NEW i \in 1 .. n + 1, NEW j \in 1 .. n + 1, i < j
  PROVE  f[i] < f[j]
<1> DEFINE o == [k \in 0 .. n |-> f[k + 1]]
<1>1. o \in [0 .. n -> Nat] /\ \A k \in 0 .. n : o[k] = f[k + 1]
  OBVIOUS
<1>2. ASSUME NEW k \in 1 .. n PROVE o[k - 1] < o[k]
  <2>1. k - 1 \in 0 .. n /\ k \in 0 .. n /\ (k - 1) + 1 = k
    OBVIOUS
  <2>2. f[k] < f[k + 1]
    OBVIOUS
  <2> QED
    BY <1>1, <2>1, <2>2
<1> HIDE DEF o
<1>3. /\ i - 1 \in 0 .. n /\ j - 1 \in 0 .. n /\ i - 1 < j - 1
      /\ (i - 1) + 1 = i /\ (j - 1) + 1 = j
  OBVIOUS
<1>4. o[i - 1] < o[j - 1]
  BY <1>1, <1>2, <1>3, Rising
<1> QED
  BY <1>1, <1>3, <1>4

LEMMA SplitIs ==
  ASSUME NEW A, NEW s \in Seq(A), NEW c, NEW n \in Nat \ {0},
         NEW f \in [1 .. n + 1 -> Nat], CutsAt(s, c, n, f)
  PROVE  Split(s, c) = Pieces(s, n, f)
<1> DEFINE S == {f[k] : k \in 1 .. n + 1}
<1>0. Len(s) \in Nat /\ DOMAIN s = 1 .. Len(s)
  OBVIOUS
<1>1. \A i, j \in 1 .. n + 1 : i < j => f[i] < f[j]
  <2>1. \A k \in 1 .. n : f[k] < f[k + 1]
    BY DEF CutsAt
  <2> QED
    BY <2>1, RisingCuts
<1>2. InOrder(S) = f
  <2>1. PICK m : m = n + 1
    OBVIOUS
  <2>2. /\ m \in Nat /\ f \in [1 .. m -> Nat] /\ S = {f[k] : k \in 1 .. m}
        /\ \A i, j \in 1 .. m : i < j => f[i] < f[j]
    BY <1>1, <2>1
  <2> HIDE DEF S
  <2> QED
    BY <2>2, InOrderIs
<1>3. S = {0, Len(s) + 1} \cup {i \in DOMAIN s : s[i] = c}
  <2>1. \A k \in 2 .. n : f[k] \in 1 .. Len(s)
    <3> SUFFICES ASSUME NEW k \in 2 .. n PROVE f[k] \in 1 .. Len(s)
      OBVIOUS
    <3>1. k \in 1 .. n + 1 /\ 1 \in 1 .. n + 1 /\ n + 1 \in 1 .. n + 1 /\ 1 < k /\ k < n + 1
      OBVIOUS
    <3>2. f[1] < f[k] /\ f[k] < f[n + 1] /\ f[k] \in Nat
      BY <1>1, <3>1
    <3>3. f[1] = 0 /\ f[n + 1] = Len(s) + 1
      BY DEF CutsAt
    <3> QED
      BY <1>0, <3>2, <3>3
  <2>2. \A k : k \in 1 .. n + 1 <=> k = 1 \/ k = n + 1 \/ k \in 2 .. n
    OBVIOUS
  <2>3. \A x : x \in S <=> x = f[1] \/ x = f[n + 1] \/ \E k \in 2 .. n : f[k] = x
    BY <2>2
  <2>4. f[1] = 0 /\ f[n + 1] = Len(s) + 1
        /\ \A i \in 1 .. Len(s) : s[i] = c <=> \E k \in 2 .. n : f[k] = i
    BY DEF CutsAt
  <2> HIDE DEF S
  <2>5. \A x : x \in S <=> x = 0 \/ x = Len(s) + 1 \/ (x \in 1 .. Len(s) /\ s[x] = c)
    BY <2>1, <2>3, <2>4
  <2> QED
    BY <1>0, <2>5
<1> HIDE DEF S
<1>4. InOrder({0, Len(s) + 1} \cup {i \in DOMAIN s : s[i] = c}) = f
  BY <1>2, <1>3
<1>5. Len(f) = n + 1
  OBVIOUS
<1>6. Split(s, c) = [k \in 1 .. (n + 1) - 1 |-> SubSeq(s, f[k] + 1, f[k + 1] - 1)]
  BY <1>4, <1>5 DEF Split
<1>7. (n + 1) - 1 = n
  OBVIOUS
<1> QED
  BY <1>6, <1>7 DEF Pieces

LEMMA AllNonEmpty ==
  ASSUME NEW n \in Nat, NEW ps, ps = [k \in 1 .. n |-> ps[k]], \A k \in 1 .. n : ps[k] # <<>>
  PROVE  NonEmpty(ps) = ps
<1> DEFINE f == [k \in 1 .. n |-> k]
           S == {k \in DOMAIN ps : ps[k] # <<>>}
<1>1. f \in [1 .. n -> Nat] /\ \A i, j \in 1 .. n : i < j => f[i] < f[j]
  OBVIOUS
<1>2. S = {f[k] : k \in 1 .. n}
  <2>1. \A k : k \in S <=> k \in 1 .. n
    OBVIOUS
  <2>2. \A k : k \in {f[i] : i \in 1 .. n} <=> k \in 1 .. n
    OBVIOUS
  <2> QED
    BY <2>1, <2>2
<1>3. DOMAIN f = 1 .. n /\ \A k \in 1 .. n : f[k] = k
  OBVIOUS
<1> HIDE DEF f, S
<1>4. InOrder(S) = f
  BY <1>1, <1>2, InOrderIs
<1>5. NonEmpty(ps) = [k \in DOMAIN f |-> ps[f[k]]]
  BY <1>4 DEF NonEmpty, S
<1>6. [k \in DOMAIN f |-> ps[f[k]]] = [k \in 1 .. n |-> ps[k]]
  BY <1>3
<1> QED
  BY <1>5, <1>6

(* A text without codes, such as the name of a field. *)
LEMMA PlainDecodes ==
  ASSUME NEW x, x \notin {Wide, Lead, Trail, "%", "+"}
  PROVE  UrlDecode(<<x>>) = <<x>>
<1> DEFINE A == {x}
<1>1. PICK s : s = <<x>>
  OBVIOUS
<1>2. s \in Seq(A) /\ Len(s) = 1 /\ s[1] = x /\ DOMAIN s = 1 .. 1
  BY <1>1
<1>3. Bytes(s) = s /\ FromBytes(s) = s
  <2>1. Wide \notin A /\ A \cap {Lead, Trail} = {}
    OBVIOUS
  <2>2. Bytes(s) = s
    BY <1>2, <2>1, BytesOfPlain
  <2>3. FromBytes(Bytes(s)) = s
    BY <1>2, <2>1, BytesBack
  <2> QED
    BY <2>2, <2>3
<1>4. CodesIn(s) = {}
  BY <1>2 DEF CodesIn
<1>5. PICK out, step :
        /\ out = [i \in DOMAIN s |-> IF i \in CodesIn(s) THEN ByteOf(SubSeq(s, i + 1, i + 2))
                                     ELSE IF s[i] = "+" THEN BL
                                     ELSE s[i]]
        /\ step = [i \in DOMAIN s |-> IF i \in CodesIn(s) THEN 3 ELSE 1]
  OBVIOUS
<1>6. UrlDecode(s) = FromBytes(Scan(out, step))
  BY <1>3, <1>5 DEF UrlDecode
<1>7. out = s
  <2>1. out = [i \in DOMAIN s |-> s[i]]
    BY <1>2, <1>4, <1>5
  <2> QED
    BY <1>2, <2>1
<1>8. step \in [1 .. 1 -> Nat \ {0}] /\ step[1] = 1
  BY <1>2, <1>4, <1>5
<1>9. Scan(out, step) = s
  <2> DEFINE o == [k \in 0 .. 1 |-> k]
  <2>1. o \in [0 .. 1 -> Nat] /\ o[0] = 0 /\ o[1] = 1
    OBVIOUS
  <2> HIDE DEF o
  <2>2. ASSUME NEW k \in 1 .. Len(s)
        PROVE  /\ o[k - 1] + 1 <= Len(out)
               /\ out[o[k - 1] + 1] = s[k]
               /\ o[k - 1] + 1 + step[o[k - 1] + 1] = o[k] + 1
    <3>1. k = 1 /\ k - 1 = 0 /\ Len(out) = 1
      BY <1>2, <1>7
    <3>2. o[k - 1] + 1 = 1
      BY <2>1, <3>1
    <3> QED
      BY <1>7, <1>8, <2>1, <3>1, <3>2
  <2>3. /\ out \in Seq(A) /\ Len(out) = 1 /\ step \in [1 .. Len(out) -> Nat \ {0}]
        /\ o \in [0 .. Len(s) -> Nat] /\ o[0] = 0 /\ o[Len(s)] = Len(out)
    BY <1>2, <1>7, <1>8, <2>1
  <2>4. s \in Seq(A)
    BY <1>2
  <2> HIDE DEF A
  <2> QED
    BY <2>2, <2>3, <2>4, ScanByPieces
<1> QED
  BY <1>1, <1>3, <1>6, <1>9

-----------------------------------------------------------------------------
(* p is the field x=e. *)
IsField(p, x, e) == Len(p) = Len(e) + 2 /\ p[1] = x /\ p[2] = "=" /\ Reads(p, 2, e)

LEMMA FieldIs ==
  ASSUME NEW A, NEW p \in Seq(A), NEW e \in Seq(A), NEW x \in {"key", "command"},
         IsField(p, x, e)
  PROVE  p # <<>> /\ Field(p) = [name |-> <<x>>, value |-> UrlDecode(e)]
<1>1. PICK n : n = Len(e)
  OBVIOUS
<1>2. n \in Nat
  BY <1>1
<1>3. Len(p) = n + 2
  BY <1>1 DEF IsField
<1>4. p[1] = x /\ p[2] = "=" /\ \A i \in 1 .. n : p[i + 2] = e[i]
  BY <1>1, <1>2 DEF IsField, Reads
<1>5. Min({i \in DOMAIN p : p[i] = "="} \cup {Len(p) + 1}) = 2
  <2> DEFINE S == {i \in DOMAIN p : p[i] = "="} \cup {Len(p) + 1}
  <2>1. DOMAIN p = 1 .. n + 2
    BY <1>3
  <2>2. S \in SUBSET Nat /\ 2 \in S
    BY <1>2, <1>3, <1>4, <2>1
  <2>3. 1 \notin S /\ 0 \notin S
    BY <1>2, <1>3, <1>4, <2>1
  <2> HIDE DEF S
  <2>4. Min(S) \in S /\ Min(S) <= 2
    BY <2>2, SmallestNumber
  <2>5. Min(S) = 2
    <3>1. PICK y : y = Min(S)
      OBVIOUS
    <3>2. y \in S /\ y <= 2 /\ y \in Nat /\ y # 0 /\ y # 1
      BY <2>2, <2>3, <2>4, <3>1
    <3> QED
      BY <3>1, <3>2
  <2> QED
    BY <2>5 DEF S
<1>6. SubSeq(p, 1, 2 - 1) = <<x>>
  <2>1. PICK q, w : q = SubSeq(p, 1, 1) /\ w = <<x>>
    OBVIOUS
  <2>2. x \in A /\ \A i \in 1 .. 1 : p[i] \in A
    BY <1>2, <1>3, <1>4, ElementOfSeq
  <2>3. q \in Seq(A) /\ Len(q) = 1 /\ q[1] = x
    <3>1. /\ q \in Seq(A) /\ Len(q) = IF 1 <= 1 THEN 1 - 1 + 1 ELSE 0
          /\ \A i \in 1 .. 1 - 1 + 1 : q[i] = p[1 + i - 1]
      BY <2>1, <2>2, SubSeqProperties
    <3> QED
      BY <1>4, <3>1
  <2>4. w \in Seq(A) /\ Len(w) = 1 /\ w[1] = x
    BY <2>1, <2>2
  <2>5. Len(q) = Len(w) /\ \A i \in 1 .. Len(q) : q[i] = w[i]
    BY <2>3, <2>4
  <2>6. q = w
    BY <2>3, <2>4, <2>5, SeqEqual
  <2>7. 2 - 1 = 1
    OBVIOUS
  <2> QED
    BY <2>1, <2>6, <2>7
<1>7. SubSeq(p, 2 + 1, Len(p)) = e
  <2>1. PICK q : q = SubSeq(p, 3, n + 2)
    OBVIOUS
  <2>2. \A i \in 3 .. n + 2 : p[i] \in A
    BY <1>3, ElementOfSeq
  <2>3. /\ q \in Seq(A) /\ Len(q) = IF 3 <= n + 2 THEN n + 2 - 3 + 1 ELSE 0
        /\ \A i \in 1 .. n + 2 - 3 + 1 : q[i] = p[3 + i - 1]
    BY <1>2, <2>1, <2>2, SubSeqProperties
  <2>4. Len(q) = n /\ \A i \in 1 .. n : q[i] = p[i + 2]
    <3>1. n + 2 - 3 + 1 = n /\ \A i \in 1 .. n : 3 + i - 1 = i + 2
      BY <1>2
    <3> QED
      BY <1>2, <2>3, <3>1
  <2>5. Len(q) = Len(e) /\ \A i \in 1 .. Len(q) : q[i] = e[i]
    BY <1>1, <1>4, <2>4
  <2>6. q = e
    BY <2>3, <2>5, SeqEqual
  <2> QED
    BY <1>3, <2>1, <2>6
<1>8. UrlDecode(<<x>>) = <<x>>
  <2>1. x \notin {Wide, Lead, Trail, "%", "+"}
    BY DEF Wide, Lead, Trail
  <2> QED
    BY <2>1, PlainDecodes
<1>9. Field(p) = [name |-> <<x>>, value |-> UrlDecode(e)]
  BY <1>5, <1>6, <1>7, <1>8 DEF Field
<1> QED
  BY <1>2, <1>3, <1>9

LEMMA SmallestIs ==
  ASSUME NEW x \in Nat
  PROVE  Min({x}) = x
<1>1. PICK T : T = {x}
  OBVIOUS
<1>2. T \in SUBSET Nat /\ T # {}
  BY <1>1
<1>3. Min(T) \in T
  BY <1>2, SmallestNumber
<1> QED
  BY <1>1, <1>3

(* A request for one key. *)
LEMMA QueryDelivers ==
  ASSUME NEW E, "&" \notin E, NEW e \in Seq(E)
  PROVE  FieldIn(<<"key", "=">> \o e, "key") = UrlDecode(e)
<1>1. PICK A, K, n : A = E \cup {"key", "="} /\ K = <<"key", "=">> /\ n = Len(e)
  OBVIOUS
<1>2. e \in Seq(A) /\ n \in Nat /\ \A i \in 1 .. n : e[i] # "&"
  <2>1. E \subseteq A
    BY <1>1
  <2>2. \A i \in 1 .. n : e[i] \in E
    BY <1>1, ElementOfSeq
  <2> QED
    BY <1>1, <2>1, <2>2, SeqMonotonic
<1>3. K \in Seq(A) /\ Len(K) = 2 /\ K[1] = "key" /\ K[2] = "="
  <2>1. PICK k, eq : k = "key" /\ eq = "="
    OBVIOUS
  <2>2. k \in A /\ eq \in A /\ K = <<k, eq>>
    BY <1>1, <2>1
  <2>3. K \in Seq(A) /\ Len(K) = 2 /\ K[1] = k /\ K[2] = eq
    BY <2>2
  <2> QED
    BY <2>1, <2>3
<1>4. PICK body : body = K \o e
  OBVIOUS
<1>5. /\ body \in Seq(A) /\ Len(body) = n + 2 /\ body[1] = "key" /\ body[2] = "="
      /\ \A i \in 1 .. n : body[2 + i] = e[i]
  <2>1. /\ body \in Seq(A) /\ Len(body) = Len(K) + Len(e)
        /\ \A i \in 1 .. Len(K) + Len(e) :
             body[i] = IF i <= Len(K) THEN K[i] ELSE e[i - Len(K)]
    BY <1>2, <1>3, <1>4, ConcatProperties
  <2>2. Len(body) = n + 2 /\ \A i \in 1 .. n + 2 : body[i] = IF i <= 2 THEN K[i] ELSE e[i - 2]
    BY <1>1, <1>2, <1>3, <2>1
  <2>3. \A i \in 1 .. n : 2 + i \in 1 .. n + 2 /\ ~(2 + i <= 2) /\ (2 + i) - 2 = i
    BY <1>2
  <2>4. 1 \in 1 .. n + 2 /\ 2 \in 1 .. n + 2
    BY <1>2
  <2> QED
    BY <1>3, <2>1, <2>2, <2>3, <2>4
<1>6. Split(body, "&") = [k \in 1 .. 1 |-> body]
  <2> DEFINE f == [k \in 1 .. 2 |-> IF k = 1 THEN 0 ELSE n + 3]
  <2>1. f \in [1 .. 1 + 1 -> Nat] /\ f[1] = 0 /\ f[1 + 1] = n + 3
    BY <1>2
  <2> HIDE DEF f
  <2>2. \A i \in 1 .. Len(body) : body[i] # "&"
    <3> SUFFICES ASSUME NEW i \in 1 .. n + 2 PROVE body[i] # "&"
      BY <1>5
    <3>1. i = 1 \/ i = 2 \/ (i - 2 \in 1 .. n /\ i = 2 + (i - 2))
      BY <1>2
    <3> QED
      BY <1>2, <1>5, <3>1
  <2>3. CutsAt(body, "&", 1, f)
    BY <1>2, <1>5, <2>1, <2>2 DEF CutsAt
  <2>4. Split(body, "&") = Pieces(body, 1, f)
    <3>1. PICK w, c : w = 1 /\ c = "&"
      OBVIOUS
    <3>2. /\ w \in Nat \ {0} /\ f \in [1 .. w + 1 -> Nat]
          /\ body \in Seq(A) /\ CutsAt(body, c, w, f)
      BY <1>5, <2>1, <2>3, <3>1
    <3>3. Split(body, c) = Pieces(body, w, f)
      BY <3>2, SplitIs
    <3> QED
      BY <3>1, <3>3
  <2>5. \A k \in 1 .. 1 : f[k] + 1 = 1 /\ f[k + 1] - 1 = n + 2
    BY <1>2, <2>1
  <2>6. SubSeq(body, 1, n + 2) = body
    BY <1>5, SubSeqFull
  <2> QED
    BY <2>4, <2>5, <2>6 DEF Pieces
<1>7. PICK ps : ps = [k \in 1 .. 1 |-> body]
  OBVIOUS
<1>8. ps[1] # <<>> /\ Field(ps[1]) = [name |-> <<"key">>, value |-> UrlDecode(e)]
  <2>1. PICK x : x = "key"
    OBVIOUS
  <2>2. IsField(body, x, e) /\ x \in {"key", "command"}
    BY <1>1, <1>2, <1>5, <2>1 DEF IsField, Reads
  <2>3. body # <<>> /\ Field(body) = [name |-> <<x>>, value |-> UrlDecode(e)]
    BY <1>2, <1>5, <2>2, FieldIs
  <2> QED
    BY <1>7, <2>1, <2>3
<1>9. ParseForm(body) = [k \in 1 .. 1 |-> Field(ps[k])]
  <2>1. NonEmpty(ps) = ps
    <3>1. ps = [k \in 1 .. 1 |-> ps[k]] /\ \A k \in 1 .. 1 : ps[k] # <<>>
      BY <1>7, <1>8
    <3> QED
      BY <3>1, AllNonEmpty
  <2> QED
    BY <1>6, <1>7, <2>1 DEF ParseForm
<1>10. PICK fields : fields = ParseForm(body)
  OBVIOUS
<1>11. /\ DOMAIN fields = {1} /\ fields[1].name = <<"key">>
       /\ fields[1].value = UrlDecode(e)
  <2>1. fields[1] = Field(ps[1]) /\ DOMAIN fields = {1}
    BY <1>9, <1>10
  <2> QED
    BY <1>8, <2>1
<1>12. {k \in DOMAIN fields : fields[k].name = <<"key">>} = {1} /\ Min({1}) = 1
  BY <1>11, SmallestIs
<1>13. FieldIn(body, "key") = fields[1].value
  BY <1>10, <1>12 DEF FieldIn
<1> QED
  BY <1>1, <1>4, <1>11, <1>13

(* p is the part of body from b to m, and b is where a field begins. *)
FieldFrom(body, b, m, x, e, p) ==
  /\ b \in Nat \ {0} /\ m = b + 1 + Len(e) /\ m <= Len(body) /\ p = SubSeq(body, b, m)
  /\ body[b] = x /\ body[b + 1] = "=" /\ Reads(body, b + 1, e)

LEMMA FieldPart ==
  ASSUME NEW A, NEW body \in Seq(A), NEW e \in Seq(A), NEW b, NEW m, NEW x, NEW p,
         FieldFrom(body, b, m, x, e, p)
  PROVE  p \in Seq(A) /\ IsField(p, x, e)
<1>1. PICK n : n = Len(e)
  OBVIOUS
<1>2. n \in Nat /\ b \in Nat /\ b >= 1 /\ m = b + 1 + n
  BY <1>1 DEF FieldFrom
<1>3. body[b] = x /\ body[b + 1] = "=" /\ \A i \in 1 .. n : body[b + 1 + i] = e[i]
  BY <1>1 DEF FieldFrom, Reads
<1>4. /\ p \in Seq(A) /\ Len(p) = IF b <= m THEN m - b + 1 ELSE 0
      /\ \A i \in 1 .. m - b + 1 : p[i] = body[b + i - 1]
  <2>1. m \in Int /\ \A i \in b .. m : body[i] \in A
    BY <1>2, ElementOfSeq DEF FieldFrom
  <2> QED
    BY <1>2, <2>1, SubSeqProperties DEF FieldFrom
<1>5. b <= m /\ m - b + 1 = n + 2
  BY <1>2
<1>6. p \in Seq(A) /\ Len(p) = n + 2 /\ \A i \in 1 .. n + 2 : p[i] = body[b + i - 1]
  BY <1>4, <1>5
<1>7. p[1] = x /\ p[2] = "="
  <2>1. 1 \in 1 .. n + 2 /\ 2 \in 1 .. n + 2 /\ b + 1 - 1 = b /\ b + 2 - 1 = b + 1
    BY <1>2
  <2> QED
    BY <1>3, <1>6, <2>1
<1>8. ASSUME NEW i \in 1 .. n PROVE p[2 + i] = e[i]
  <2>1. 2 + i \in 1 .. n + 2 /\ b + (2 + i) - 1 = b + 1 + i
    BY <1>2
  <2> QED
    BY <1>3, <1>6, <2>1
<1> QED
  BY <1>1, <1>6, <1>7, <1>8 DEF IsField, Reads

(* The body of a form with two fields: key=e&command=e. *)
TwoFields(body, n, e) ==
  /\ n \in Nat /\ Len(body) = 2 * n + 5
  /\ body[1] = "key" /\ body[2] = "=" /\ Reads(body, 2, e)
  /\ body[n + 3] = "&" /\ body[n + 4] = "command" /\ body[n + 5] = "="
  /\ Reads(body, n + 5, e)

LEMMA FormBody ==
  ASSUME NEW A, "key" \in A, "command" \in A, "=" \in A, "&" \in A,
         NEW e \in Seq(A), NEW n, n = Len(e), NEW body,
         body = <<"key", "=">> \o e \o <<"&", "command", "=">> \o e
  PROVE  body \in Seq(A) /\ TwoFields(body, n, e)
<1>1. PICK k, c, q, a : k = "key" /\ c = "command" /\ q = "=" /\ a = "&"
  OBVIOUS
<1>2. PICK K, M : K = <<k, q>> /\ M = <<a, c, q>>
  OBVIOUS
<1>3. /\ K \in Seq(A) /\ Len(K) = 2 /\ K[1] = k /\ K[2] = q
      /\ M \in Seq(A) /\ Len(M) = 3 /\ M[1] = a /\ M[2] = c /\ M[3] = q
  BY <1>1, <1>2
<1>4. n \in Nat
  OBVIOUS
<1>5. PICK L, X : L = K \o e /\ X = L \o M
  OBVIOUS
<1>6. body = X \o e
  BY <1>1, <1>2, <1>5
<1>7. /\ L \in Seq(A) /\ Len(L) = n + 2
      /\ \A i \in 1 .. n + 2 : L[i] = IF i <= 2 THEN K[i] ELSE e[i - 2]
  <2>1. /\ L \in Seq(A) /\ Len(L) = Len(K) + Len(e)
        /\ \A i \in 1 .. Len(K) + Len(e) : L[i] = IF i <= Len(K) THEN K[i] ELSE e[i - Len(K)]
    BY <1>3, <1>5, ConcatProperties
  <2>2. Len(K) + Len(e) = n + 2
    BY <1>3, <1>4
  <2> QED
    BY <1>3, <2>1, <2>2
<1>8. /\ X \in Seq(A) /\ Len(X) = n + 5
      /\ \A i \in 1 .. n + 5 : X[i] = IF i <= n + 2 THEN L[i] ELSE M[i - (n + 2)]
  <2>1. /\ X \in Seq(A) /\ Len(X) = Len(L) + Len(M)
        /\ \A i \in 1 .. Len(L) + Len(M) : X[i] = IF i <= Len(L) THEN L[i] ELSE M[i - Len(L)]
    <3>1. L \in Seq(A) /\ M \in Seq(A) /\ X = L \o M
      BY <1>3, <1>5, <1>7
    <3> QED
      BY <3>1, ConcatProperties
  <2>2. Len(L) + Len(M) = n + 5
    BY <1>3, <1>4, <1>7
  <2> QED
    BY <1>7, <2>1, <2>2
<1>9. /\ body \in Seq(A) /\ Len(body) = 2 * n + 5
      /\ \A i \in 1 .. 2 * n + 5 : body[i] = IF i <= n + 5 THEN X[i] ELSE e[i - (n + 5)]
  <2>1. /\ body \in Seq(A) /\ Len(body) = Len(X) + Len(e)
        /\ \A i \in 1 .. Len(X) + Len(e) :
             body[i] = IF i <= Len(X) THEN X[i] ELSE e[i - Len(X)]
    BY <1>6, <1>8, ConcatProperties
  <2>2. Len(X) + Len(e) = 2 * n + 5
    BY <1>4, <1>8
  <2> QED
    BY <1>8, <2>1, <2>2
<1>10. \A i \in 1 .. n + 2 : body[i] = L[i]
  <2> SUFFICES ASSUME NEW i \in 1 .. n + 2 PROVE body[i] = L[i]
    OBVIOUS
  <2>1. i \in 1 .. 2 * n + 5 /\ i <= n + 5 /\ i \in 1 .. n + 5 /\ i <= n + 2
    BY <1>4
  <2> QED
    BY <1>8, <1>9, <2>1
<1>11. body[1] = k /\ body[2] = q
  <2>1. 1 \in 1 .. n + 2 /\ 2 \in 1 .. n + 2 /\ 1 <= 2 /\ 2 <= 2
    BY <1>4
  <2> QED
    BY <1>3, <1>7, <1>10, <2>1
<1>12. ASSUME NEW i \in 1 .. n PROVE body[2 + i] = e[i]
  <2>1. 2 + i \in 1 .. n + 2 /\ ~(2 + i <= 2) /\ (2 + i) - 2 = i
    BY <1>4
  <2> QED
    BY <1>7, <1>10, <2>1
<1>13. ASSUME NEW j \in 1 .. 3 PROVE body[(n + 2) + j] = M[j]
  <2>1. PICK i : i = (n + 2) + j
    OBVIOUS
  <2>2. /\ i \in 1 .. 2 * n + 5 /\ i <= n + 5 /\ i \in 1 .. n + 5 /\ ~(i <= n + 2)
        /\ i - (n + 2) = j
    BY <1>4, <2>1
  <2> QED
    BY <1>8, <1>9, <2>1, <2>2
<1>14. ASSUME NEW i \in 1 .. n PROVE body[(n + 5) + i] = e[i]
  <2>1. /\ (n + 5) + i \in 1 .. 2 * n + 5 /\ ~((n + 5) + i <= n + 5)
        /\ (n + 5) + i - (n + 5) = i
    BY <1>4
  <2> QED
    BY <1>9, <2>1
<1>15. body[n + 3] = a /\ body[n + 4] = c /\ body[n + 5] = q
  <2>1. /\ 1 \in 1 .. 3 /\ 2 \in 1 .. 3 /\ 3 \in 1 .. 3
        /\ (n + 2) + 1 = n + 3 /\ (n + 2) + 2 = n + 4 /\ (n + 2) + 3 = n + 5
    BY <1>4
  <2> QED
    BY <1>3, <1>13, <2>1
<1>16. Reads(body, 2, e) /\ Reads(body, n + 5, e)
  BY <1>12, <1>14 DEF Reads
<1> QED
  BY <1>1, <1>4, <1>9, <1>11, <1>15, <1>16 DEF TwoFields

(* c is once in s, at m, between p and q. *)
Halves(s, c, m, p, q) ==
  /\ m \in 1 .. Len(s) /\ \A i \in 1 .. Len(s) : s[i] = c <=> i = m
  /\ p = SubSeq(s, 1, m - 1) /\ q = SubSeq(s, m + 1, Len(s))

LEMMA SplitInTwo ==
  ASSUME NEW A, NEW s \in Seq(A), NEW c, NEW m, NEW p, NEW q, Halves(s, c, m, p, q)
  PROVE  Split(s, c) = [k \in 1 .. 2 |-> IF k = 1 THEN p ELSE q]
<1>1. PICK l : l = Len(s)
  OBVIOUS
<1>2. l \in Nat /\ m \in 1 .. l /\ \A i \in 1 .. l : s[i] = c <=> i = m
  BY <1>1 DEF Halves
<1>3. PICK f : f = [k \in 1 .. 3 |-> IF k = 1 THEN 0 ELSE IF k = 2 THEN m ELSE l + 1]
  OBVIOUS
<1>4. f \in [1 .. 3 -> Nat] /\ f[1] = 0 /\ f[2] = m /\ f[3] = l + 1
  BY <1>2, <1>3
<1>5. PICK w : w = 2
  OBVIOUS
<1>6. \A k : (k \in 2 .. w <=> k = 2) /\ (k \in 1 .. w <=> k = 1 \/ k = 2)
  BY <1>5
<1>7. CutsAt(s, c, w, f)
  <2>1. f[1] = 0 /\ f[w + 1] = Len(s) + 1
    BY <1>1, <1>4, <1>5
  <2>2. ASSUME NEW k \in 1 .. w PROVE f[k] < f[k + 1]
    <3>1. k = 1 \/ k = 2
      BY <1>6
    <3> QED
      BY <1>2, <1>4, <3>1
  <2>3. \A i \in 1 .. Len(s) : s[i] = c <=> \E k \in 2 .. w : f[k] = i
    BY <1>1, <1>2, <1>4, <1>6
  <2> QED
    BY <2>1, <2>2, <2>3 DEF CutsAt
<1>8. w \in Nat \ {0} /\ f \in [1 .. w + 1 -> Nat] /\ s \in Seq(A)
  BY <1>4, <1>5
<1>9. Split(s, c) = Pieces(s, w, f)
  BY <1>7, <1>8, SplitIs
<1>10. /\ SubSeq(s, f[1] + 1, f[1 + 1] - 1) = p
       /\ SubSeq(s, f[2] + 1, f[2 + 1] - 1) = q
  <2>1. f[1] + 1 = 1 /\ f[1 + 1] - 1 = m - 1 /\ f[2] + 1 = m + 1 /\ f[2 + 1] - 1 = l
    BY <1>2, <1>4
  <2> QED
    BY <1>1, <2>1 DEF Halves
<1>11. ASSUME NEW k \in 1 .. 2
       PROVE  SubSeq(s, f[k] + 1, f[k + 1] - 1) = IF k = 1 THEN p ELSE q
  <2>1. k = 1 \/ k = 2
    OBVIOUS
  <2> QED
    BY <1>10, <2>1
<1> QED
  BY <1>5, <1>9, <1>11 DEF Pieces

LEMMA TwoFieldsReach ==
  ASSUME NEW A, NEW e \in Seq(A), NEW n, n = Len(e), NEW body \in Seq(A),
         TwoFields(body, n, e), \A i \in 1 .. n : e[i] # "&"
  PROVE  FieldIn(body, "key") = UrlDecode(e) /\ FieldIn(body, "command") = UrlDecode(e)
<1>1. n \in Nat /\ Len(body) = 2 * n + 5
  BY DEF TwoFields
<1>3. /\ body[1] = "key" /\ body[2] = "=" /\ Reads(body, 2, e)
      /\ body[n + 3] = "&" /\ body[n + 4] = "command" /\ body[n + 5] = "="
      /\ Reads(body, n + 5, e)
  BY DEF TwoFields
<1>4. PICK p, q : p = SubSeq(body, 1, n + 2) /\ q = SubSeq(body, n + 4, 2 * n + 5)
  OBVIOUS
<1>5. \A i \in 1 .. n : body[2 + i] # "&" /\ body[n + 5 + i] # "&"
  BY <1>1, <1>3 DEF Reads
<1>6. Split(body, "&") = [k \in 1 .. 2 |-> IF k = 1 THEN p ELSE q]
  <2>1. ASSUME NEW i \in 1 .. 2 * n + 5 PROVE body[i] = "&" <=> i = n + 3
    <3>0. /\ i \in 1 .. 2 \/ i \in 3 .. n + 2 \/ i \in n + 3 .. n + 5 \/ i \in n + 6 .. 2 * n + 5
          /\ i \in Nat
      BY <1>1
    <3>1. CASE i \in 3 .. n + 2
      <4>1. i - 2 \in 1 .. n /\ i = 2 + (i - 2) /\ i # n + 3
        BY <1>1, <3>1
      <4> QED
        BY <1>5, <4>1
    <3>2. CASE i \in n + 6 .. 2 * n + 5
      <4>1. i - (n + 5) \in 1 .. n /\ i = n + 5 + (i - (n + 5)) /\ i # n + 3
        BY <1>1, <3>2
      <4> QED
        BY <1>5, <4>1
    <3>3. CASE i \in 1 .. 2
      <4>1. (i = 1 \/ i = 2) /\ i # n + 3
        BY <1>1, <3>3
      <4> QED
        BY <1>3, <4>1
    <3>4. CASE i \in n + 3 .. n + 5
      <4>1. i = n + 3 \/ (i = n + 4 /\ i # n + 3) \/ (i = n + 5 /\ i # n + 3)
        BY <1>1, <3>4
      <4> QED
        BY <1>3, <4>1
    <3> QED
      BY <3>0, <3>1, <3>2, <3>3, <3>4
  <2>2. PICK m, c, l : m = n + 3 /\ c = "&" /\ l = 2 * n + 5
    OBVIOUS
  <2>3. m \in 1 .. l /\ m - 1 = n + 2 /\ m + 1 = n + 4 /\ l = Len(body)
    BY <1>1, <2>2
  <2>4. \A i \in 1 .. Len(body) : body[i] = c <=> i = m
    BY <2>1, <2>2, <2>3
  <2>5. m \in 1 .. Len(body) /\ p = SubSeq(body, 1, m - 1) /\ q = SubSeq(body, m + 1, Len(body))
    BY <1>4, <2>2, <2>3
  <2>6. Halves(body, c, m, p, q)
    BY <2>4, <2>5 DEF Halves
  <2> QED
    BY <2>2, <2>6, SplitInTwo
<1>7. PICK ps : ps = [k \in 1 .. 2 |-> IF k = 1 THEN p ELSE q]
  OBVIOUS
<1>8. PICK x, y : x = "key" /\ y = "command"
  OBVIOUS
<1>9. p # <<>> /\ Field(p) = [name |-> <<x>>, value |-> UrlDecode(e)]
  <2>1. PICK b, m : b = 1 /\ m = n + 2
    OBVIOUS
  <2>2. /\ b \in Nat \ {0} /\ m \in Nat /\ m = b + 1 + Len(e) /\ m <= Len(body)
        /\ body[b] = x /\ body[b + 1] = "=" /\ Reads(body, b + 1, e)
        /\ p = SubSeq(body, b, m)
    BY <1>1, <1>3, <1>4, <1>8, <2>1
  <2>3. FieldFrom(body, b, m, x, e, p)
    BY <2>2 DEF FieldFrom
  <2>4. p \in Seq(A) /\ IsField(p, x, e)
    BY <2>3, FieldPart
  <2> QED
    BY <1>8, <2>4, FieldIs
<1>10. q # <<>> /\ Field(q) = [name |-> <<y>>, value |-> UrlDecode(e)]
  <2>1. PICK b, m : b = n + 4 /\ m = 2 * n + 5
    OBVIOUS
  <2>2. /\ b \in Nat \ {0} /\ m \in Nat /\ m = b + 1 + Len(e) /\ m <= Len(body)
        /\ body[b] = y /\ body[b + 1] = "=" /\ Reads(body, b + 1, e)
        /\ q = SubSeq(body, b, m)
    <3>1. b + 1 = n + 5
      BY <1>1, <2>1
    <3> QED
      BY <1>1, <1>3, <1>4, <1>8, <2>1, <3>1
  <2>3. FieldFrom(body, b, m, y, e, q)
    BY <2>2 DEF FieldFrom
  <2>4. q \in Seq(A) /\ IsField(q, y, e)
    BY <2>3, FieldPart
  <2> QED
    BY <1>8, <2>4, FieldIs
<1>11. ParseForm(body) = [k \in 1 .. 2 |-> Field(ps[k])]
  <2>1. NonEmpty(ps) = ps
    <3>1. PICK w : w = 2
      OBVIOUS
    <3>2. w \in Nat /\ ps = [k \in 1 .. w |-> ps[k]] /\ \A k \in 1 .. w : ps[k] # <<>>
      BY <1>7, <1>9, <1>10, <3>1
    <3> QED
      BY <3>2, AllNonEmpty
  <2> QED
    BY <1>6, <1>7, <2>1 DEF ParseForm
<1>12. PICK fields : fields = ParseForm(body)
  OBVIOUS
<1>13. /\ DOMAIN fields = {1, 2} /\ fields[1].name = <<x>> /\ fields[2].name = <<y>>
       /\ fields[1].value = UrlDecode(e) /\ fields[2].value = UrlDecode(e)
  <2>1. fields[1] = Field(p) /\ fields[2] = Field(q) /\ DOMAIN fields = {1, 2}
    BY <1>7, <1>11, <1>12
  <2> QED
    BY <1>9, <1>10, <2>1
<1>14. <<x>> # <<y>>
  BY <1>8
<1>15. /\ {k \in DOMAIN fields : fields[k].name = <<x>>} = {1} /\ Min({1}) = 1
       /\ {k \in DOMAIN fields : fields[k].name = <<y>>} = {2} /\ Min({2}) = 2
  BY <1>13, <1>14, SmallestIs
<1>16. FieldIn(body, x) = fields[1].value /\ FieldIn(body, y) = fields[2].value
  BY <1>12, <1>15 DEF FieldIn
<1> QED
  BY <1>8, <1>13, <1>16

LEMMA FormReaches ==
  ASSUME NEW E, "&" \notin E, NEW e \in Seq(E), NEW body,
         body = <<"key", "=">> \o e \o <<"&", "command", "=">> \o e
  PROVE  FieldIn(body, "key") = UrlDecode(e) /\ FieldIn(body, "command") = UrlDecode(e)
<1>1. PICK A, n : A = E \cup {"key", "command", "=", "&"} /\ n = Len(e)
  OBVIOUS
<1>2. e \in Seq(A) /\ \A i \in 1 .. n : e[i] # "&"
  <2>1. E \subseteq A
    BY <1>1
  <2>2. \A i \in 1 .. n : e[i] \in E
    BY <1>1, ElementOfSeq
  <2> QED
    BY <1>1, <2>1, <2>2, SeqMonotonic
<1>3. body \in Seq(A) /\ TwoFields(body, n, e)
  <2>1. "key" \in A /\ "command" \in A /\ "=" \in A /\ "&" \in A
    BY <1>1
  <2> QED
    BY <1>1, <1>2, <2>1, FormBody
<1> QED
  <2>1. /\ e \in Seq(A) /\ n = Len(e) /\ body \in Seq(A)
        /\ TwoFields(body, n, e) /\ \A i \in 1 .. n : e[i] # "&"
    BY <1>1, <1>2, <1>3
  <2> QED
    BY <2>1, TwoFieldsReach

-----------------------------------------------------------------------------
(* What SET was accepted with.                                             *)
LegalValue(v) == v \in Text /\ v # <<>> /\ v[Len(v)] \notin White

LEMMA TrimEnds ==
  ASSUME NEW s \in Text, Trim(s) # <<>>
  PROVE  /\ Trim(s) \in Text /\ Len(Trim(s)) \in 1 .. Len(s)
         /\ Trim(s)[1] \notin White /\ Trim(s)[Len(Trim(s))] \notin White
<1>1. PICK e, t : e = TrimEnd(s) /\ t = TrimStart(e)
  OBVIOUS
<1>2. t = Trim(s)
  BY <1>1 DEF Trim
<1>3. /\ e \in Text /\ Len(e) <= Len(s) /\ Len(s) \in Nat /\ Len(e) \in Nat
      /\ Len(e) > 0 => e[Len(e)] \notin White
  BY <1>1, TrimEndCuts, TextIsSeq
<1>4. t \in Text
  BY <1>1, <1>3, TrimIsText
<1>5. PICK o \in 0 .. Len(e) :
        /\ Len(t) = Len(e) - o
        /\ \A i \in 1 .. Len(t) : t[i] = e[o + i]
        /\ o < Len(e) => e[o + 1] \notin White
  BY <1>1, <1>3, TrimStartCuts
<1>6. PICK l : l = Len(t)
  OBVIOUS
<1>7. l \in Nat /\ l # 0
  BY <1>2, <1>4, <1>6, EmptySeq DEF Text
<1>8. 1 \in 1 .. l /\ l \in 1 .. l /\ o + l = Len(e) /\ o < Len(e) /\ Len(e) > 0 /\ l <= Len(e)
  BY <1>3, <1>5, <1>6, <1>7
<1>9. t[1] = e[o + 1] /\ t[l] = e[o + l]
  BY <1>5, <1>6, <1>8
<1>10. t[1] \notin White /\ t[l] \notin White
  BY <1>3, <1>5, <1>8, <1>9
<1>11. l \in 1 .. Len(s)
  BY <1>3, <1>7, <1>8
<1> QED
  BY <1>2, <1>4, <1>6, <1>10, <1>11

LEMMA TakeWordMeasures ==
  ASSUME NEW s \in Text
  PROVE  LET w == TakeWord(s)
         IN  /\ w.word \in Text /\ w.rest \in Text
             /\ Len(w.word) + Len(w.rest) <= Len(s)
             /\ w.rest # <<>> => w.rest[1] \in White
             /\ w.word # <<>> /\ s[1] \in White => Len(w.word) + Len(w.rest) + 1 <= Len(s)
<1>1. PICK t : t = TrimStart(s)
  OBVIOUS
<1>2. PICK n, l, m : n = WordLen(t) /\ l = Len(t) /\ m = Len(s)
  OBVIOUS
<1>3. t \in Text /\ l \in Nat /\ m \in Nat /\ n \in 0 .. l
  BY <1>1, <1>2, TrimIsText, WordLenCuts, TextIsSeq
<1>4. n < l => t[n + 1] \in White
  BY <1>2, <1>3, WordLenCuts
<1>5. PICK o \in 0 .. m : l = m - o /\ (o < m => s[o + 1] \notin White)
  BY <1>1, <1>2, TrimStartCuts
<1>6. PICK u, r : u = SubSeq(t, 1, n) /\ r = SubSeq(t, n + 1, l)
  OBVIOUS
<1>7. u \in Text /\ Len(u) = n
  <2>1. 1 \in 1 .. Len(t) + 1 /\ n \in 1 - 1 .. Len(t)
    BY <1>2, <1>3
  <2>2. u \in Text /\ Len(u) = n - 1 + 1
    BY <1>3, <1>6, <2>1, PartOf
  <2> QED
    BY <1>3, <2>2
<1>8. r \in Text /\ Len(r) = l - n /\ \A i \in 1 .. l - n : r[i] = t[n + i]
  <2>1. PICK k : k = n + 1
    OBVIOUS
  <2>2. k \in 1 .. Len(t) + 1 /\ l \in k - 1 .. Len(t)
    BY <1>2, <1>3, <2>1
  <2>3. r \in Text /\ Len(r) = l - k + 1 /\ \A i \in 1 .. l - k + 1 : r[i] = t[k + i - 1]
    BY <1>3, <1>6, <2>1, <2>2, PartOf
  <2>4. l - k + 1 = l - n /\ \A i \in 1 .. l - n : k + i - 1 = n + i
    BY <1>3, <2>1
  <2> QED
    BY <2>3, <2>4
<1>9. r # <<>> => r[1] \in White
  <2> SUFFICES ASSUME r # <<>> PROVE r[1] \in White
    OBVIOUS
  <2>1. Len(r) # 0
    BY <1>8, EmptySeq DEF Text
  <2>2. 1 \in 1 .. l - n /\ n < l
    BY <1>3, <1>8, <2>1
  <2> QED
    BY <1>4, <1>8, <2>2
<1>10. u # <<>> /\ s[1] \in White => n + (l - n) + 1 <= m
  <2> SUFFICES ASSUME u # <<>>, s[1] \in White PROVE n + (l - n) + 1 <= m
    OBVIOUS
  <2>1. n # 0
    BY <1>7, EmptySeq DEF Text
  <2>2. o < m
    BY <1>3, <1>5, <2>1
  <2>3. o # 0
    BY <1>5, <2>2
  <2> QED
    BY <1>3, <1>5, <2>3
<1>11. n + (l - n) <= m
  BY <1>3, <1>5
<1>12. TakeWord(s) = [word |-> u, rest |-> r]
  BY <1>1, <1>2, <1>6 DEF TakeWord
<1>13. PICK w : w = TakeWord(s)
  OBVIOUS
<1>14. w.word = u /\ w.rest = r
  BY <1>12, <1>13
<1>15. PICK p, q : p = Len(u) /\ q = Len(r)
  OBVIOUS
<1>16. p = n /\ q = l - n
  BY <1>7, <1>8, <1>15
<1>17. p + q <= m /\ (u # <<>> /\ s[1] \in White => p + q + 1 <= m)
  BY <1>10, <1>11, <1>16
<1>18. /\ w.word \in Text /\ w.rest \in Text
       /\ Len(w.word) + Len(w.rest) <= Len(s)
       /\ w.rest # <<>> => w.rest[1] \in White
       /\ w.word # <<>> /\ s[1] \in White => Len(w.word) + Len(w.rest) + 1 <= Len(s)
  BY <1>2, <1>7, <1>8, <1>9, <1>14, <1>15, <1>17
<1> QED
  BY <1>13, <1>18

LEMMA ValueIsLegal ==
  ASSUME NEW k, NEW v \in Text, v # <<>> => v[1] \notin White /\ v[Len(v)] \notin White,
         ValueAndTtl(k, v).op # "rejected"
  PROVE  v # <<>> /\ ValueAndTtl(k, v).key = k /\ LegalValue(ValueAndTtl(k, v).value)
<1>1. PICK gaps : gaps = {i \in DOMAIN v : v[i] \in White}
  OBVIOUS
<1>2. PICK last : last = SubSeq(v, Max(gaps) + 1, Len(v))
  OBVIOUS
<1>3. Len(v) \in Nat /\ DOMAIN v = 1 .. Len(v) /\ gaps \in SUBSET (1 .. Len(v))
  BY <1>1, TextIsSeq
<1>4. ValueAndTtl(k, v)
        = IF v = <<>> THEN Rejected("missing")
          ELSE IF gaps = {} \/ ~LooksLikeTtl(last) THEN SetOf(k, v, Never)
          ELSE IF TtlFault(last) # "none" THEN Rejected(TtlFault(last))
          ELSE SetOf(k, TrimEnd(SubSeq(v, 1, Max(gaps) - 1)), NumberOf(last))
  BY <1>1, <1>2 DEF ValueAndTtl
<1>5. \A why : Rejected(why).op = "rejected"
  BY DEF Rejected
<1>6. /\ v # <<>>
      /\ \/ ValueAndTtl(k, v) = SetOf(k, v, Never)
         \/ gaps # {} /\ ValueAndTtl(k, v)
                            = SetOf(k, TrimEnd(SubSeq(v, 1, Max(gaps) - 1)), NumberOf(last))
  BY <1>4, <1>5
<1>7. ASSUME gaps # {} PROVE LegalValue(TrimEnd(SubSeq(v, 1, Max(gaps) - 1)))
  <2>1. PICK g : g = Max(gaps)
    OBVIOUS
  <2>2. g \in 1 .. Len(v) /\ g \in gaps
    BY <1>3, <1>7, <2>1, GreatestNumber
  <2>3. g # 1 /\ g \in Nat
    BY <1>1, <1>3, <1>6, <2>2
  <2>4. PICK p, e : p = SubSeq(v, 1, g - 1) /\ e = TrimEnd(p)
    OBVIOUS
  <2>5. p \in Text /\ Len(p) = g - 1 /\ p[1] = v[1]
    <3>1. PICK h : h = g - 1
      OBVIOUS
    <3>2. 1 \in 1 .. Len(v) + 1 /\ h \in 1 - 1 .. Len(v) /\ h >= 1
      BY <1>3, <2>2, <2>3, <3>1
    <3>3. p \in Text /\ Len(p) = h - 1 + 1 /\ \A i \in 1 .. h - 1 + 1 : p[i] = v[1 + i - 1]
      BY <2>4, <3>1, <3>2, PartOf
    <3>4. 1 \in 1 .. h - 1 + 1 /\ h - 1 + 1 = h /\ 1 + 1 - 1 = 1
      BY <3>2
    <3> QED
      BY <3>1, <3>3, <3>4
  <2>6. /\ e \in Text /\ Len(e) \in Nat /\ Len(e) <= Len(p)
        /\ \A i \in 1 .. Len(p) : i > Len(e) => p[i] \in White
        /\ Len(e) > 0 => e[Len(e)] \notin White
    BY <2>4, <2>5, TrimEndCuts, TextIsSeq
  <2>7. 1 \in 1 .. Len(p)
    BY <2>3, <2>5, <2>2
  <2>8. Len(e) > 0
    BY <1>6, <2>5, <2>6, <2>7
  <2>9. e # <<>>
    BY <2>8
  <2> QED
    BY <2>1, <2>4, <2>6, <2>8, <2>9 DEF LegalValue
<1>8. LegalValue(v)
  BY <1>6 DEF LegalValue
<1>9. \A val, ttl : SetOf(k, val, ttl).key = k /\ SetOf(k, val, ttl).value = val
  BY DEF SetOf
<1> QED
  BY <1>6, <1>7, <1>8, <1>9

(* A line of SET has room for its key, the word and a blank. *)
LEMMA SetAccepts ==
  ASSUME NEW s \in Text, Parse(s).op = "set"
  PROVE  /\ LegalKey(Parse(s).key) /\ LegalValue(Parse(s).value)
         /\ Len(Parse(s).key) + 2 <= MaxLen
<1>1. PICK t, w : t = Trim(s) /\ w = TakeWord(t)
  OBVIOUS
<1>2. PICK x, v : x = TakeWord(w.rest) /\ v = Trim(x.rest)
  OBVIOUS
<1>3. \A op, rest : ParseOneKey(op, rest).op \in {op, "rejected"}
  BY DEF ParseOneKey, Rejected
<1>4. \A op, rest : NoArgument(op, rest).op \in {op, "rejected"}
  BY DEF NoArgument, Rejected
<1>5. \A why : Rejected(why).op = "rejected"
  BY DEF Rejected
<1>6. Parse(s) = ParseSet(w.rest) /\ ~(Len(s) > MaxLen) /\ w.word = <<"SET">>
  <2>1. PICK r : r = Parse(s)
    OBVIOUS
  <2>2. r.op = "set"
    BY <2>1
  <2>3. \/ r = ParseSet(w.rest) /\ ~(Len(s) > MaxLen) /\ w.word = <<"SET">>
        \/ \E op \in {"get", "del"} : r = ParseOneKey(op, w.rest)
        \/ \E op \in {"list", "status", "ping", "exit"} : r = NoArgument(op, w.rest)
        \/ \E why : r = Rejected(why)
    BY <1>1, <2>1 DEF Parse
  <2> QED
    BY <1>3, <1>4, <1>5, <2>1, <2>2, <2>3
<1>7. x.word # <<>> /\ Parse(s) = ValueAndTtl(x.word, v)
  <2>1. ParseSet(w.rest) = IF x.word = <<>> THEN Rejected("missing")
                           ELSE ValueAndTtl(x.word, v)
    BY <1>2 DEF ParseSet
  <2> QED
    BY <1>5, <1>6, <2>1
<1>8. t \in Text /\ w.word \in Text /\ w.rest \in Text
      /\ Len(w.word) + Len(w.rest) <= Len(t) /\ (w.rest # <<>> => w.rest[1] \in White)
  <2>1. t \in Text
    BY <1>1, TrimIsText
  <2> QED
    BY <1>1, <2>1, TakeWordMeasures
<1>9. /\ x.word \in Text /\ x.rest \in Text
      /\ Len(x.word) + Len(x.rest) <= Len(w.rest)
      /\ w.rest[1] \in White => Len(x.word) + Len(x.rest) + 1 <= Len(w.rest)
  BY <1>2, <1>7, <1>8, TakeWordMeasures
<1>10. PICK a, b, c, d, e : /\ a = Len(w.word) /\ b = Len(w.rest) /\ c = Len(x.word)
                            /\ d = Len(x.rest) /\ e = Len(t)
  OBVIOUS
<1>11. /\ a \in Nat /\ b \in Nat /\ c \in Nat /\ d \in Nat /\ e \in Nat
       /\ Len(s) \in Nat /\ a + b <= e /\ c + d <= b
  BY <1>8, <1>9, <1>10, TextIsSeq
<1>12. c # 0 /\ a = 1
  <2>1. c # 0
    BY <1>7, <1>9, <1>10, EmptySeq DEF Text
  <2>2. PICK word : word = w.word
    OBVIOUS
  <2>3. Len(word) = 1
    BY <1>6, <2>2
  <2> QED
    BY <1>10, <2>1, <2>2, <2>3
<1>13. w.rest # <<>>
  <2>1. w.rest = <<>> => b = 0
    BY <1>10
  <2>2. b # 0
    BY <1>11, <1>12
  <2> QED
    BY <2>1, <2>2
<1>14. c + d + 1 <= b
  BY <1>8, <1>9, <1>10, <1>13
<1>15. e <= Len(s)
  <2>1. t # <<>>
    <3>1. e # 0
      BY <1>11, <1>12
    <3> QED
      BY <1>10, <3>1
  <2> QED
    BY <1>1, <1>10, <1>11, <2>1, TrimEnds
<1>16. c + 2 <= MaxLen
  <2>1. MaxLen \in Nat
    BY ParserAssumption
  <2>2. Len(s) <= MaxLen
    BY <1>6, <1>11, <2>1
  <2>3. c + 2 <= e
    BY <1>11, <1>12, <1>14
  <2> QED
    BY <1>11, <1>15, <2>1, <2>2, <2>3
<1>17. v \in Text /\ (v # <<>> => v[1] \notin White /\ v[Len(v)] \notin White)
  BY <1>2, <1>9, TrimIsText, TrimEnds
<1>18. ValueAndTtl(x.word, v).op # "rejected"
  BY <1>7
<1>19. Parse(s).key = x.word /\ LegalValue(Parse(s).value)
  BY <1>7, <1>17, <1>18, ValueIsLegal
<1>20. LegalKey(Parse(s).key)
  BY ParseAccepts
<1> QED
  BY <1>10, <1>16, <1>19, <1>20

-----------------------------------------------------------------------------
(* A text after a blank, trimmed.                                          *)
LEMMA BlankBefore ==
  ASSUME NEW s \in Text, s # <<>>, s[1] \notin White, s[Len(s)] \notin White
  PROVE  /\ <<BL>> \o s \in Text /\ Len(<<BL>> \o s) = Len(s) + 1
         /\ \A i \in 1 .. Len(s) : (<<BL>> \o s)[i + 1] = s[i]
         /\ SubSeq(<<BL>> \o s, 2, Len(s) + 1) = s
         /\ Trim(<<BL>> \o s) = s
<1>1. PICK x, n, B : x = <<BL>> \o s /\ n = Len(s) /\ B = <<BL>>
  OBVIOUS
<1>2. s \in Seq(Symbols) /\ B \in Seq(Symbols) /\ Len(B) = 1 /\ B[1] = BL
  BY <1>1, SymbolsAssumption DEF Text
<1>3. x \in Text /\ Len(x) = n + 1 /\ n \in Nat /\ n # 0
  BY <1>1, <1>2, EmptySeq DEF Text
<1>4. x[1] = BL /\ \A i \in 1 .. n : x[i + 1] = s[i]
  BY <1>1, <1>2
<1>5. PICK m, e : m = 2 /\ e = n + 1
  OBVIOUS
<1>6. /\ m \in 1 .. Len(x) + 1 /\ e \in m - 1 .. Len(x) /\ e - m + 1 = n
      /\ \A i \in 1 .. n : m + i - 1 = i + 1
  BY <1>3, <1>5
<1>7. SubSeq(x, m, e) = s
  <2>1. PICK y : y = SubSeq(x, m, e)
    OBVIOUS
  <2>2. y \in Text /\ Len(y) = n /\ \A i \in 1 .. n : y[i] = x[m + i - 1]
    BY <1>3, <1>6, <2>1, PartOf
  <2>3. \A i \in 1 .. n : y[i] = s[i]
    BY <1>4, <1>6, <2>2
  <2> QED
    BY <1>1, <1>2, <2>1, <2>2, <2>3, SeqEqual DEF Text
<1>8. x[m] \notin White /\ x[e] \notin White
  <2>1. 1 \in 1 .. n /\ n \in 1 .. n /\ m = 1 + 1 /\ e = n + 1
    BY <1>3, <1>5
  <2>2. x[m] = s[1] /\ x[e] = s[n]
    BY <1>4, <2>1
  <2> QED
    BY <1>1, <2>2
<1>9. Trim(SubSeq(x, 1, e)) = SubSeq(x, m, e)
  <2>1. PICK l : l = 1
    OBVIOUS
  <2>2. /\ l \in 1 .. Len(x) + 1 /\ e \in l - 1 .. Len(x)
        /\ m \in l .. e /\ e \in m .. e
        /\ \A i \in l .. m - 1 : i = 1
        /\ e + 1 .. e = {}
    BY <1>3, <1>5, <2>1
  <2>3. /\ \A i \in l .. m - 1 : x[i] \in White
        /\ \A i \in e + 1 .. e : x[i] \in White
    BY <1>4, <2>2 DEF White
  <2>4. Trim(SubSeq(x, l, e)) = SubSeq(x, m, e)
    <3>1. /\ x \in Text /\ l \in 1 .. Len(x) + 1 /\ e \in l - 1 .. Len(x)
          /\ m \in l .. e /\ x[m] \notin White /\ \A i \in l .. m - 1 : x[i] \in White
          /\ e \in m .. e /\ x[e] \notin White /\ \A i \in e + 1 .. e : x[i] \in White
      BY <1>3, <1>8, <2>2, <2>3
    <3> QED
      BY <3>1, PartTrim
  <2> QED
    BY <2>1, <2>4
<1>10. SubSeq(x, 1, e) = x
  BY <1>3, <1>5 DEF Text
<1> QED
  BY <1>1, <1>3, <1>4, <1>5, <1>7, <1>9, <1>10

(* A value is shown as the store has it. *)
LEMMA RowShows ==
  ASSUME NEW k, LegalKey(k), NEW v, LegalValue(v)
  PROVE  RowValue(ValueReply(k, v)) = v
<1>1. PICK j, x, r : j = (k \o <<BL>>) \o v /\ x = <<BL>> \o j /\ r = ValueReply(k, v)
  OBVIOUS
<1>2. k \in Text /\ v \in Text /\ Clean(k) /\ k # <<>> /\ v # <<>>
  BY DEF LegalKey, LegalValue, Clean, White
<1>3. /\ j \in Text /\ Len(j) = Len(k) + 1 + Len(v)
      /\ \A i \in 1 .. Len(k) : j[i] = k[i]
      /\ \A i \in 1 .. Len(v) : j[Len(k) + 1 + i] = v[i]
  BY <1>1, <1>2, TextSplits
<1>4. PICK p, q : p = Len(k) /\ q = Len(v)
  OBVIOUS
<1>5. p \in Nat /\ q \in Nat /\ p # 0 /\ q # 0
  BY <1>2, <1>4, EmptySeq DEF Text
<1>6. j # <<>> /\ j[1] \notin White /\ j[Len(j)] \notin White
  <2>1. Len(j) # 0 /\ 1 \in 1 .. p /\ q \in 1 .. q /\ Len(j) = p + 1 + q
    BY <1>3, <1>4, <1>5
  <2>2. j[1] = k[1] /\ j[Len(j)] = v[q]
    BY <1>3, <1>4, <2>1
  <2> QED
    BY <1>4, <2>1, <2>2 DEF LegalKey, LegalValue
<1>7. x \in Text /\ Trim(x) = j
  BY <1>1, <1>3, <1>6, BlankBefore
<1>8. Blanks(j) # {} /\ After(j) = v
  BY <1>1, <1>2, SplitOnce
<1>9. r = <<"VALUE">> \o x
  <2>1. PICK A : A = Symbols \cup {"VALUE"}
    OBVIOUS
  <2>2. /\ k \in Seq(A) /\ v \in Seq(A) /\ <<BL>> \in Seq(A) /\ <<"VALUE">> \in Seq(A)
        /\ <<"VALUE", BL>> = <<"VALUE">> \o <<BL>>
    BY <1>2, <2>1, SymbolsAssumption DEF Text
  <2>3. r = <<"VALUE", BL>> \o k \o <<BL>> \o v
    BY <1>1 DEF ValueReply
  <2> QED
    BY <1>1, <2>2, <2>3
<1>10. Head(r) = "VALUE" /\ Tail(r) = x
  <2>1. PICK A, V : A = Symbols \cup {"VALUE"} /\ V = <<"VALUE">>
    OBVIOUS
  <2>2. x \in Seq(A) /\ V \in Seq(A) /\ Len(V) = 1 /\ V[1] = "VALUE"
    BY <1>7, <2>1 DEF Text
  <2>3. r \in Seq(A) /\ Len(r) = 1 + Len(x) /\ r[1] = "VALUE" /\ r # <<>>
        /\ \A i \in 1 .. Len(x) : r[i + 1] = x[i]
    BY <1>9, <2>1, <2>2
  <2>4. Head(r) = r[1]
    BY <2>3
  <2>5. PICK t : t = Tail(r)
    OBVIOUS
  <2>6. t \in Seq(A) /\ Len(t) = Len(x) /\ \A i \in 1 .. Len(x) : t[i] = r[i + 1]
    BY <2>2, <2>3, <2>5
  <2>7. t = x
    BY <2>2, <2>3, <2>6, SeqEqual
  <2> QED
    BY <2>3, <2>4, <2>5, <2>7
<1> QED
  BY <1>1, <1>7, <1>8, <1>10 DEF RowValue

(* A key that is asked for is the key that parse_command reads. *)
LEMMA GetReads ==
  ASSUME NEW k, LegalKey(k), Len(k) + 2 <= MaxLen
  PROVE  Parse(<<"GET", BL>> \o k) = [op |-> "get", key |-> k]
<1>1. PICK g, x, n : g = <<"GET", BL>> \o k /\ x = <<BL>> \o k /\ n = Len(k)
  OBVIOUS
<1>2. k \in Text /\ k # <<>> /\ n \in Nat /\ n # 0 /\ \A i \in 1 .. n : k[i] \notin White
  BY <1>1, EmptySeq DEF LegalKey, Text
<1>3. 1 \in 1 .. n /\ n \in 1 .. n
  BY <1>2
<1>4. k[1] \notin White /\ k[Len(k)] \notin White
  BY <1>1, <1>2, <1>3
<1>5. /\ x \in Text /\ Len(x) = n + 1
      /\ \A i \in 1 .. n : x[i + 1] = k[i]
      /\ SubSeq(x, 2, n + 1) = k
  BY <1>1, <1>2, <1>4, BlankBefore
<1>6. x[1] = BL
  <2>1. <<BL>> \in Seq(Symbols) /\ k \in Seq(Symbols)
    BY <1>2, SymbolsAssumption DEF Text
  <2> QED
    BY <1>1, <2>1
<1>7. g = <<"GET">> \o x
  <2>1. /\ <<"GET">> \in Seq(Symbols) /\ <<BL>> \in Seq(Symbols) /\ k \in Seq(Symbols)
        /\ <<"GET", BL>> = <<"GET">> \o <<BL>>
    BY <1>2, SymbolsAssumption, ParserAssumption DEF Text, CommandWords
  <2> QED
    BY <1>1, <2>1
<1>8. PICK l : l = n + 2
  OBVIOUS
<1>9. /\ g \in Text /\ Len(g) = l /\ g[1] = "GET"
      /\ \A i \in 1 .. n + 1 : g[i + 1] = x[i]
  <2>1. PICK G : G = <<"GET">>
    OBVIOUS
  <2>2. G \in Seq(Symbols) /\ Len(G) = 1 /\ G[1] = "GET"
    BY <2>1, ParserAssumption DEF CommandWords
  <2>3. x \in Seq(Symbols)
    BY <1>5 DEF Text
  <2>4. /\ g \in Seq(Symbols) /\ Len(g) = 1 + (n + 1) /\ g[1] = "GET"
        /\ \A i \in 1 .. n + 1 : g[i + 1] = x[i]
    BY <1>2, <1>5, <1>7, <2>1, <2>2, <2>3
  <2> QED
    BY <1>2, <1>8, <2>4 DEF Text
<1>10. PICK a, b, c : a = 1 /\ b = 2 /\ c = 3
  OBVIOUS
<1>11. /\ g[a] \notin White /\ g[b] \in White
       /\ \A i \in c .. l : g[i] \notin White
  <2>1. a = 1 /\ b = 1 + 1 /\ 1 \in 1 .. n + 1
    BY <1>2, <1>10
  <2>2. g[a] = "GET" /\ g[b] = BL
    BY <1>6, <1>9, <2>1
  <2>3. ASSUME NEW i \in c .. l PROVE g[i] \notin White
    <3>1. PICK j : j = i - 2
      OBVIOUS
    <3>2. j \in 1 .. n /\ j + 1 \in 1 .. n + 1 /\ j + 1 + 1 = i
      BY <1>2, <1>8, <1>10, <2>3, <3>1
    <3>3. g[i] = k[j]
      BY <1>5, <1>9, <3>2
    <3> QED
      BY <1>2, <3>2, <3>3
  <2> QED
    BY <2>2, <2>3 DEF White, BL, TAB, NL
<1>12. /\ a \in 1 .. Len(g) + 1 /\ l \in a - 1 .. Len(g) /\ l \in Nat
       /\ a \in a .. l /\ l \in a .. l /\ a - 1 = 0 /\ a .. a - 1 = {} /\ l + 1 .. l = {}
       /\ a .. a = {a} /\ a + 1 = b /\ a < l /\ c = b + 1 /\ l \in c .. l
       /\ b \in 1 .. Len(g) + 1 /\ l \in b - 1 .. Len(g) /\ c \in b .. l /\ b .. c - 1 = {b}
       /\ c - 1 = b /\ l - c + 1 = n
       /\ c \in 1 .. Len(g) + 1 /\ l \in c - 1 .. Len(g)
  BY <1>2, <1>8, <1>9, <1>10
<1>13. SubSeq(g, a, l) = g
  BY <1>9, <1>10 DEF Text
<1>14. SubSeq(g, a, a) = <<"GET">>
  <2>1. PICK u, d : u = SubSeq(g, a, d) /\ d = a
    OBVIOUS
  <2>2. g \in Text /\ a \in 1 .. Len(g) + 1 /\ d \in a - 1 .. Len(g)
    <3>1. 1 \in 1 .. n + 2 + 1 /\ 1 \in 1 - 1 .. n + 2
      BY <1>2
    <3>2. Len(g) = n + 2 /\ a = 1 /\ d = 1 /\ g \in Text
      BY <1>8, <1>9, <1>10, <2>1
    <3> QED
      BY <3>1, <3>2
  <2>3. u \in Text /\ Len(u) = d - a + 1 /\ \A i \in 1 .. d - a + 1 : u[i] = g[a + i - 1]
    BY <2>1, <2>2, PartOf
  <2>4. d - a + 1 = 1 /\ 1 \in 1 .. d - a + 1 /\ a + 1 - 1 = 1
    BY <1>10, <2>1
  <2>5. u \in Seq(Symbols) /\ Len(u) = 1 /\ u[1] = "GET"
    <3>1. u[1] = g[1]
      BY <1>10, <2>3, <2>4
    <3> QED
      BY <1>9, <2>3, <2>4, <3>1 DEF Text
  <2>6. u = <<"GET">>
    BY <2>5
  <2> QED
    BY <2>1, <2>6
<1>15. SubSeq(g, c, l) = k
  <2>1. PICK u : u = SubSeq(g, c, l)
    OBVIOUS
  <2>2. u \in Text /\ Len(u) = l - c + 1 /\ \A i \in 1 .. l - c + 1 : u[i] = g[c + i - 1]
    <3>1. g \in Text /\ c \in 1 .. Len(g) + 1 /\ l \in c - 1 .. Len(g)
      BY <1>9, <1>12
    <3> QED
      BY <2>1, <3>1, PartOf
  <2>3. ASSUME NEW i \in 1 .. n PROVE u[i] = k[i]
    <3>1. i + 1 \in 1 .. n + 1 /\ c + i - 1 = i + 1 + 1 /\ i \in 1 .. l - c + 1
      BY <1>2, <1>10, <1>12
    <3>2. u[i] = g[i + 1 + 1] /\ g[i + 1 + 1] = x[i + 1] /\ x[i + 1] = k[i]
      BY <1>5, <1>9, <2>2, <3>1
    <3> QED
      BY <3>2
  <2>4. u = k
    BY <1>1, <1>2, <1>12, <2>2, <2>3, SeqEqual DEF Text
  <2> QED
    BY <2>1, <2>4
<1>16. Trim(g) = g
  <2>1. /\ g \in Text /\ a \in 1 .. Len(g) + 1 /\ l \in a - 1 .. Len(g)
        /\ a \in a .. l /\ g[a] \notin White /\ \A i \in a .. a - 1 : g[i] \in White
        /\ l \in a .. l /\ g[l] \notin White /\ \A i \in l + 1 .. l : g[i] \in White
    BY <1>9, <1>11, <1>12
  <2>2. Trim(SubSeq(g, a, l)) = SubSeq(g, a, l)
    BY <2>1, PartTrim
  <2> QED
    BY <1>13, <2>2
<1>17. TakeWord(g).word = <<"GET">> /\ TakeWord(g).rest = SubSeq(g, b, l)
  <2>1. /\ g \in Text /\ a \in 1 .. Len(g) + 1 /\ l \in a - 1 .. Len(g)
        /\ a \in a .. l /\ \A i \in a .. a - 1 : g[i] \in White
        /\ \A i \in a .. a : g[i] \notin White
        /\ a < l => g[a + 1] \in White
    BY <1>9, <1>11, <1>12
  <2>2. /\ TakeWord(SubSeq(g, a, l)).word = SubSeq(g, a, a)
        /\ TakeWord(SubSeq(g, a, l)).rest = SubSeq(g, a + 1, l)
    BY <2>1, PartTakeWord
  <2> QED
    BY <1>12, <1>13, <1>14, <2>2
<1>18. PICK r : r = SubSeq(g, b, l)
  OBVIOUS
<1>19. TakeWord(r).word = k /\ TakeWord(r).rest = SubSeq(g, l + 1, l)
  <2>1. /\ g \in Text /\ b \in 1 .. Len(g) + 1 /\ l \in b - 1 .. Len(g)
        /\ c \in b .. l /\ \A i \in b .. c - 1 : g[i] \in White
        /\ l \in c .. l /\ \A i \in c .. l : g[i] \notin White
        /\ l < l => g[l + 1] \in White
    BY <1>9, <1>11, <1>12
  <2>2. /\ TakeWord(SubSeq(g, b, l)).word = SubSeq(g, c, l)
        /\ TakeWord(SubSeq(g, b, l)).rest = SubSeq(g, l + 1, l)
    BY <2>1, PartTakeWord
  <2> QED
    BY <1>15, <1>18, <2>2
<1>20. Trim(SubSeq(g, l + 1, l)) = <<>>
  <2>1. l \in 1 .. Len(g)
    BY <1>9, <1>12, <1>10
  <2> QED
    BY <1>9, <2>1, NoWordLeft
<1>21. ParseOneKey("get", r) = [op |-> "get", key |-> k]
  <2>1. PICK w : w = TakeWord(r)
    OBVIOUS
  <2>2. w.word = k /\ w.word # <<>> /\ Trim(w.rest) = <<>>
    BY <1>2, <1>19, <1>20, <2>1
  <2>3. ParseOneKey("get", r) = [op |-> "get", key |-> w.word]
    BY <2>1, <2>2 DEF ParseOneKey
  <2> QED
    BY <2>2, <2>3
<1>22. ~(Len(g) > MaxLen)
  BY <1>1, <1>2, <1>8, <1>9, ParserAssumption
<1>23. PICK w : w = TakeWord(Trim(g))
  OBVIOUS
<1>24. w.word = <<"GET">> /\ w.rest = r /\ <<"GET">> # <<"SET">>
  <2>1. <<"GET">> # <<"SET">>
    <3>1. PICK u, v : u = <<"GET">> /\ v = <<"SET">>
      OBVIOUS
    <3>2. u[1] = "GET" /\ v[1] = "SET"
      BY <3>1
    <3> QED
      BY <3>1, <3>2
  <2> QED
    BY <1>16, <1>17, <1>18, <1>23, <2>1
<1>25. Parse(g) = ParseOneKey("get", r)
  BY <1>22, <1>23, <1>24 DEF Parse
<1> QED
  BY <1>1, <1>21, <1>25

-----------------------------------------------------------------------------
(* The part of f from p + 1 to q is a blank and the key k.                 *)
KeyPart(f, p, q, k) ==
  q = p + 1 + Len(k) /\ f[p + 1] = BL /\ \A j \in 1 .. Len(k) : f[p + 1 + j] = k[j]

(* f is the keys ks, a blank before each; before key i there are g[i]      *)
(* symbols.                                                                *)
KeysLine(f, ks, n, g) ==
  /\ g[1] = 0 /\ g[n + 1] = Len(f)
  /\ \A k \in 1 .. n : KeyPart(f, g[k], g[k + 1], ks[k])
  /\ \A i \in 1 .. Len(f) : \E k \in 1 .. n : i \in g[k] + 1 .. g[k + 1]

LEMMA KeysInReply ==
  ASSUME NEW ks, NEW n \in Nat, ks \in Seq(Text), Len(ks) = n
  PROVE  \E f \in Text, g \in [1 .. n + 1 -> Nat] :
           KeysLine(f, ks, n, g) /\ Tail(KeysReply(ks)) = f
<1>1. PICK ss : ss = [i \in DOMAIN ks |-> <<BL>> \o ks[i]]
  OBVIOUS
<1>2. DOMAIN ks = 1 .. n /\ \A k \in 1 .. n : ks[k] \in Text /\ Len(ks[k]) \in Nat
  <2>1. \A k \in 1 .. n : ks[k] \in Text
    BY ElementOfSeq
  <2> QED
    BY <2>1, TextIsSeq
<1>3. ASSUME NEW t \in Text
      PROVE  /\ <<BL>> \o t \in Seq(Symbols) /\ Len(<<BL>> \o t) = 1 + Len(t)
             /\ (<<BL>> \o t)[1] = BL
             /\ \A j \in 1 .. Len(t) : (<<BL>> \o t)[1 + j] = t[j]
  <2>1. PICK B : B = <<BL>>
    OBVIOUS
  <2>2. B \in Seq(Symbols) /\ Len(B) = 1 /\ B[1] = BL /\ t \in Seq(Symbols)
    BY <2>1, SymbolsAssumption DEF Text
  <2> QED
    BY <2>1, <2>2
<1>4. /\ ss \in Seq(Seq(Symbols)) /\ Len(ss) = n
      /\ \A k \in 1 .. n : ss[k] = <<BL>> \o ks[k]
  <2>1. ss = [k \in 1 .. n |-> <<BL>> \o ks[k]]
    BY <1>1, <1>2
  <2>2. \A k \in 1 .. n : <<BL>> \o ks[k] \in Seq(Symbols)
    BY <1>2, <1>3
  <2>3. ss = [k \in 1 .. n |-> ss[k]] /\ \A k \in 1 .. n : ss[k] = <<BL>> \o ks[k]
    BY <2>1
  <2>4. \A k \in 1 .. n : ss[k] \in Seq(Symbols)
    BY <2>2, <2>3
  <2>5. ss \in Seq(Seq(Symbols)) /\ Len(ss) = n
    BY <2>3, <2>4, IsSeq
  <2> QED
    BY <2>3, <2>5
<1>5. PICK f : f = FlattenSeq(ss)
  OBVIOUS
<1>6. f \in Seq(Symbols) /\ \E o \in [0 .. n -> Nat] : o[0] = 0 /\ EndToEnd(f, ss, n, o)
  BY <1>4, <1>5, FlattenCuts
<1>7. PICK o \in [0 .. n -> Nat] : o[0] = 0 /\ EndToEnd(f, ss, n, o)
  BY <1>6
<1>8. PICK g : g = [k \in 1 .. n + 1 |-> o[k - 1]]
  OBVIOUS
<1>9. /\ g \in [1 .. n + 1 -> Nat] /\ g[1] = 0 /\ g[n + 1] = o[n]
      /\ \A k \in 1 .. n : g[k] = o[k - 1] /\ g[k + 1] = o[k]
  BY <1>7, <1>8
<1>10. Len(f) = g[n + 1]
  BY <1>7, <1>9 DEF EndToEnd
<1>11. ASSUME NEW k \in 1 .. n PROVE KeyPart(f, g[k], g[k + 1], ks[k])
  <2>1. PICK p, q, t, u : p = g[k] /\ q = g[k + 1] /\ t = ks[k] /\ u = ss[k]
    OBVIOUS
  <2>2. q = p + Len(u) /\ \A j \in 1 .. Len(u) : f[p + j] = u[j]
    <3>1. /\ o[k] = o[k - 1] + Len(ss[k])
          /\ \A j \in 1 .. Len(ss[k]) : f[o[k - 1] + j] = ss[k][j]
      BY <1>7 DEF EndToEnd
    <3> QED
      BY <1>9, <2>1, <3>1
  <2>3. t \in Text /\ Len(t) \in Nat /\ u = <<BL>> \o t /\ p \in Nat
    <3>1. t \in Text /\ Len(t) \in Nat
      BY <1>2, <2>1
    <3>2. u = <<BL>> \o t
      BY <1>4, <2>1
    <3>3. k \in 1 .. n + 1
      OBVIOUS
    <3>4. p \in Nat
      BY <1>9, <2>1, <3>3
    <3> QED
      BY <3>1, <3>2, <3>4
  <2>4. /\ Len(u) = 1 + Len(t) /\ u[1] = BL
        /\ \A j \in 1 .. Len(t) : u[1 + j] = t[j]
    BY <1>3, <2>3, Zenon
  <2>5. q = p + 1 + Len(t) /\ 1 \in 1 .. Len(u)
        /\ \A j \in 1 .. Len(t) : 1 + j \in 1 .. Len(u) /\ p + 1 + j = p + (1 + j)
    <3>1. PICK a, b : a = Len(t) /\ b = Len(u)
      OBVIOUS
    <3>2. a \in Nat /\ p \in Nat /\ b = 1 + a /\ q = p + b
      BY <2>2, <2>3, <2>4, <3>1
    <3>3. q = p + 1 + a /\ 1 \in 1 .. b
          /\ \A j \in 1 .. a : 1 + j \in 1 .. b /\ p + 1 + j = p + (1 + j)
      BY <3>2
    <3> QED
      BY <3>1, <3>3
  <2>6. f[p + 1] = BL
    BY <2>2, <2>4, <2>5
  <2>7. \A j \in 1 .. Len(t) : f[p + 1 + j] = t[j]
    BY <2>2, <2>4, <2>5
  <2> QED
    BY <2>1, <2>5, <2>6, <2>7 DEF KeyPart
<1>12. ASSUME NEW i \in 1 .. Len(f) PROVE \E k \in 1 .. n : i \in g[k] + 1 .. g[k + 1]
  <2>1. PICK k \in 1 .. n : i \in o[k - 1] + 1 .. o[k]
    BY <1>7, <1>9, <1>10 DEF EndToEnd
  <2> QED
    BY <1>9, <2>1
<1>13. KeysLine(f, ks, n, g)
  BY <1>9, <1>10, <1>11, <1>12 DEF KeysLine
<1>14. Tail(KeysReply(ks)) = f
  <2>1. PICK A, K : A = Symbols \cup {"KEYS"} /\ K = <<"KEYS">>
    OBVIOUS
  <2>2. f \in Seq(A) /\ K \in Seq(A) /\ Len(K) = 1
    BY <1>6, <2>1
  <2>3. PICK r : r = K \o f
    OBVIOUS
  <2>4. r \in Seq(A) /\ Len(r) = 1 + Len(f) /\ r # <<>>
        /\ \A i \in 1 .. Len(f) : r[i + 1] = f[i]
    <3>1. r \in Seq(A) /\ Len(r) = 1 + Len(f)
      BY <2>1, <2>2, <2>3
    <3>2. \A i \in 1 .. Len(f) : r[i + 1] = f[i]
      BY <2>1, <2>2, <2>3
    <3>3. Len(f) \in Nat
      BY <2>2
    <3>4. Len(r) # 0
      BY <3>1, <3>3
    <3>5. r # <<>>
      BY <3>4
    <3> QED
      BY <3>1, <3>2, <3>5
  <2>5. PICK t : t = Tail(r)
    OBVIOUS
  <2>6. t \in Seq(A) /\ Len(t) = Len(f) /\ \A i \in 1 .. Len(f) : t[i] = r[i + 1]
    BY <2>4, <2>5
  <2>7. t = f
    BY <2>2, <2>4, <2>6, SeqEqual
  <2> QED
    BY <1>1, <1>5, <2>1, <2>3, <2>5, <2>7 DEF KeysReply
<1> QED
  BY <1>6, <1>9, <1>13, <1>14 DEF Text

(* A text without its first symbol, a blank. *)
LEMMA FirstDropped ==
  ASSUME NEW f \in Text, Len(f) >= 2, f[1] = BL, f[2] \notin White, f[Len(f)] \notin White
  PROVE  /\ Trim(f) \in Text /\ Len(Trim(f)) = Len(f) - 1
         /\ \A i \in 1 .. Len(f) - 1 : Trim(f)[i] = f[i + 1]
<1>1. PICK a, b, L : a = 1 /\ b = 2 /\ L = Len(f)
  OBVIOUS
<1>2. L \in Nat /\ L >= b /\ f[a] = BL /\ f[b] \notin White /\ f[L] \notin White
  BY <1>1, TextIsSeq
<1>3. Trim(SubSeq(f, a, L)) = SubSeq(f, b, L)
  <2>1. /\ a \in 1 .. Len(f) + 1 /\ L \in a - 1 .. Len(f) /\ b \in a .. L
        /\ L \in b .. L /\ L + 1 .. L = {} /\ a .. b - 1 = {a}
    BY <1>1, <1>2
  <2>2. /\ f \in Text /\ a \in 1 .. Len(f) + 1 /\ L \in a - 1 .. Len(f)
        /\ b \in a .. L /\ f[b] \notin White /\ \A i \in a .. b - 1 : f[i] \in White
        /\ L \in b .. L /\ f[L] \notin White /\ \A i \in L + 1 .. L : f[i] \in White
    BY <1>2, <2>1 DEF White
  <2> QED
    BY <2>2, PartTrim
<1>4. SubSeq(f, a, L) = f
  BY <1>1 DEF Text
<1>5. PICK t : t = SubSeq(f, b, L)
  OBVIOUS
<1>6. t \in Text /\ Len(t) = L - 1 /\ \A i \in 1 .. L - 1 : t[i] = f[i + 1]
  <2>1. b \in 1 .. Len(f) + 1 /\ L \in b - 1 .. Len(f)
    BY <1>1, <1>2
  <2>2. t \in Text /\ Len(t) = L - b + 1 /\ \A i \in 1 .. L - b + 1 : t[i] = f[b + i - 1]
    BY <1>5, <2>1, PartOf
  <2>3. L - b + 1 = L - 1 /\ \A i \in 1 .. L - 1 : b + i - 1 = i + 1
    BY <1>1, <1>2
  <2> QED
    BY <2>2, <2>3
<1> QED
  BY <1>1, <1>3, <1>4, <1>5, <1>6

(* A line of keys, trimmed, is without its first blank. *)
LEMMA KeysTrimmed ==
  ASSUME NEW n \in Nat, n # 0, NEW ks, NEW f \in Text, NEW g \in [1 .. n + 1 -> Nat],
         KeysLine(f, ks, n, g), \A k \in 1 .. n : LegalKey(ks[k])
  PROVE  /\ Trim(f) \in Text /\ Len(Trim(f)) = Len(f) - 1
         /\ \A i \in 1 .. Len(f) - 1 : Trim(f)[i] = f[i + 1]
<1>1. ASSUME NEW k \in 1 .. n
      PROVE  \E l \in Nat \ {0} :
               /\ g[k] \in Nat /\ g[k + 1] = g[k] + 1 + l
               /\ f[g[k] + 1] = BL
               /\ f[g[k] + 2] \notin White /\ f[g[k + 1]] \notin White
  <2>1. PICK p, q, t, l : p = g[k] /\ q = g[k + 1] /\ t = ks[k] /\ l = Len(t)
    OBVIOUS
  <2>2. q = p + 1 + l /\ f[p + 1] = BL /\ \A j \in 1 .. l : f[p + 1 + j] = t[j]
    BY <2>1 DEF KeysLine, KeyPart
  <2>3. LegalKey(t) /\ k \in 1 .. n + 1
    BY <2>1
  <2>4. l \in Nat /\ l # 0 /\ \A j \in 1 .. l : t[j] \notin White
    BY <2>1, <2>3, EmptySeq DEF LegalKey, Text
  <2>5. p \in Nat
    BY <2>1, <2>3
  <2>6. 1 \in 1 .. l /\ l \in 1 .. l /\ p + 1 + 1 = p + 2
    BY <2>4, <2>5
  <2>7. f[p + 2] \notin White /\ f[q] \notin White
    BY <2>2, <2>4, <2>6
  <2> QED
    BY <2>1, <2>2, <2>4, <2>5, <2>7
<1>2. PICK L : L = Len(f)
  OBVIOUS
<1>3. g[1] = 0 /\ g[n + 1] = L /\ L \in Nat /\ 1 \in 1 .. n /\ n \in 1 .. n
  BY <1>2, TextIsSeq DEF KeysLine
<1>4. PICK a, b : a = 1 /\ b = 2
  OBVIOUS
<1>5. f[a] = BL /\ f[b] \notin White
  <2>1. f[g[1] + 1] = BL /\ f[g[1] + 2] \notin White
    BY <1>1, <1>3
  <2>2. g[1] + 1 = a /\ g[1] + 2 = b
    BY <1>3, <1>4
  <2> QED
    BY <2>1, <2>2
<1>6. f[L] \notin White /\ L >= b
  <2>1. PICK l \in Nat \ {0} : g[n] \in Nat /\ g[n + 1] = g[n] + 1 + l /\ f[g[n + 1]] \notin White
    BY <1>1, <1>3
  <2> QED
    BY <1>3, <1>4, <2>1
<1>7. L >= 2 /\ f[1] = BL /\ f[2] \notin White
  BY <1>4, <1>5, <1>6
<1> QED
  BY <1>2, <1>6, <1>7, FirstDropped

(* The part of t after p that has the symbols of u. *)
LEMMA PartEquals ==
  ASSUME NEW t \in Text, NEW u \in Text, NEW p \in Nat, NEW l, l = Len(u), p + l <= Len(t),
         \A j \in 1 .. l : t[p + j] = u[j]
  PROVE  SubSeq(t, p + 1, p + l) = u
<1>1. PICK m, e, v : m = p + 1 /\ e = p + l /\ v = SubSeq(t, m, e)
  OBVIOUS
<1>2. l \in Nat /\ Len(t) \in Nat
  BY TextIsSeq
<1>3. /\ m \in 1 .. Len(t) + 1 /\ e \in m - 1 .. Len(t) /\ e - m + 1 = l
      /\ \A j \in 1 .. l : m + j - 1 = p + j
  BY <1>1, <1>2
<1>4. /\ v \in Text /\ Len(v) = e - m + 1
      /\ \A j \in 1 .. e - m + 1 : v[j] = t[m + j - 1]
  BY <1>1, <1>3, PartOf
<1>5. Len(v) = l /\ \A j \in 1 .. l : v[j] = u[j]
  BY <1>3, <1>4
<1>6. v = u
  BY <1>4, <1>5, SeqEqual DEF Text
<1> QED
  BY <1>1, <1>6

(* Cut at its blanks, it is the keys. *)
LEMMA KeysCut ==
  ASSUME NEW n \in Nat \ {0}, NEW ks \in Seq(Text), Len(ks) = n, NEW f \in Text,
         NEW g \in [1 .. n + 1 -> Nat],
         KeysLine(f, ks, n, g), \A k \in 1 .. n : LegalKey(ks[k])
  PROVE  Split(Trim(f), BL) = ks
<1>1. PICK t, L : t = Trim(f) /\ L = Len(f)
  OBVIOUS
<1>2. t \in Text /\ Len(t) = L - 1 /\ L \in Nat /\ \A i \in 1 .. L - 1 : t[i] = f[i + 1]
  BY <1>1, KeysTrimmed, TextIsSeq
<1>3. ASSUME NEW k \in 1 .. n
      PROVE  \E l \in Nat \ {0} :
               /\ l = Len(ks[k]) /\ g[k] \in Nat /\ g[k + 1] = g[k] + 1 + l
               /\ f[g[k] + 1] = BL
               /\ \A j \in 1 .. l : f[g[k] + 1 + j] = ks[k][j] /\ ks[k][j] # BL
  <2>1. PICK p, q, u, l : p = g[k] /\ q = g[k + 1] /\ u = ks[k] /\ l = Len(u)
    OBVIOUS
  <2>2. q = p + 1 + l /\ f[p + 1] = BL /\ \A j \in 1 .. l : f[p + 1 + j] = u[j]
    BY <2>1 DEF KeysLine, KeyPart
  <2>3. LegalKey(u) /\ k \in 1 .. n + 1
    BY <2>1
  <2>4. l \in Nat /\ l # 0 /\ \A j \in 1 .. l : u[j] # BL
    BY <2>1, <2>3, EmptySeq DEF LegalKey, Text, White
  <2>5. p \in Nat
    BY <2>1, <2>3
  <2> QED
    BY <2>1, <2>2, <2>4, <2>5
<1>4. /\ g[1] = 0 /\ g[n + 1] = L
      /\ \A i \in 1 .. L : \E k \in 1 .. n : i \in g[k] + 1 .. g[k + 1]
  BY <1>1 DEF KeysLine
<1>5. ASSUME NEW k \in 1 .. n PROVE g[k] < g[k + 1]
  <2>1. PICK l \in Nat \ {0} : g[k] \in Nat /\ g[k + 1] = g[k] + 1 + l
    BY <1>3
  <2> QED
    BY <2>1
<1>6. ASSUME NEW i \in 1 .. L - 1 PROVE t[i] = BL <=> \E k \in 2 .. n : g[k] = i
  <2>1. ASSUME NEW k \in 2 .. n, g[k] = i PROVE t[i] = BL
    <3>1. k \in 1 .. n
      OBVIOUS
    <3>2. f[i + 1] = BL
      BY <1>3, <2>1, <3>1
    <3> QED
      BY <1>2, <3>2
  <2>2. ASSUME t[i] = BL PROVE \E k \in 2 .. n : g[k] = i
    <3>1. i + 1 \in 1 .. L /\ i \in Nat /\ i # 0
      BY <1>2
    <3>2. PICK k \in 1 .. n : i + 1 \in g[k] + 1 .. g[k + 1]
      BY <1>4, <3>1
    <3>3. PICK l \in Nat \ {0} :
               /\ g[k] \in Nat /\ g[k + 1] = g[k] + 1 + l
               /\ \A j \in 1 .. l : f[g[k] + 1 + j] = ks[k][j] /\ ks[k][j] # BL
      BY <1>3
    <3>4. PICK j, p, q : j = i - p /\ p = g[k] /\ q = g[k + 1]
      OBVIOUS
    <3>5. p \in Nat /\ i \in Nat /\ j \in 0 .. l /\ p + 1 + j = i + 1
      <4>1. p \in Nat /\ q = p + 1 + l /\ i + 1 \in p + 1 .. q
        BY <3>2, <3>3, <3>4
      <4>2. i \in Nat /\ j = i - p
        BY <3>1, <3>4
      <4>3. j \in 0 .. l /\ p + 1 + j = i + 1
        BY <4>1, <4>2
      <4> QED
        BY <4>1, <4>2, <4>3
    <3>6. f[p + 1 + j] = BL
      <4>1. f[i + 1] = BL
        BY <1>2, <2>2
      <4> QED
        BY <3>5, <4>1
    <3>7. j = 0
      <4>1. ASSUME j # 0 PROVE FALSE
        <5>1. j \in 1 .. l
          BY <3>3, <3>5, <4>1
        <5>2. f[p + 1 + j] = ks[k][j] /\ ks[k][j] # BL
          BY <3>3, <3>4, <5>1
        <5> QED
          BY <3>6, <5>2
      <4> QED
        BY <4>1
    <3>8. g[k] = i
      <4>1. p = i
        BY <3>5, <3>7
      <4> QED
        BY <3>4, <4>1
    <3>9. k # 1
      BY <1>4, <3>1, <3>8
    <3> QED
      BY <3>8, <3>9
  <2> QED
    BY <2>1, <2>2
<1>7. CutsAt(t, BL, n, g)
  <2>1. g[1] = 0 /\ g[n + 1] = Len(t) + 1
    BY <1>2, <1>4
  <2>2. \A i \in 1 .. Len(t) : t[i] = BL <=> \E k \in 2 .. n : g[k] = i
    BY <1>2, <1>6
  <2> QED
    BY <1>5, <2>1, <2>2 DEF CutsAt
<1>8. t \in Seq(Symbols)
  BY <1>2 DEF Text
<1>9. Split(t, BL) = Pieces(t, n, g)
  BY <1>7, <1>8, SplitIs
<1>10. ASSUME NEW k \in 1 .. n PROVE SubSeq(t, g[k] + 1, g[k + 1] - 1) = ks[k]
  <2>1. PICK l \in Nat \ {0} :
               /\ l = Len(ks[k]) /\ g[k] \in Nat /\ g[k + 1] = g[k] + 1 + l
               /\ \A j \in 1 .. l : f[g[k] + 1 + j] = ks[k][j]
    BY <1>3
  <2>2. g[k + 1] <= L
    <3>1. k + 1 \in 1 .. n + 1 /\ n + 1 \in 1 .. n + 1 /\ (k # n => k + 1 < n + 1)
      OBVIOUS
    <3>2. k # n => g[k + 1] < g[n + 1]
      BY <1>5, <3>1, RisingCuts
    <3>3. g[n + 1] = L /\ g[k + 1] \in Nat
      BY <1>4, <3>1
    <3>4. k = n => g[k + 1] = L
      BY <3>3
    <3> QED
      BY <1>2, <3>2, <3>3, <3>4
  <2>3. PICK p, u : p = g[k] /\ u = ks[k]
    OBVIOUS
  <2>4. u \in Text /\ l = Len(u) /\ p \in Nat /\ g[k + 1] = p + 1 + l /\ p + 1 + l <= L
    BY <2>1, <2>2, <2>3, ElementOfSeq
  <2>5. p + l <= Len(t) /\ (p + 1 + l) - 1 = p + l
    BY <1>2, <2>1, <2>4
  <2>6. ASSUME NEW j \in 1 .. l PROVE t[p + j] = u[j]
    <3>1. p + j \in 1 .. L - 1 /\ p + j + 1 = p + 1 + j
      BY <1>2, <2>1, <2>4
    <3>2. t[p + j] = f[p + 1 + j]
      BY <1>2, <3>1
    <3> QED
      BY <2>1, <2>3, <3>2
  <2>7. SubSeq(t, p + 1, p + l) = u
    <3>1. /\ t \in Text /\ u \in Text /\ p \in Nat /\ l = Len(u) /\ p + l <= Len(t)
          /\ \A j \in 1 .. l : t[p + j] = u[j]
      BY <1>2, <2>4, <2>5, <2>6
    <3> QED
      BY <3>1, PartEquals
  <2> QED
    BY <2>3, <2>4, <2>5, <2>7
<1>11. Pieces(t, n, g) = ks
  <2>1. Pieces(t, n, g) = [k \in 1 .. n |-> ks[k]]
    BY <1>10 DEF Pieces
  <2>2. ks = [k \in 1 .. n |-> ks[k]]
    OBVIOUS
  <2> QED
    BY <2>1, <2>2
<1> QED
  BY <1>1, <1>9, <1>11

LEMMA NoKeysRead ==
  ASSUME NEW ks \in Seq(Text), Len(ks) = 0
  PROVE  ListedKeys(KeysReply(ks)) = ks
<1>1. PICK n : n = 0
  OBVIOUS
<1>2. PICK f \in Text, g \in [1 .. n + 1 -> Nat] :
        KeysLine(f, ks, n, g) /\ Tail(KeysReply(ks)) = f
  <2>1. n \in Nat /\ Len(ks) = n
    BY <1>1
  <2> QED
    BY <2>1, KeysInReply
<1>3. Len(f) = 0
  BY <1>1, <1>2 DEF KeysLine
<1>4. f = <<>> /\ ks = <<>>
  BY <1>3, EmptySeq DEF Text
<1>5. Trim(f) = f
  BY <1>4 DEF Trim, TrimEnd, TrimStart, Blacks
<1>6. PICK w, h : w = 1 /\ h = [k \in 1 .. w + 1 |-> k - 1]
  OBVIOUS
<1>7. w \in Nat \ {0} /\ h \in [1 .. w + 1 -> Nat] /\ h[1] = 0 /\ h[2] = 1 /\ w + 1 = 2
  BY <1>6
<1>8. CutsAt(f, BL, w, h)
  <2>1. h[1] = 0 /\ h[w + 1] = Len(f) + 1
    BY <1>3, <1>7
  <2>2. \A k \in 1 .. w : h[k] < h[k + 1]
    BY <1>6, <1>7
  <2>3. \A i \in 1 .. Len(f) : f[i] = BL <=> \E k \in 2 .. w : h[k] = i
    BY <1>3
  <2> QED
    BY <2>1, <2>2, <2>3 DEF CutsAt
<1>9. PICK p : p = Split(f, BL)
  OBVIOUS
<1>10. p = Pieces(f, w, h)
  <2>1. f \in Seq(Symbols)
    BY DEF Text
  <2> QED
    BY <1>7, <1>8, <1>9, <2>1, SplitIs
<1>11. p[1] = <<>> /\ DOMAIN p = {1}
  <2>1. DOMAIN p = 1 .. w /\ p[1] = SubSeq(f, h[1] + 1, h[1 + 1] - 1)
    BY <1>6, <1>10 DEF Pieces
  <2>2. h[1] + 1 = 1 /\ h[1 + 1] - 1 = 0
    BY <1>7
  <2>3. SubSeq(f, 1, 0) = <<>>
    BY <1>4
  <2> QED
    BY <1>6, <2>1, <2>2, <2>3
<1>12. {i \in DOMAIN p : p[i] # <<>>} = {}
  BY <1>11
<1>13. InOrder({}) = <<>>
  <2>1. PICK m, e, S : m = 0 /\ e = [k \in 1 .. m |-> k] /\ S = {e[k] : k \in 1 .. m}
    OBVIOUS
  <2>2. /\ m \in Nat /\ e \in [1 .. m -> Nat] /\ S = {e[k] : k \in 1 .. m}
        /\ \A i, j \in 1 .. m : i < j => e[i] < e[j]
    BY <2>1
  <2>3. InOrder(S) = e
    BY <2>2, InOrderIs
  <2>4. S = {} /\ e = <<>>
    BY <2>1
  <2> QED
    BY <2>3, <2>4
<1>14. NonEmpty(p) = <<>>
  <2>1. PICK S : S = {i \in DOMAIN p : p[i] # <<>>}
    OBVIOUS
  <2>2. InOrder(S) = <<>>
    BY <1>12, <1>13, <2>1
  <2>3. NonEmpty(p) = [i \in DOMAIN InOrder(S) |-> p[InOrder(S)[i]]]
    BY <2>1 DEF NonEmpty
  <2> QED
    BY <2>2, <2>3
<1> QED
  BY <1>2, <1>4, <1>5, <1>9, <1>14 DEF ListedKeys

(* However many keys the store lists, the page finds them all.             *)
THEOREM EveryKeyListed ==
  ASSUME NEW ks \in Seq(Text), \A k \in 1 .. Len(ks) : LegalKey(ks[k])
  PROVE  ListedKeys(KeysReply(ks)) = ks
<1>1. PICK n : n = Len(ks)
  OBVIOUS
<1>2. CASE n = 0
  BY <1>1, <1>2, NoKeysRead
<1>3. CASE n # 0
  <2>1. n \in Nat \ {0}
    BY <1>1, <1>3
  <2>2. PICK f \in Text, g \in [1 .. n + 1 -> Nat] :
          KeysLine(f, ks, n, g) /\ Tail(KeysReply(ks)) = f
    BY <1>1, <2>1, KeysInReply
  <2>3. Split(Trim(f), BL) = ks
    BY <1>1, <2>1, <2>2, KeysCut
  <2>4. ks = [k \in 1 .. n |-> ks[k]]
    BY <1>1
  <2>5. \A k \in 1 .. n : ks[k] # <<>>
    BY <1>1 DEF LegalKey
  <2>6. NonEmpty(ks) = ks
    BY <2>1, <2>4, <2>5, AllNonEmpty
  <2> QED
    BY <2>2, <2>3, <2>6 DEF ListedKeys
<1> QED
  BY <1>2, <1>3

-----------------------------------------------------------------------------
LEMMA FormIsText == TextSpec => []Typed
<1>1. Init => Typed
  BY DEF Init, Text, Typed
<1>2. ASSUME Typed, TextNext PROVE Typed'
  <2>1. ASSUME NEW c \in Symbols, Type(c) PROVE Typed'
    <3>1. line' = Append(line, c) /\ line \in Seq(Symbols)
      BY <1>2, <2>1 DEF Type, Typed, Text
    <3>2. Append(line, c) \in Seq(Symbols)
      BY <3>1, AppendProperties
    <3> QED
      BY <3>1, <3>2 DEF Typed, Text
  <2>2. CASE Next
    BY <2>1, <2>2, ParserAssumption DEF Next
  <2>3. CASE \E c \in FormChars : TypeText(c)
    BY <2>1, <2>3, WebTextAssumption DEF TypeText
  <2> QED
    BY <1>2, <2>2, <2>3 DEF TextNext
<1>3. Typed /\ UNCHANGED line => Typed'
  BY DEF Typed
<1> QED
  BY <1>1, <1>2, <1>3, PTL DEF TextSpec

(* What is typed into a form arrives, for a text of any length. *)
THEOREM FormAlwaysDelivers == TextSpec => []FormDelivers
<1>1. Typed => FormDelivers
  <2> SUFFICES ASSUME line \in Seq(Symbols) PROVE FormDelivers
    BY DEF Typed, Text
  <2>1. Symbols \cap {Lead, Trail} = {}
    BY WebTextAssumption
  <2>2. PICK e, E : e = Encode(line) /\ E = SentBytes(Symbols)
    OBVIOUS
  <2>3. e \in Seq(E) /\ UrlDecode(e) = line /\ ~Cuts(e)
    BY <2>1, <2>2, EncodeDecode
  <2>4. "&" \notin E
    BY <2>2 DEF SentBytes
  <2>5. PICK body : body = <<"key", "=">> \o e \o <<"&", "command", "=">> \o e
    OBVIOUS
  <2>6. FieldIn(body, "key") = line /\ FieldIn(body, "command") = line
    BY <2>3, <2>4, <2>5, FormReaches
  <2>7. CommandLine(body) = Trim(line)
    BY <2>6 DEF CommandLine
  <2> QED
    BY <2>2, <2>3, <2>5, <2>6, <2>7 DEF FormDelivers
<1> QED
  BY <1>1, FormIsText, PTL

(* The reader sees the text, for a text of any length. *)
THEOREM PageAlwaysShowsText == TextSpec => []PageShowsText
<1>1. Typed => PageShowsText
  <2> SUFFICES ASSUME line \in Seq(Symbols) PROVE PageShowsText
    BY DEF Typed, Text
  <2>1. /\ Unescape(HtmlEscape(line)) = line
        /\ \A i \in DOMAIN HtmlEscape(line) : HtmlEscape(line)[i] \notin Markup
    BY ShownReadsBack
  <2> QED
    BY <2>1 DEF PageShowsText, Markup
<1> QED
  BY <1>1, FormIsText, PTL

(* The page reads the replies, whatever SET was accepted. *)
THEOREM PageAlwaysReadsReplies == TextSpec => []PageReadsReplies
<1>1. Typed => PageReadsReplies
  <2> SUFFICES ASSUME line \in Text, Parse(line).op = "set" PROVE PageReadsReplies
    BY DEF Typed, PageReadsReplies
  <2>1. PICK k, v : k = Parse(line).key /\ v = Parse(line).value
    OBVIOUS
  <2>2. LegalKey(k) /\ LegalValue(v) /\ Len(k) + 2 <= MaxLen
    BY <2>1, SetAccepts
  <2>3. k \in Text /\ k \in Seq(Symbols)
    BY <2>2 DEF LegalKey, Text
  <2>4. ListedKeys(KeysReply(<<k, k>>)) = <<k, k>>
    <3>1. PICK ks : ks = <<k, k>>
      OBVIOUS
    <3>2. ks \in Seq(Text) /\ \A i \in 1 .. Len(ks) : ks[i] = k
      BY <2>3, <3>1
    <3>3. \A i \in 1 .. Len(ks) : LegalKey(ks[i])
      BY <2>2, <3>2
    <3> QED
      BY <3>1, <3>2, <3>3, EveryKeyListed
  <2>5. Parse(KeyLine(<<"key", "=">> \o Encode(k))) = [op |-> "get", key |-> k]
    <3>1. PICK e, E : e = Encode(k) /\ E = SentBytes(Symbols)
      OBVIOUS
    <3>2. e \in Seq(E) /\ UrlDecode(e) = k
      BY <2>3, <3>1, WebTextAssumption, EncodeDecode
    <3>3. "&" \notin E
      BY <3>1 DEF SentBytes
    <3>4. FieldIn(<<"key", "=">> \o e, "key") = k
      BY <3>2, <3>3, QueryDelivers
    <3>5. KeyLine(<<"key", "=">> \o e) = <<"GET", BL>> \o k
      BY <3>4 DEF KeyLine
    <3>6. Parse(<<"GET", BL>> \o k) = [op |-> "get", key |-> k]
      BY <2>2, GetReads
    <3> QED
      BY <3>1, <3>5, <3>6
  <2>6. RowValue(ValueReply(k, v)) = v
    BY <2>2, RowShows
  <2> QED
    BY <2>1, <2>4, <2>5, <2>6 DEF PageReadsReplies
<1> QED
  BY <1>1, FormIsText, PTL
=============================================================================
