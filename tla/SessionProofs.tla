--------------------------- MODULE SessionProofs ----------------------------
(***************************************************************************)
(* What Session.tla promises, for any number of requests and every mix of  *)
(* failures, as long as a reply is one line.  It does not hold without     *)
(* that: see FormRecordsReplay in WebText.tla for values of two lines.     *)
(***************************************************************************)
EXTENDS Session, TLAPS

Counts ==
  /\ Len(done) <= Len(asked) /\ Len(asked) <= Len(done) + 1
  /\ Len(heard) <= Len(done) /\ Len(asked) <= Len(heard) + 1

ClientPlace ==
  /\ cl = "prompt" => Len(heard) = Len(asked)
  /\ cl \in {"typed", "texted", "waiting"} => Len(heard) + 1 = Len(asked)
  /\ cl \in {"typed", "texted"} => Len(done) + 1 = Len(asked)
  /\ cl \in {"prompt", "typed"} => Len(up) < 1
  /\ cl = "texted" => 0 < Len(up) /\ Len(up) < 2

ThreadPlace ==
  /\ sv \in {"running", "replying", "texted", "leaving"} =>
       cl \in {"waiting", "done"}
  /\ sv \in {"running", "replying", "texted"} =>
       /\ job = Len(asked) /\ Len(up) = 0
       /\ Len(heard) + 1 = Len(asked)
  /\ sv = "running" => Len(done) + 1 = Len(asked)
  /\ sv \in {"running", "replying"} => Len(down) < 1
  /\ sv \in {"replying", "texted"} =>
       Len(done) = Len(asked) /\ asked[Len(asked)] # "exit"
  /\ sv = "texted" => 0 < Len(down) /\ Len(down) < 2
  /\ sv = "leaving" => cl = "done" \/ Len(down) < 1

(* A request on its way is the last one asked, and is not executed yet. *)
Upstream ==
  Len(up) > 0 =>
    /\ Len(up) <= 2 /\ up[1] = Len(asked) /\ Len(asked) > 0
    /\ sv \in {"reading", "closed"}
    /\ Len(done) + 1 = Len(asked) /\ Len(down) = 0

(* A reply on its way belongs to the last request, and is awaited. *)
Downstream ==
  Len(down) > 0 =>
    /\ Len(down) <= 2 /\ down[1] = Len(asked)
    /\ Len(done) = Len(asked) /\ Len(heard) + 1 = Len(asked)
    /\ cl \in {"waiting", "done"} /\ asked[Len(asked)] # "exit"

InOrder == \A i \in 1 .. Len(done) : done[i] = i

SessionInv ==
  /\ SessionTypeOK /\ Counts /\ ClientPlace /\ ThreadPlace
  /\ Upstream /\ Downstream /\ InOrder

-----------------------------------------------------------------------------
(* The text of a reply of one line is one text, of the request's number. *)
LEMMA OneLine ==
  ASSUME NEW r \in Nat
  PROVE  /\ ReplyText(r, 1) \in Seq(Nat)
         /\ Len(ReplyText(r, 1)) = 1
         /\ ReplyText(r, 1)[1] = r
<1> DEFINE f == ReplyText(r, 1)
<1>1. f = [i \in 1 .. 1 |-> r]
  BY DEF ReplyText, End
<1>2. f = <<r>>
  BY <1>1
<1> QED  BY <1>2

(* What append and cut do to the places of a sequence. *)
LEMMA AppendFacts ==
  ASSUME NEW S, NEW s \in Seq(S), NEW e \in S
  PROVE  /\ Append(s, e) \in Seq(S)
         /\ Len(Append(s, e)) = Len(s) + 1
         /\ Append(s, e)[Len(s) + 1] = e
         /\ \A i \in 1 .. Len(s) : Append(s, e)[i] = s[i]
         /\ Len(s) > 0 => Append(s, e)[1] = s[1]
  OBVIOUS

LEMMA CutFacts ==
  ASSUME NEW S, NEW s \in Seq(S), NEW n \in 0 .. Len(s)
  PROVE  /\ SubSeq(s, 1, n) \in Seq(S)
         /\ Len(SubSeq(s, 1, n)) = n
         /\ n > 0 => SubSeq(s, 1, n)[1] = s[1]
  OBVIOUS

LEMMA RestFacts ==
  ASSUME NEW S, NEW s \in Seq(S), Len(s) <= 2
  PROVE  SubSeq(s, 3, Len(s)) \in Seq(S) /\ Len(SubSeq(s, 3, Len(s))) = 0
  OBVIOUS

-----------------------------------------------------------------------------
LEMMA SessionInvInit == Init => SessionInv
  BY DEF Init, SessionInv, SessionTypeOK, Counts, ClientPlace, ThreadPlace,
         Upstream, Downstream, InOrder

(* Every step of either side keeps the invariant. *)
LEMMA SessionInvNext ==
  ASSUME ReplyLines \subseteq {1}, SessionInv, [Next]_vars
  PROVE  SessionInv'
<1> USE DEF SessionInv, SessionTypeOK, Counts, ClientPlace, ThreadPlace,
            Upstream, Downstream, InOrder, clientVars, threadVars, End
<1>1. ASSUME NEW a \in Asks, Type(a) PROVE SessionInv'
  <2>1. /\ asked' \in Seq(Asks) /\ Len(asked') = Len(asked) + 1
        /\ \A i \in 1 .. Len(asked) : asked'[i] = asked[i]
    BY <1>1, AppendFacts DEF Type
  <2>2. /\ cl = "prompt" /\ cl' = "typed"
        /\ UNCHANGED <<threadVars, up, down, heard>>
    BY <1>1 DEF Type
  <2>3. SessionTypeOK' /\ Counts'
    BY <2>1, <2>2
  <2>4. ClientPlace' /\ InOrder'
    BY <2>1, <2>2
  <2>5. ThreadPlace'
    BY <2>1, <2>2
  <2>6. Upstream' /\ Downstream'
    BY <2>1, <2>2
  <2> QED  BY <2>3, <2>4, <2>5, <2>6
<1>2. ASSUME Quit \/ TimesOut \/ KillClient \/ HearEof \/ WriteFails
      PROVE  SessionInv'
  <2>10. SessionTypeOK'
    BY <1>2 DEF Quit, TimesOut, KillClient, HearEof, WriteFails
  <2>11. Counts' /\ ClientPlace' /\ InOrder'
    BY <1>2 DEF Quit, TimesOut, KillClient, HearEof, WriteFails
  <2>12. ThreadPlace'
    BY <1>2 DEF Quit, TimesOut, KillClient, HearEof, WriteFails
  <2>13. Upstream'
    BY <1>2 DEF Quit, TimesOut, KillClient, HearEof, WriteFails
  <2>14. Downstream'
    BY <1>2 DEF Quit, TimesOut, KillClient, HearEof, WriteFails
  <2> QED  BY <2>10, <2>11, <2>12, <2>13, <2>14
<1>3. CASE WriteText
  <2>1. up' = Append(up, Len(asked)) /\ up \in Seq(Nat) /\ Len(up) = 0
    BY <1>3 DEF WriteText
  <2>2. up' \in Seq(Nat) /\ Len(up') = 1 /\ up'[1] = Len(asked)
    BY <2>1, AppendFacts
  <2>3. /\ cl = "typed" /\ cl' = "texted"
        /\ UNCHANGED <<threadVars, down, asked, heard>>
    BY <1>3 DEF WriteText
  <2>10. SessionTypeOK'
    BY <2>2, <2>3
  <2>11. Counts' /\ ClientPlace' /\ InOrder'
    BY <2>2, <2>3
  <2>12. ThreadPlace'
    BY <2>2, <2>3
  <2>13. Upstream'
    BY <2>2, <2>3
  <2>14. Downstream'
    BY <2>2, <2>3
  <2> QED  BY <2>10, <2>11, <2>12, <2>13, <2>14
<1>4. CASE WriteEnd
  <2>1. up' = Append(up, End) /\ up \in Seq(Nat) /\ Len(up) < 2
    BY <1>4 DEF WriteEnd
  <2>2. /\ up' \in Seq(Nat) /\ Len(up') = Len(up) + 1
        /\ Len(up) > 0 => up'[1] = up[1]
    <3> HIDE DEF SessionInv
    <3> QED  BY <2>1, AppendFacts
  <2>3. /\ cl = "texted" /\ cl' = "waiting"
        /\ UNCHANGED <<threadVars, down, asked, heard>>
    BY <1>4 DEF WriteEnd
  <2>10. SessionTypeOK'
    BY <2>1, <2>2, <2>3
  <2>11. Counts' /\ ClientPlace' /\ InOrder'
    BY <2>1, <2>2, <2>3
  <2>12. ThreadPlace'
    BY <2>1, <2>2, <2>3
  <2>13. Upstream'
    BY <2>1, <2>2, <2>3
  <2>14. Downstream'
    BY <2>1, <2>2, <2>3
  <2> QED  BY <2>10, <2>11, <2>12, <2>13, <2>14
<1>5. CASE Hear
  <2>1. /\ Len(down) > 0 /\ Len(down) <= 2 /\ down \in Seq(Nat)
        /\ Head(down) = Len(asked)
    BY <1>5 DEF Hear
  <2>2. down' \in Seq(Nat) /\ Len(down') = 0
    <3>1. down' = SubSeq(down, 3, Len(down))
      BY <1>5 DEF Hear
    <3> QED  BY <2>1, <3>1, RestFacts
  <2>3. heard' \in Seq(Nat) /\ Len(heard') = Len(heard) + 1
    BY <1>5, <2>1, AppendFacts DEF Hear
  <2>4. /\ cl = "waiting" /\ cl' \in {"done", "prompt"}
        /\ UNCHANGED <<threadVars, up, asked>>
    BY <1>5 DEF Hear
  <2>5. sv = "closed" \/ Len(down) >= 2
    BY <1>5 DEF Hear
  <2>6. sv \in {"reading", "closed"}
    <3>1. /\ sv \in {"reading", "running", "replying", "texted", "leaving", "closed"}
          /\ sv \in {"running", "replying"} => Len(down) < 1
          /\ sv = "texted" => Len(down) < 2
          /\ sv = "leaving" => cl = "done" \/ Len(down) < 1
      OBVIOUS
    <3> HIDE DEF SessionInv
    <3> QED  BY <2>1, <2>4, <2>5, <3>1
  <2>7. /\ Len(heard) + 1 = Len(asked) /\ Len(done) = Len(asked)
        /\ Len(up) = 0
    BY <2>1
  <2>10. SessionTypeOK'
    BY <2>2, <2>3, <2>4, <2>6, <2>7
  <2>11. Counts' /\ ClientPlace' /\ InOrder'
    BY <2>2, <2>3, <2>4, <2>6, <2>7
  <2>12. ThreadPlace'
    BY <2>2, <2>3, <2>4, <2>6, <2>7
  <2>13. Upstream'
    BY <2>2, <2>3, <2>4, <2>6, <2>7
  <2>14. Downstream'
    BY <2>2, <2>3, <2>4, <2>6, <2>7
  <2> QED  BY <2>10, <2>11, <2>12, <2>13, <2>14
<1>6. CASE Take
  <2>1. /\ Len(up) > 0 /\ Len(up) <= 2 /\ up \in Seq(Nat)
        /\ Head(up) = Len(asked)
    BY <1>6 DEF Take
  <2>2. up' \in Seq(Nat) /\ Len(up') = 0
    <3>1. up' = SubSeq(up, 3, Len(up))
      BY <1>6 DEF Take
    <3> QED  BY <2>1, <3>1, RestFacts
  <2>3. /\ sv = "reading" /\ sv' = "running" /\ job' = Len(asked)
        /\ UNCHANGED <<clientVars, down, done>>
    BY <1>6, <2>1 DEF Take
  <2>4. cl = "done" \/ Len(up) >= 2
    BY <1>6 DEF Take
  <2>5. cl \in {"waiting", "done"}
    <3>1. /\ cl \in {"prompt", "typed", "texted", "waiting", "done"}
          /\ cl \in {"prompt", "typed"} => Len(up) < 1
          /\ cl = "texted" => Len(up) < 2
      OBVIOUS
    <3> HIDE DEF SessionInv
    <3> QED  BY <2>1, <2>4, <3>1
  <2> QED  BY <2>1, <2>2, <2>3, <2>5
<1>7. CASE TakeEof \/ TakeFails \/ Leave \/ SendFails
  <2>10. SessionTypeOK'
    BY <1>7 DEF TakeEof, TakeFails, Leave, SendFails
  <2>11. Counts' /\ ClientPlace' /\ InOrder'
    BY <1>7 DEF TakeEof, TakeFails, Leave, SendFails
  <2>12. ThreadPlace'
    BY <1>7 DEF TakeEof, TakeFails, Leave, SendFails
  <2>13. Upstream'
    BY <1>7 DEF TakeEof, TakeFails, Leave, SendFails
  <2>14. Downstream'
    BY <1>7 DEF TakeEof, TakeFails, Leave, SendFails
  <2> QED  BY <2>10, <2>11, <2>12, <2>13, <2>14
<1>8. CASE Execute
  <2>1. /\ done' \in Seq(Nat) /\ Len(done') = Len(done) + 1
        /\ done'[Len(done) + 1] = job
        /\ \A i \in 1 .. Len(done) : done'[i] = done[i]
    BY <1>8, AppendFacts DEF Execute
  <2>2. /\ sv = "running"
        /\ sv' = IF asked[job] = "exit" THEN "leaving" ELSE "replying"
        /\ UNCHANGED <<clientVars, up, down, job>>
    BY <1>8 DEF Execute
  <2>3. InOrder'
    <3>1. job = Len(done) + 1
      BY <2>2
    <3>2. \A i \in 1 .. Len(done) + 1 : done'[i] = i
      <4>1. Len(done) \in Nat /\ \A i \in 1 .. Len(done) : done[i] = i
        OBVIOUS
      <4> HIDE DEF SessionInv
      <4> QED  BY <2>1, <3>1, <4>1
    <3> QED  BY <2>1, <3>2
  <2>4. SessionTypeOK' /\ Counts' /\ ClientPlace' /\ Upstream' /\ Downstream'
    BY <2>1, <2>2
  <2>5. ThreadPlace'
    BY <2>1, <2>2
  <2> QED  BY <2>3, <2>4, <2>5
<1>9. CASE SendText
  <2>1. down' = down \o ReplyText(job, 1)
    BY <1>9 DEF SendText
  <2>2. down' \in Seq(Nat) /\ Len(down') = 1 /\ down'[1] = job
    <3>1. down = <<>> /\ job \in Nat
      BY <1>9 DEF SendText
    <3> QED  BY <2>1, <3>1, OneLine
  <2>3. /\ sv = "replying" /\ sv' = "texted"
        /\ UNCHANGED <<clientVars, up, job, done>>
    BY <1>9 DEF SendText
  <2>10. SessionTypeOK'
    BY <2>2, <2>3
  <2>11. Counts' /\ ClientPlace' /\ InOrder'
    BY <2>2, <2>3
  <2>12. ThreadPlace'
    BY <2>2, <2>3
  <2>13. Upstream'
    BY <2>2, <2>3
  <2>14. Downstream'
    BY <2>2, <2>3
  <2> QED  BY <2>10, <2>11, <2>12, <2>13, <2>14
<1>10. CASE SendEnd
  <2>1. down' = Append(down, End) /\ down \in Seq(Nat) /\ Len(down) < 2
    BY <1>10 DEF SendEnd
  <2>2. /\ down' \in Seq(Nat) /\ Len(down') = Len(down) + 1
        /\ Len(down) > 0 => down'[1] = down[1]
    <3> HIDE DEF SessionInv
    <3> QED  BY <2>1, AppendFacts
  <2>3. /\ sv = "texted" /\ sv' = "reading"
        /\ UNCHANGED <<clientVars, up, job, done>>
    BY <1>10 DEF SendEnd
  <2>10. SessionTypeOK'
    BY <2>1, <2>2, <2>3
  <2>11. Counts' /\ ClientPlace' /\ InOrder'
    BY <2>1, <2>2, <2>3
  <2>12. ThreadPlace'
    BY <2>1, <2>2, <2>3
  <2>13. Upstream'
    BY <2>1, <2>2, <2>3
  <2>14. Downstream'
    BY <2>1, <2>2, <2>3
  <2> QED  BY <2>10, <2>11, <2>12, <2>13, <2>14
<1>11. CASE Crash
  <2>1. PICK n \in 0 .. Len(down) : down' = SubSeq(down, 1, n)
    BY <1>11 DEF Crash
  <2>2. down \in Seq(Nat) /\ Len(down) \in Nat
    OBVIOUS
  <2>3. /\ down' \in Seq(Nat) /\ Len(down') = n
        /\ n > 0 => down'[1] = down[1]
    <3> HIDE DEF SessionInv
    <3> QED  BY <2>1, <2>2, CutFacts
  <2>4. sv' = "closed" /\ UNCHANGED <<clientVars, up, job, done>>
    BY <1>11 DEF Crash
  <2> QED  BY <2>1, <2>2, <2>3, <2>4
<1>12. CASE Over \/ UNCHANGED vars
  BY <1>12 DEF Over, vars
<1> QED
  BY <1>1, <1>2, <1>3, <1>4, <1>5, <1>6, <1>7, <1>8, <1>9, <1>10, <1>11, <1>12
  DEF Next, Client, Thread

LEMMA SessionInvHolds ==
  ASSUME ReplyLines \subseteq {1}
  PROVE  Spec => []SessionInv
  BY SessionInvInit, SessionInvNext, PTL DEF Spec

(* What is heard is the reply to the request just asked and carried out. *)
LEMMA HearFacts ==
  ASSUME SessionInv, Hear
  PROVE  /\ Len(done) = Len(asked) /\ Len(heard) + 1 = Len(asked)
         /\ asked[Len(asked)] # "exit"
         /\ heard' = Append(heard, Len(asked))
<1>1. down \in Seq(Nat) /\ Len(down) > 0
  BY DEF Hear, SessionInv, SessionTypeOK
<1>2. Head(down) = down[1]
  BY <1>1
<1>3. /\ down[1] = Len(asked)
      /\ Len(done) = Len(asked) /\ Len(heard) + 1 = Len(asked)
      /\ asked[Len(asked)] # "exit"
  BY <1>1 DEF SessionInv, Downstream
<1> QED  BY <1>2, <1>3 DEF Hear

(* The thread works only on a request that was asked. *)
THEOREM SessionTypeCorrect ==
  ASSUME ReplyLines \subseteq {1}
  PROVE  Spec => []SessionTypeOK
<1>1. SessionInv => SessionTypeOK
  BY DEF SessionInv
<1> QED  BY <1>1, SessionInvHolds, PTL

(* Whatever fails, no reply is ever printed for another request than its  *)
(* own, in a session of any length.                                        *)
THEOREM RepliesAlwaysMatch ==
  ASSUME ReplyLines \subseteq {1}
  PROVE  Spec => RepliesMatch
<1>1. ASSUME SessionInv, [Next]_vars
      PROVE  [heard' # heard => heard'[Len(heard')] = Len(asked)]_vars
  <2>1. CASE Hear
    <3>1. heard' = Append(heard, Len(asked))
      BY <1>1, <2>1, HearFacts
    <3>2. heard \in Seq(Nat) /\ Len(asked) \in Nat
      BY <1>1 DEF SessionInv, SessionTypeOK
    <3> QED  BY <3>1, <3>2
  <2>2. CASE heard' = heard
    BY <2>2
  <2> QED
    BY <1>1, <2>1, <2>2
    DEF Next, Client, Thread, Over, vars, clientVars, threadVars, Type, Quit,
        WriteText, WriteEnd, WriteFails, HearEof, TimesOut, KillClient, Take,
        TakeEof, TakeFails, Execute, SendText, SendEnd, SendFails, Leave, Crash
<1> QED  BY <1>1, SessionInvHolds, PTL DEF Spec, RepliesMatch

-----------------------------------------------------------------------------
LEMMA CallInit == Init => Call!Init
  BY DEF Init, Call!Init

(* Each step of the session is a step of the promise, or none at all. *)
LEMMA CallNext ==
  ASSUME ReplyLines \subseteq {1}, SessionInv, [Next]_vars
  PROVE  [Call!Next]_(Call!vars)
<1> USE DEF Call!Next, Call!vars, clientVars, threadVars
<1>1. ASSUME NEW a \in Asks, Type(a) PROVE Call!Ask
  <2>1. cl = "prompt" /\ cl' = "typed" /\ UNCHANGED <<done, heard>>
    BY <1>1 DEF Type
  <2>2. Len(asked') = Len(asked) + 1
    BY <1>1 DEF Type, SessionInv, SessionTypeOK
  <2>3. Len(asked) = Len(heard)
    BY <2>1 DEF SessionInv, ClientPlace
  <2> QED  BY <2>1, <2>2, <2>3 DEF Call!Ask
<1>2. ASSUME Quit \/ TimesOut \/ KillClient \/ HearEof \/ WriteFails
      PROVE  Call!GiveUp
  BY <1>2 DEF Quit, TimesOut, KillClient, HearEof, WriteFails, Call!GiveUp
<1>3. ASSUME WriteText \/ WriteEnd
      PROVE  UNCHANGED Call!vars
  BY <1>3 DEF WriteText, WriteEnd
<1>4. CASE Hear
  <2>1. /\ Len(done) = Len(asked) /\ Len(heard) + 1 = Len(asked)
        /\ asked[Len(asked)] # "exit"
        /\ heard' = Append(heard, Len(asked))
    BY <1>4, HearFacts
  <2>2. cl = "waiting" /\ cl' = "prompt" /\ UNCHANGED <<asked, done>>
    BY <1>4, <2>1 DEF Hear
  <2>3. /\ Len(asked) \in Nat /\ Len(done) \in Nat /\ Len(heard) \in Nat
        /\ \A i \in 1 .. Len(done) : done[i] = i
    BY DEF SessionInv, SessionTypeOK, InOrder
  <2>4. Len(heard) < Len(done) /\ done[Len(heard) + 1] = Len(asked)
    BY <2>1, <2>3
  <2> QED  BY <2>1, <2>2, <2>4 DEF Call!Hear
<1>5. CASE Execute
  <2>1. Len(done) < Len(asked) /\ job = Len(done) + 1
    BY <1>5 DEF Execute, SessionInv, SessionTypeOK, ThreadPlace
  <2>2. done' = Append(done, job) /\ UNCHANGED <<asked, heard, cl>>
    BY <1>5 DEF Execute
  <2>3. Call!Do
    BY <2>1, <2>2 DEF Call!Do
  <2> QED  BY <2>3
<1>6. ASSUME Take \/ TakeEof \/ TakeFails \/ SendText \/ SendEnd
             \/ SendFails \/ Leave \/ Crash \/ Over \/ UNCHANGED vars
      PROVE  UNCHANGED <<asked, done, heard, cl>>
  BY <1>6 DEF Take, TakeEof, TakeFails, SendText, SendEnd, SendFails, Leave,
              Crash, Over, vars
<1>7. UNCHANGED <<asked, done, heard, cl>> => UNCHANGED Call!vars
  OBVIOUS
<1> QED
  BY <1>1, <1>2, <1>3, <1>4, <1>5, <1>6, <1>7 DEF Next, Client, Thread

(* A session of one-line replies carries every request out at most once,  *)
(* in order, and leaves at most the last one in doubt.                     *)
THEOREM SessionIsAtMostOnce ==
  ASSUME ReplyLines \subseteq {1}
  PROVE  Spec => ImplementsAtMostOnce
  BY CallInit, CallNext, SessionInvHolds, PTL
  DEF Spec, ImplementsAtMostOnce, Call!Spec
=============================================================================
