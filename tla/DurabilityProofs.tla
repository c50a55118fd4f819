-------------------------- MODULE DurabilityProofs --------------------------
(***************************************************************************)
(* What the log keeps.  First the file on its own, as LogLife.tla has it,  *)
(* for all failures and a file of any length.  Then the server of          *)
(* Server.tla: as long as no append is cut in two and the power stays on,  *)
(* an acknowledged write survives every later restart, memory never shows  *)
(* what the log does not have, and the clients see the one durable map of  *)
(* DurableKV.  The process may be killed anywhere else, and files may fail *)
(* to open or to be read.                                                  *)
(***************************************************************************)
EXTENDS ServerProofs, LogLife

-----------------------------------------------------------------------------
(* The file on its own.                                                    *)
LEMMA LogInitTyped == LogInit => LogTypeOK
  BY DEF LogInit, LogTypeOK, Text

LEMMA LogStepTyped == LogTypeOK /\ [LifeNext]_logVars => LogTypeOK'
<1> SUFFICES ASSUME LogTypeOK, [LifeNext]_logVars PROVE LogTypeOK'
  OBVIOUS
<1>1. CASE Appending
  <2>1. ASSUME NEW r \in Records, AppendBody(r) \/ TornBody(r)
        PROVE  LogTypeOK'
    BY <1>1, <2>1, AppendTyped DEF Appending
  <2>2. CASE NewlineFails
    BY <2>2, <1>1 DEF NewlineFails, fileVars, Appending, LogTypeOK
  <2> QED
    BY <1>1, <2>1, <2>2 DEF Appending
<1>2. CASE Ending
  <2>1. writing \in Records
    BY <1>2 DEF Ending, AppendNewline, LogTypeOK
  <2> QED
    BY <1>2, <2>1, AppendTyped DEF Ending
<1>3. CASE Kill \/ PowerLoss \/ Restart \/ Recovering
  BY <1>3, LifeTyped
<1>4. CASE UNCHANGED logVars
  BY <1>4 DEF logVars, LogTypeOK
<1> QED
  BY <1>1, <1>2, <1>3, <1>4 DEF LifeNext

(* Whatever is appended, torn, cut and replayed, the file stays a sequence *)
(* of texts, and an append is under way only in a running process.         *)
THEOREM LogTyped == LifeSpec => []LogTypeOK
<1> QED
  BY LogInitTyped, LogStepTyped, PTL DEF LifeSpec

(* A record whose line is completed on a clean end of the file reads back  *)
(* as that record (append, and recover's from_line).                       *)
THEOREM AppendsReadBack == LifeSpec => AppendReadsBack
<1> DEFINE ReadsBack == Len(lines') > Len(lines) /\ tail = ToLine(writing)
                          => FromLine[lines'[Len(lines')]] = writing
<1>1. LogTypeOK /\ [LifeNext]_logVars => [ReadsBack]_logVars
  <2> SUFFICES ASSUME LogTypeOK, [LifeNext]_logVars PROVE [ReadsBack]_logVars
    OBVIOUS
  <2>1. CASE Ending
    <3>1. writing \in Records /\ lines' = Append(lines, tail)
      BY <2>1 DEF Ending, AppendNewline, LogTypeOK
    <3>2. lines'[Len(lines')] = tail
      BY <3>1 DEF LogTypeOK
    <3> QED
      BY <3>1, <3>2, RecordReadsBack
  <2>2. CASE PowerLoss
    <3>1. Len(lines) \in Nat
      BY DEF LogTypeOK
    <3>2. \A n \in 0 .. Len(lines) : Len(SubSeq(lines, 1, n)) <= Len(lines)
      <4>1. \A n \in 0 .. Len(lines) : \A i \in 1 .. n : lines[i] \in Text
        BY ElementOfSeq DEF LogTypeOK
      <4> QED
        BY <3>1, <4>1, SubSeqProperties
    <3>3. ~ (Len(lines') > Len(lines))
      BY <2>2, <3>1, <3>2 DEF PowerLoss
    <3> QED
      BY <3>3
  <2>3. CASE Appending \/ Kill \/ Restart \/ Recovering \/ UNCHANGED logVars
    <3>1. lines' = lines
      BY <2>3 DEF Appending, AppendBody, TornBody, NewlineFails, fileVars, Kill, Restart,
                  Recovering, RecoverLine, RecoverFails, ReadFails, RecoverDone, logVars
    <3> QED
      BY <3>1 DEF LogTypeOK
  <2> QED
    BY <2>1, <2>2, <2>3 DEF LifeNext
<1> QED
  BY <1>1, LogTyped, PTL DEF LifeSpec, AppendReadsBack

-----------------------------------------------------------------------------
LEMMA RecoverInvStep == RecoverInv /\ [LifeNext]_logVars => RecoverInv'
<1> SUFFICES ASSUME RecoverInv, [LifeNext]_logVars PROVE RecoverInv'
  OBVIOUS
<1>1. LogTypeOK /\ LogTypeOK'
  BY LogStepTyped DEF RecoverInv
<1>2. CASE Appending \/ Ending \/ Kill \/ PowerLoss
  <2>1. phase' # "recovering"
    BY <1>1, <1>2 DEF Appending, Ending, AppendBody, TornBody, NewlineFails, AppendNewline,
                      Kill, PowerLoss, LoseMemory, LogTypeOK
  <2> QED
    BY <1>1, <2>1 DEF RecoverInv
<1>3. CASE Restart \/ Recovering
  BY <1>1, <1>3, RecoveryStep
<1>4. CASE UNCHANGED logVars
  BY <1>1, <1>4 DEF logVars, RecoverInv, File
<1> QED
  BY <1>2, <1>3, <1>4 DEF LifeNext

LEMMA RecoverInvAlways == LifeSpec => []RecoverInv
<1>1. LogInit => RecoverInv
  BY LogInitTyped DEF LogInit, RecoverInv
<1> QED
  BY <1>1, RecoverInvStep, PTL DEF LifeSpec

(* Line by line, recover's store is what the last record of each key says, *)
(* for a file of any length and whatever was torn or cut before.           *)
THEOREM ReplayFollows == LifeSpec => []ReplayFollowsLog
<1>1. RecoverInv => ReplayFollowsLog
  BY DEF RecoverInv, ReplayFollowsLog
<1> QED
  BY <1>1, RecoverInvAlways, PTL

(* A start that succeeds has replayed every line of the file; one that     *)
(* could not read a line has failed.                                       *)
THEOREM RecoveryComplete == LifeSpec => RecoversAllOrNothing
<1> DEFINE Complete == phase = "recovering" /\ phase' = "up" =>
             Readable(File) /\ data' = Lasting(Left[ReadBack(File, Len(File))])
<1>1. RecoverInv /\ [LifeNext]_logVars => [Complete]_logVars
  <2> SUFFICES ASSUME RecoverInv, LifeNext, phase = "recovering", phase' = "up"
               PROVE  Readable(File) /\ data' = Lasting(Left[ReadBack(File, Len(File))])
    BY DEF logVars
  <2>1. RecoverDone
    BY DEF RecoverInv, LogTypeOK, LifeNext, Appending, Ending, AppendBody, TornBody,
           NewlineFails, AppendNewline, Kill, PowerLoss, LoseMemory, Restart,
           Recovering, RecoverLine, RecoverFails, ReadFails
  <2>2. pos = Len(File) /\ data' = data
    BY <2>1 DEF RecoverDone
  <2>3. File \in Seq(Text)
    BY FileIsText DEF RecoverInv
  <2>4. DOMAIN File = 1 .. Len(File)
    BY <2>3
  <2> QED
    BY <2>2, <2>4 DEF RecoverInv, Readable
<1> QED
  BY <1>1, RecoverInvAlways, PTL DEF LifeSpec, RecoversAllOrNothing

-----------------------------------------------------------------------------
(* The server.                                                             *)
IntactAppends == Faults \subseteq {"kill", "open_error", "read_error"}

(* What the lines f say. *)
Says(f) == Left[ReadBack(f, Len(f))]

LEMMA LeftAppended ==
  ASSUME NEW rs \in Seq(AnyRecord), NEW r \in AnyRecord \ {Unreadable}
  PROVE  LET all == Append(rs, r)
         IN  /\ r.op = "set" => /\ DOMAIN Left[all] = DOMAIN Left[rs] \cup {r.key}
                                /\ Left[all][r.key] = r.value
             /\ r.op = "del" => DOMAIN Left[all] = DOMAIN Left[rs] \ {r.key}
             /\ \A k \in DOMAIN Left[all] \ {r.key} : Left[all][k] = Left[rs][k]
<1> DEFINE all == Append(rs, r)
<1>1. all \in Seq(AnyRecord)
  OBVIOUS
<1>2. /\ Left[rs] = [k \in KeysLeft(rs) |-> rs[LastNaming(rs, k)].value]
      /\ Left[all] = [k \in KeysLeft(all) |-> all[LastNaming(all, k)].value]
  BY <1>1 DEF Left
<1>3. /\ KeysIn(all) = KeysIn(rs) \cup {r.key}
      /\ all[LastNaming(all, r.key)] = r
      /\ \A k \in KeysIn(rs) \ {r.key} :
           all[LastNaming(all, k)] = rs[LastNaming(rs, k)]
  BY NamingAppended
<1> HIDE DEF all
<1>4. r.op = "set" => KeysLeft(all) = KeysLeft(rs) \cup {r.key}
  BY <1>3 DEF KeysLeft
<1>5. r.op = "del" => KeysLeft(all) = KeysLeft(rs) \ {r.key}
  BY <1>3 DEF KeysLeft
<1>7. \A k \in KeysLeft(all) \ {r.key} : k \in KeysIn(rs) \ {r.key} /\ k \in KeysLeft(rs)
  BY <1>3 DEF KeysLeft
<1>8. DOMAIN Left[all] = KeysLeft(all) /\ DOMAIN Left[rs] = KeysLeft(rs)
  BY <1>2
<1>9. r.op = "set" => Left[all][r.key] = r.value
  BY <1>2, <1>3, <1>4
<1>10. \A k \in DOMAIN Left[all] \ {r.key} : Left[all][k] = Left[rs][k]
  BY <1>2, <1>3, <1>7, <1>8
<1> QED
  BY <1>4, <1>5, <1>8, <1>9, <1>10 DEF all

(* What a file says after one more record has been appended to it. *)
LEMMA SaysAppended ==
  ASSUME NEW f \in Seq(Text), NEW r \in Records
  PROVE  LET g == Append(f, ToLine(r))
         IN  /\ r.op = "set" => /\ DOMAIN Says(g) = DOMAIN Says(f) \cup {r.key}
                                /\ Says(g)[r.key] = r.value
             /\ r.op = "del" => DOMAIN Says(g) = DOMAIN Says(f) \ {r.key}
             /\ \A k \in DOMAIN Says(g) \ {r.key} : Says(g)[k] = Says(f)[k]
<1> DEFINE g == Append(f, ToLine(r))
<1>1. ToLine(r) \in Text /\ FromLine[ToLine(r)] = r /\ r \in AnyRecord \ {Unreadable}
  <2>1. ToLine(r) \in Text /\ FromLine[ToLine(r)] = r
    BY RecordsHaveText, RecordReadsBack
  <2>2. r.op \in {"set", "del"}
    BY RecordsHaveText DEF SetRecord, DelRecord
  <2> QED
    BY <2>1, <2>2, FromLineTyped DEF Unreadable
<1>2. /\ g \in Seq(Text) /\ Len(g) = Len(f) + 1 /\ Len(f) \in 0 .. Len(g) - 1
      /\ g[Len(f) + 1] = ToLine(r) /\ \A i \in 1 .. Len(f) : g[i] = f[i]
  BY <1>1
<1> HIDE DEF g
<1>3. ReadBack(g, Len(f)) = ReadBack(f, Len(f))
  BY <1>2 DEF ReadBack
<1>4. /\ ReadBack(f, Len(f)) \in Seq(AnyRecord)
      /\ ReadBack(g, Len(g)) = Append(ReadBack(f, Len(f)), r)
  BY <1>1, <1>2, <1>3, ReadBackGrows
<1> QED
  BY <1>1, <1>4, LeftAppended DEF Says, g

-----------------------------------------------------------------------------
(* The file holds whole, readable records, the last of which may still     *)
(* want its line end; and that one is the writing thread's.                *)
WholeInv ==
  /\ \A i \in DOMAIN lines : FromLine[lines[i]] # Unreadable
  /\ tail = IF writing = NoRecord THEN <<>> ELSE ToLine(writing)
  /\ \A c \in Conns : pc[c] = "newline" => writing = RecordOf(msg[c])

(* The log says what r wanted. *)
InLog(r) ==
  IF r.op = "set" THEN r.key \in DOMAIN OnFile /\ OnFile[r.key] = r.value
                  ELSE r.key \notin DOMAIN OnFile

WrittenInv == \A c \in Conns : pc[c] \in {"newline", "apply"} => InLog(msg[c])

KeptValue(k) == IF k \in DOMAIN OnFile THEN OnFile[k] ELSE Missing

PromisedInv ==
  /\ DOMAIN promised = Keys
  /\ \A k \in Keys : KeptValue(k) \in promised[k]

(* Threads live in a running process only. *)
AliveInv == phase # "up" => \A c \in Conns : pc[c] = "closed"

MemoryInv ==
  phase = "up" =>
    \A k \in DOMAIN data \ BeingWritten : k \in DOMAIN OnFile /\ OnFile[k] = data[k].value

DurableInv ==
  ServerInv /\ RecoverInv /\ WholeInv /\ WrittenInv /\ PromisedInv /\ AliveInv /\ MemoryInv

LEMMA OnFileSays == OnFile = Says(File)
  BY DEF OnFile, Says

(* The first write of append puts its record at the end of what the file   *)
(* says, the second changes nothing in it.                                 *)
LEMMA BodyIsAppended ==
  ASSUME DurableInv, NEW c \in Conns, WriteBody(c)
  PROVE  /\ InLog(msg[c])'
         /\ \A k : k # msg[c].key =>
              /\ k \in DOMAIN OnFile' <=> k \in DOMAIN OnFile
              /\ k \in DOMAIN OnFile' => OnFile'[k] = OnFile[k]
<1> DEFINE r == RecordOf(msg[c])
<1>1. /\ r \in Records /\ r.key = msg[c].key /\ r.op = msg[c].op
      /\ r.op \in {"set", "del"} /\ (r.op = "set" => r.value = msg[c].value)
  BY WriterHasRecord DEF WriteBody, DurableInv, ServerInv, RecordOf, SetRecord, DelRecord
<1>2. /\ writing = NoRecord /\ tail = <<>> /\ lines' = lines
      /\ tail' = tail \o ToLine(r)
  BY DEF WriteBody, AppendBody, DurableInv, WholeInv
<1>3. ToLine(r) \in Text /\ ToLine(r) # <<>>
  <2>1. ToLine(r) \in Text
    BY <1>1, RecordsHaveText
  <2>2. FromLine[ToLine(r)] = r /\ FromLine[<<>>] = Unreadable
    <3>1. <<>> \in Text /\ Blanks(<<>>) = {}
      BY DEF Text, Blanks
    <3> QED
      BY <1>1, <3>1, RecordReadsBack DEF FromLine
  <2> QED
    BY <1>1, <2>1, <2>2 DEF Unreadable
<1>4. tail' = ToLine(r)
  BY <1>2, <1>3, ConcatEmptySeq DEF Text
<1>5. File = lines /\ File' = Append(lines, ToLine(r)) /\ lines \in Seq(Text)
  BY <1>2, <1>3, <1>4 DEF File, LinesOf, DurableInv, ServerInv, LogTypeOK
<1>6. msg'[c] = msg[c]
  BY DEF WriteBody, Goes, DurableInv, ServerInv, WriteInv
<1>7. OnFile = Says(lines) /\ OnFile' = Says(Append(lines, ToLine(r)))
  BY <1>5, OnFileSays DEF OnFile, Says
<1> HIDE DEF r
<1>8. /\ r.op = "set" => /\ DOMAIN OnFile' = DOMAIN OnFile \cup {r.key}
                         /\ OnFile'[r.key] = r.value
      /\ r.op = "del" => DOMAIN OnFile' = DOMAIN OnFile \ {r.key}
      /\ \A k \in DOMAIN OnFile' \ {r.key} : OnFile'[k] = OnFile[k]
  BY <1>1, <1>5, <1>7, SaysAppended
<1> QED
  BY <1>1, <1>6, <1>8 DEF InLog

LEMMA NewlineKeepsFile ==
  ASSUME DurableInv, NEW c \in Conns, WriteNewline(c)
  PROVE  File' = File /\ OnFile' = OnFile
<1>1. tail # <<>>
  <2>1. writing = RecordOf(msg[c]) /\ tail = ToLine(writing) /\ writing \in Records
    BY WriterHasRecord DEF WriteNewline, AppendNewline, DurableInv, WholeInv, ServerInv
  <2>2. FromLine[tail] = writing /\ writing.op \in {"set", "del"}
    BY <2>1, RecordReadsBack, RecordsHaveText DEF SetRecord, DelRecord
  <2>3. <<>> \in Text /\ FromLine[<<>>] = Unreadable
    BY DEF Text, Blanks, FromLine
  <2> QED
    BY <2>2, <2>3 DEF Unreadable
<1>2. File' = File
  BY <1>1 DEF WriteNewline, AppendNewline, File, LinesOf
<1> QED
  BY <1>2 DEF OnFile

-----------------------------------------------------------------------------
LEMMA OnlyWhileUp ==
  ASSUME AliveInv, NEW c \in Conns, ThreadStep(c) \/ ClientStep(c)
  PROVE  phase = "up" /\ phase' = "up"
<1>1. Connect(c) \/ pc[c] # "closed"
  BY DEF ThreadStep, ClientStep, CloneFails, Enter, ReadLine, Disconnect, Acquire, Look, Exit,
       DelMiss, DelHit, WriteBody, WriteNewline, OpenFails, TornWrite, EndFails, ApplySet,
       ApplyDel, Send, SendFails, Leave, AtAppend
<1>2. phase = "up"
  BY <1>1 DEF Connect, AliveInv
<1>3. phase' = phase
  BY DEF ThreadStep, ClientStep, Connect, CloneFails, Enter, ReadLine, Disconnect, Acquire,
       Look, Exit, DelMiss, DelHit, WriteBody, WriteNewline, OpenFails, TornWrite, EndFails,
       ApplySet, ApplyDel, Send, SendFails, Leave, Local, Quiet, FileOnly, logVars
<1> QED
  BY <1>2, <1>3

LEMMA AliveStep ==
  AliveInv /\ [Next]_vars => AliveInv'
<1> SUFFICES ASSUME AliveInv, [Next]_vars PROVE AliveInv'
  OBVIOUS
<1>1. \A c \in Conns : ThreadStep(c) \/ ClientStep(c) => phase' = "up"
  BY OnlyWhileUp
<1>2. Crash => \A c \in Conns : pc'[c] = "closed"
  BY DEF Crash
<1>3. StartUp => phase # "up" /\ UNCHANGED pc
  BY DEF StartUp, Restart, Recovering, RecoverLine, RecoverFails, ReadFails, RecoverDone,
       threadVars
<1>4. Tick \/ UNCHANGED vars => UNCHANGED <<phase, pc>>
  BY DEF Tick, threadVars, vars
<1> QED
  BY <1>1, <1>2, <1>3, <1>4 DEF Next, AliveInv

(* With whole appends only, the process is not killed while a record wants *)
(* its line end, and the file outlives the kill as it is.                  *)
LEMMA CrashKeepsFile ==
  ASSUME IntactAppends, Crash
  PROVE  /\ writing = NoRecord /\ writing' = NoRecord /\ phase' = "down"
         /\ UNCHANGED <<lines, tail, promised>>
  BY DEF IntactAppends, Crash, Kill, PowerLoss, LoseMemory

LEMMA NoTornWrites ==
  ASSUME IntactAppends, NEW c \in Conns
  PROVE  ~ TornWrite(c) /\ ~ EndFails(c)
  BY DEF IntactAppends, TornWrite, TornBody, EndFails, NewlineFails

LEMMA WholeStep ==
  ASSUME IntactAppends, DurableInv, [Next]_vars
  PROVE  WholeInv'
<1>0. LogTypeOK /\ LockInv /\ WriteInv /\ WholeInv
  BY DEF DurableInv, ServerInv
<1>1. CASE Crash
  BY <1>0, <1>1, CrashKeepsFile DEF Crash, WholeInv
<1>2. ASSUME NEW c \in Conns, FileStep(c) PROVE WholeInv'
  <2>1. \A d \in Conns : d # c => pc'[d] # "newline"
    <3>1. pc[c] \in Holding
      BY <1>2 DEF FileStep, WriteBody, WriteNewline, TornWrite, EndFails, TornBody, AtAppend,
           Holding
    <3>2. \A d \in Conns : d # c => pc[d] \notin Holding
      BY <1>0, <3>1, OneHolder
    <3>3. \E p : pc' = [pc EXCEPT ![c] = p]
      BY <1>2 DEF FileStep, WriteBody, WriteNewline, TornWrite, EndFails, Reply, Goes
    <3> QED
      BY <1>0, <3>2, <3>3 DEF LockInv, Holding
  <2>2. CASE WriteBody(c)
    <3>1. RecordOf(msg[c]) \in Records /\ ToLine(RecordOf(msg[c])) \in Text
      BY <1>0, <2>2, WriterHasRecord, RecordsHaveText DEF WriteBody
    <3>2. /\ lines' = lines /\ writing' = RecordOf(msg[c]) /\ msg'[c] = msg[c]
          /\ tail' = tail \o ToLine(RecordOf(msg[c])) /\ tail = <<>>
      BY <1>0, <2>2 DEF WriteBody, AppendBody, Goes, WholeInv, WriteInv
    <3>3. tail' = ToLine(writing')
      BY <3>1, <3>2, ConcatEmptySeq DEF Text
    <3>4. writing' # NoRecord
      BY <3>1, <3>2, LogAssumption
    <3> QED
      BY <1>0, <2>1, <3>2, <3>3, <3>4 DEF WholeInv
  <2>3. CASE WriteNewline(c)
    <3>1. /\ lines' = Append(lines, tail) /\ tail' = <<>> /\ writing' = NoRecord
          /\ pc[c] = "newline" /\ pc'[c] = "apply" /\ tail = ToLine(writing)
          /\ writing = RecordOf(msg[c])
      BY <1>0, <2>3 DEF WriteNewline, AppendNewline, Goes, WholeInv, LockInv
    <3>2. writing \in Records
      BY <1>0, <3>1, WriterHasRecord
    <3>3. FromLine[tail] # Unreadable
      <4>1. writing.op \in {"set", "del"}
        BY <3>2, RecordsHaveText DEF SetRecord, DelRecord
      <4> QED
        BY <3>1, <3>2, <4>1, RecordReadsBack DEF Unreadable
    <3>4. \A i \in DOMAIN lines' : FromLine[lines'[i]] # Unreadable
      BY <1>0, <3>1, <3>3 DEF WholeInv, LogTypeOK
    <3> QED
      BY <2>1, <3>1, <3>4 DEF WholeInv
  <2> QED
    BY <1>2, <2>2, <2>3, NoTornWrites DEF FileStep
<1>3. CASE NoFileStep /\ ~ (\E c \in Conns : FileStep(c)) /\ ~ Crash
  BY <1>0, <1>3, WritersStay DEF NoFileStep, WholeInv
<1>4. CASE StartUp
  <2>1. UNCHANGED <<lines, tail, writing, pc, msg>>
    BY <1>4 DEF StartUp, Restart, Recovering, RecoverLine, RecoverFails, ReadFails,
         RecoverDone, threadVars
  <2> QED
    BY <1>0, <2>1 DEF WholeInv
<1> QED
  BY <1>1, <1>2, <1>3, <1>4, WhoTouchesTheFile

-----------------------------------------------------------------------------
(* A step that is no writer's leaves the writers and the file alone.       *)
Writes(c) == FileStep(c) \/ ApplySet(c) \/ ApplyDel(c)

LEMMA OthersKeepWriters ==
  ASSUME LockInv, WriteInv, [Next]_vars, ~ (\E c \in Conns : Writes(c)), ~ Crash
  PROVE  /\ \A d \in Conns :
              /\ pc'[d] \in {"newline", "apply"} <=> pc[d] \in {"newline", "apply"}
              /\ pc[d] \in {"newline", "apply"} => msg'[d] = msg[d]
         /\ UNCHANGED <<lines, tail, promised>>
         /\ ~ StartUp => UNCHANGED data
<1> USE DEF LockInv, WriteInv, Goes
<1>1. ASSUME NEW c \in Conns, ThreadStep(c)
      PROVE  /\ \A d \in Conns :
                  /\ pc'[d] \in {"newline", "apply"} <=> pc[d] \in {"newline", "apply"}
                  /\ pc[d] \in {"newline", "apply"} => msg'[d] = msg[d]
             /\ UNCHANGED <<lines, tail, promised, data>>
  BY <1>1 DEF ThreadStep, Writes, FileStep, CloneFails, Enter, Acquire, Look, Exit, DelMiss,
       DelHit, OpenFails, Leave, AtAppend, Reply, Local, Quiet, logVars, historyVars
<1>2. ASSUME NEW c \in Conns, ClientStep(c)
      PROVE  /\ \A d \in Conns :
                  /\ pc'[d] \in {"newline", "apply"} <=> pc[d] \in {"newline", "apply"}
                  /\ pc[d] \in {"newline", "apply"} => msg'[d] = msg[d]
             /\ UNCHANGED <<lines, tail, promised, data>>
  BY <1>2 DEF ClientStep, Connect, ReadLine, Disconnect, Send, SendFails, Local, Quiet,
       logVars, historyVars
<1>3. Tick \/ UNCHANGED vars => UNCHANGED <<pc, msg, lines, tail, promised, data>>
  BY DEF Tick, threadVars, historyVars, vars
<1>4. StartUp => UNCHANGED <<pc, msg, lines, tail, promised>>
  BY DEF StartUp, Restart, Recovering, RecoverLine, RecoverFails, ReadFails, RecoverDone,
       threadVars, historyVars
<1> QED
  BY <1>1, <1>2, <1>3, <1>4 DEF Next

(* A writer is alone. *)
LEMMA WriterAlone ==
  ASSUME LockInv, WriteInv, NEW c \in Conns, Writes(c)
  PROVE  /\ pc[c] \in Holding
         /\ \A d \in Conns : d # c => /\ pc[d] \notin {"newline", "apply"}
                                      /\ pc'[d] \notin {"newline", "apply"}
<1>1. pc[c] \in Holding
  BY DEF Writes, FileStep, WriteBody, WriteNewline, TornWrite, EndFails, TornBody, ApplySet,
     ApplyDel, AtAppend, Holding
<1>2. \A d \in Conns : d # c => pc[d] \notin Holding
  BY <1>1, OneHolder
<1>3. \E p : pc' = [pc EXCEPT ![c] = p]
  BY DEF Writes, FileStep, WriteBody, WriteNewline, TornWrite, EndFails, ApplySet, ApplyDel,
     Reply, Goes
<1> QED
  BY <1>1, <1>2, <1>3 DEF LockInv, Holding

LEMMA WrittenStep ==
  ASSUME IntactAppends, DurableInv, [Next]_vars
  PROVE  WrittenInv'
<1>0. LockInv /\ WriteInv /\ WrittenInv
  BY DEF DurableInv, ServerInv
<1>1. CASE Crash
  BY <1>1 DEF Crash, WrittenInv
<1>2. ASSUME NEW c \in Conns, Writes(c) PROVE WrittenInv'
  <2>1. \A d \in Conns : d # c => pc'[d] \notin {"newline", "apply"}
    BY <1>0, <1>2, WriterAlone
  <2>2. CASE WriteBody(c)
    BY <2>1, <2>2, BodyIsAppended DEF WrittenInv
  <2>3. CASE WriteNewline(c)
    <3>1. OnFile' = OnFile /\ msg'[c] = msg[c] /\ InLog(msg[c])
      BY <1>0, <2>3, NewlineKeepsFile DEF WriteNewline, Goes, WriteInv, WrittenInv
    <3> QED
      BY <2>1, <3>1 DEF WrittenInv, InLog
  <2>4. CASE ApplySet(c) \/ ApplyDel(c)
    <3>1. pc'[c] = "sending"
      BY <1>0, <2>4 DEF ApplySet, ApplyDel, Reply, Goes, LockInv
    <3> QED
      BY <2>1, <3>1 DEF WrittenInv
  <2> QED
    BY <1>2, <2>2, <2>3, <2>4, NoTornWrites DEF Writes, FileStep
<1>3. CASE ~ (\E c \in Conns : Writes(c)) /\ ~ Crash
  <2>1. /\ \A d \in Conns : pc'[d] \in {"newline", "apply"} =>
              pc[d] \in {"newline", "apply"} /\ msg'[d] = msg[d]
        /\ UNCHANGED <<lines, tail>>
    BY <1>0, <1>3, OthersKeepWriters
  <2>2. OnFile' = OnFile
    BY <2>1 DEF OnFile, File
  <2> QED
    BY <1>0, <2>1, <2>2 DEF WrittenInv, InLog
<1> QED
  BY <1>1, <1>2, <1>3

LEMMA PromisedStep ==
  ASSUME IntactAppends, DurableInv, [Next]_vars
  PROVE  PromisedInv'
<1>0. LockInv /\ WriteInv /\ WrittenInv /\ PromisedInv
  BY DEF DurableInv, ServerInv
<1>1. ASSUME NEW c \in Conns, Writes(c) PROVE PromisedInv'
  <2>0. PICK k : k = msg[c].key
    OBVIOUS
  <2>1. msg[c].op \in {"set", "del"}
    BY <1>0, <1>1, WriterHasRecord DEF Writes, FileStep, WriteBody, WriteNewline, TornWrite,
       EndFails, TornBody, ApplySet, ApplyDel
  <2>2. CASE WriteBody(c)
    <3>1. promised' = [promised EXCEPT ![k] = @ \cup {Wanted(msg[c])}]
      BY <2>0, <2>2 DEF WriteBody
    <3>2. msg'[c] = msg[c]
      BY <1>0, <2>2 DEF WriteBody, Goes, WriteInv
    <3>3. /\ InLog(msg[c])'
          /\ \A x : x # k =>
               /\ x \in DOMAIN OnFile' <=> x \in DOMAIN OnFile
               /\ x \in DOMAIN OnFile' => OnFile'[x] = OnFile[x]
      BY <2>0, <2>2, BodyIsAppended
    <3>4. KeptValue(k)' = Wanted(msg[c])
      BY <2>0, <2>1, <3>2, <3>3 DEF InLog, KeptValue, Wanted
    <3>5. ASSUME NEW x \in Keys, x # k PROVE KeptValue(x)' = KeptValue(x)
      <4>1. /\ (x \in DOMAIN OnFile') <=> (x \in DOMAIN OnFile)
            /\ x \in DOMAIN OnFile' => OnFile'[x] = OnFile[x]
        BY <3>3, <3>5
      <4> QED
        BY <4>1 DEF KeptValue
    <3> QED
      BY <1>0, <3>1, <3>4, <3>5 DEF PromisedInv
  <2>3. CASE WriteNewline(c)
    <3>1. OnFile' = OnFile /\ promised' = promised
      BY <2>3, NewlineKeepsFile DEF WriteNewline
    <3> QED
      BY <1>0, <3>1 DEF PromisedInv, KeptValue
  <2>4. CASE ApplySet(c) \/ ApplyDel(c)
    <3>1. /\ pc[c] = "apply" /\ promised' = [promised EXCEPT ![k] = {Wanted(msg[c])}]
          /\ UNCHANGED <<lines, tail>>
      BY <2>0, <2>4 DEF ApplySet, ApplyDel, Wanted
    <3>2. OnFile' = OnFile /\ InLog(msg[c])
      BY <1>0, <3>1 DEF OnFile, File, WrittenInv
    <3>3. KeptValue(k) = Wanted(msg[c])
      BY <2>0, <2>1, <3>2 DEF InLog, KeptValue, Wanted
    <3> QED
      BY <1>0, <3>1, <3>2, <3>3 DEF PromisedInv, KeptValue
  <2> QED
    BY <1>1, <2>2, <2>3, <2>4, NoTornWrites DEF Writes, FileStep
<1>2. CASE ~ (\E c \in Conns : Writes(c))
  <2>1. UNCHANGED <<lines, tail, promised>>
    BY <1>0, <1>2, OthersKeepWriters, CrashKeepsFile
  <2> QED
    BY <1>0, <2>1 DEF PromisedInv, KeptValue, OnFile, File
<1> QED
  BY <1>1, <1>2

LEMMA RecoverInvServerStep ==
  DurableInv /\ [Next]_vars => RecoverInv'
<1> SUFFICES ASSUME DurableInv, [Next]_vars PROVE RecoverInv'
  OBVIOUS
<1>0. RecoverInv /\ AliveInv /\ LogTypeOK'
  BY LogTypedStep DEF DurableInv, ServerInv
<1>1. CASE StartUp
  BY <1>0, <1>1, RecoveryStep DEF StartUp
<1>2. (\E c \in Conns : ThreadStep(c) \/ ClientStep(c)) \/ Tick \/ Crash
         => phase' # "recovering"
  BY <1>0, OnlyWhileUp DEF Tick, Crash, Kill, PowerLoss, LoseMemory
<1>3. CASE UNCHANGED vars
  BY <1>0, <1>3 DEF vars, RecoverInv, File
<1> QED
  BY <1>0, <1>1, <1>2, <1>3 DEF Next, RecoverInv

LEMMA MemoryStep ==
  ASSUME IntactAppends, DurableInv, [Next]_vars
  PROVE  MemoryInv'
<1>0. LockInv /\ WriteInv /\ WrittenInv /\ MemoryInv /\ AliveInv /\ RecoverInv
  BY DEF DurableInv, ServerInv
<1>1. CASE Crash
  BY <1>1, CrashKeepsFile DEF MemoryInv
<1>2. ASSUME NEW c \in Conns, Writes(c) PROVE MemoryInv'
  <2> DEFINE k == msg[c].key
  <2>0. phase = "up"
    BY <1>0, <1>2, OnlyWhileUp DEF Writes, FileStep, ThreadStep
  <2>1. \A d \in Conns : d # c => /\ pc[d] \notin {"newline", "apply"}
                                  /\ pc'[d] \notin {"newline", "apply"}
    BY <1>0, <1>2, WriterAlone
  <2>2. CASE WriteBody(c)
    <3>1. /\ data' = data /\ pc'[c] = "newline" /\ msg'[c] = msg[c]
          /\ pc[c] \notin {"newline", "apply"}
      BY <1>0, <2>2 DEF WriteBody, FileOnly, AtAppend, Goes, LockInv, WriteInv
    <3>2. BeingWritten = {} /\ BeingWritten' = {k}
      BY <2>1, <3>1 DEF BeingWritten, Writing
    <3>3. \A x : x # k =>
            /\ x \in DOMAIN OnFile' <=> x \in DOMAIN OnFile
            /\ x \in DOMAIN OnFile' => OnFile'[x] = OnFile[x]
      BY <2>2, BodyIsAppended
    <3> HIDE DEF k
    <3>4. ASSUME NEW x \in DOMAIN data' \ BeingWritten'
          PROVE  x \in DOMAIN OnFile' /\ OnFile'[x] = data'[x].value
      <4>1. x # k /\ x \in DOMAIN data \ BeingWritten
        BY <3>1, <3>2
      <4>2. x \in DOMAIN OnFile /\ OnFile[x] = data[x].value
        BY <1>0, <2>0, <4>1 DEF MemoryInv
      <4>3. (x \in DOMAIN OnFile') /\ OnFile'[x] = OnFile[x]
        BY <3>3, <4>1, <4>2
      <4> QED
        BY <3>1, <4>2, <4>3
    <3> QED
      BY <3>4 DEF MemoryInv
  <2>3. CASE WriteNewline(c)
    <3>1. /\ data' = data /\ pc[c] = "newline" /\ pc'[c] = "apply" /\ msg'[c] = msg[c]
          /\ OnFile' = OnFile
      BY <1>0, <2>3, NewlineKeepsFile DEF WriteNewline, FileOnly, Goes, LockInv, WriteInv
    <3>2. BeingWritten = {k} /\ BeingWritten' = {k}
      BY <2>1, <3>1 DEF BeingWritten, Writing
    <3> QED
      BY <1>0, <2>0, <3>1, <3>2 DEF MemoryInv
  <2>4. CASE ApplySet(c) \/ ApplyDel(c)
    <3>1. /\ pc[c] = "apply" /\ pc'[c] = "sending" /\ UNCHANGED <<lines, tail>>
      BY <1>0, <2>4 DEF ApplySet, ApplyDel, Reply, Goes, LockInv
    <3>2. OnFile' = OnFile /\ InLog(msg[c])
      BY <1>0, <3>1 DEF OnFile, File, WrittenInv
    <3>3. BeingWritten = {k} /\ BeingWritten' = {}
      BY <2>1, <3>1 DEF BeingWritten, Writing
    <3>4. CASE ApplySet(c)
      <4>1. /\ msg[c].op = "set"
            /\ data' = SetEntry(data, k, msg[c].value, msg[c].ttl, now, now')
        BY <3>4 DEF ApplySet
      <4>2. \A x \in DOMAIN data' \ {k} : x \in DOMAIN data /\ data'[x] = data[x]
        BY <4>1 DEF SetEntry, Insert, SweepExpired, Restrict, LiveKeys
      <4>3. data'[k].value = msg[c].value
        BY <4>1 DEF SetEntry, Insert
      <4>4. k \in DOMAIN OnFile /\ OnFile[k] = msg[c].value
        BY <3>2, <4>1 DEF InLog
      <4> HIDE DEF k
      <4> QED
        BY <1>0, <2>0, <3>2, <3>3, <4>2, <4>3, <4>4 DEF MemoryInv
    <3>5. CASE ApplyDel(c)
      <4>1. \A x \in DOMAIN data' : x \in DOMAIN data \ {k} /\ data'[x] = data[x]
        BY <3>5 DEF ApplyDel, DeleteEntry, Restrict
      <4> HIDE DEF k
      <4> QED
        BY <1>0, <2>0, <3>2, <3>3, <4>1 DEF MemoryInv
    <3> QED
      BY <2>4, <3>4, <3>5
  <2> QED
    BY <1>2, <2>2, <2>3, <2>4, NoTornWrites DEF Writes, FileStep
<1>3. CASE ~ (\E c \in Conns : Writes(c)) /\ ~ Crash /\ ~ StartUp
  <2>1. /\ \A d \in Conns :
             /\ pc'[d] \in {"newline", "apply"} <=> pc[d] \in {"newline", "apply"}
             /\ pc[d] \in {"newline", "apply"} => msg'[d] = msg[d]
        /\ UNCHANGED <<lines, tail, data>>
    BY <1>0, <1>3, OthersKeepWriters
  <2>2. BeingWritten' = BeingWritten /\ OnFile' = OnFile
    BY <2>1 DEF BeingWritten, Writing, OnFile, File
  <2>3. phase' = "up" => phase = "up"
    BY <1>0, <1>3, OnlyWhileUp DEF Next, Tick, vars
  <2> QED
    BY <1>0, <2>1, <2>2, <2>3 DEF MemoryInv
<1>4. CASE StartUp
  <2>1. CASE phase' # "up"
    BY <2>1 DEF MemoryInv
  <2>2. CASE phase' = "up"
    <3>1. /\ phase = "recovering" /\ pos = Len(File) /\ data' = data
          /\ UNCHANGED <<lines, tail>>
      BY <1>4, <2>2 DEF StartUp, Restart, Recovering, RecoverLine, RecoverFails, ReadFails,
           RecoverDone
    <3>2. data = Lasting(OnFile) /\ OnFile' = OnFile
      BY <1>0, <3>1 DEF RecoverInv, OnFile, File
    <3> QED
      BY <3>1, <3>2 DEF MemoryInv, Lasting
  <2> QED
    BY <2>1, <2>2
<1> QED
  BY <1>1, <1>2, <1>3, <1>4

-----------------------------------------------------------------------------
LEMMA DurableInvAlways ==
  ASSUME IntactAppends
  PROVE  Spec => []DurableInv
<1>1. Init => DurableInv
  <2> SUFFICES ASSUME Init PROVE DurableInv
    OBVIOUS
  <2>1. ServerInv
    BY ServerInvInit
  <2>2. RecoverInv /\ AliveInv /\ MemoryInv
    BY <2>1 DEF Init, LogInit, RecoverInv, ServerInv, AliveInv, MemoryInv
  <2>3. WholeInv /\ WrittenInv
    BY DEF Init, LogInit, WholeInv, WrittenInv
  <2>4. PromisedInv
    <3>1. OnFile = Left[<<>>]
      BY DEF Init, LogInit, OnFile, File, LinesOf, ReadBack
    <3>2. DOMAIN OnFile = {}
      BY <3>1, NothingLeft DEF Lasting, EmptyMap
    <3> QED
      BY <3>2 DEF Init, PromisedInv, KeptValue
  <2> QED
    BY <2>1, <2>2, <2>3, <2>4 DEF DurableInv
<1>2. DurableInv /\ [Next]_vars => DurableInv'
  BY ServerInvStep, RecoverInvServerStep, WholeStep, WrittenStep, PromisedStep, AliveStep,
     MemoryStep DEF DurableInv
<1> QED
  BY <1>1, <1>2, PTL DEF Spec

(* As long as no append is cut in two and the power stays on: at every     *)
(* moment, a restart would succeed and bring back, for each key, what was  *)
(* last acknowledged or something written later.                           *)
THEOREM AcknowledgedSurvives ==
  ASSUME IntactAppends
  PROVE  Spec => []AckedSurvives
<1>1. DurableInv => AckedSurvives
  <2> SUFFICES ASSUME DurableInv PROVE AckedSurvives
    OBVIOUS
  <2>1. Readable(File)
    <3>1. LogTypeOK /\ WholeInv
      BY DEF DurableInv, ServerInv
    <3>2. CASE tail = <<>>
      BY <3>1, <3>2 DEF Readable, File, LinesOf, WholeInv
    <3>3. CASE tail # <<>>
      <4>1. writing \in Records /\ tail = ToLine(writing)
        BY <3>1, <3>3 DEF WholeInv, LogTypeOK
      <4>2. FromLine[tail] # Unreadable
        BY <4>1, RecordReadsBack, RecordsHaveText DEF Unreadable, SetRecord, DelRecord
      <4> QED
        BY <3>1, <3>3, <4>2 DEF Readable, File, LinesOf, WholeInv, LogTypeOK
    <3> QED
      BY <3>2, <3>3
  <2>2. PromisedInv
    BY DEF DurableInv
  <2> QED
    BY <2>1, <2>2 DEF AckedSurvives, PromisedInv, KeptValue
<1> QED
  BY <1>1, DurableInvAlways, PTL

(* Under the same condition, memory never shows a value that the log does  *)
(* not have, but for the key of the write that is under way.               *)
THEOREM MemoryIsOnFile ==
  ASSUME IntactAppends
  PROVE  Spec => []MemoryOnFile
<1>1. DurableInv => MemoryOnFile
  BY DEF DurableInv, MemoryInv, MemoryOnFile, LiveKeys
<1> QED
  BY <1>1, DurableInvAlways, PTL

-----------------------------------------------------------------------------
(* The refinement.  A thread that is deleting has its key in memory until  *)
(* it deletes it: what it may be answered is settled when the record is    *)
(* written, and only a key that expires meanwhile is reported missing.     *)
Deleting(c) ==
  pc[c] = "checked" \/ (pc[c] \in {"newline", "apply"} /\ msg[c].op = "del")

DeletingInv == \A c \in Conns : Deleting(c) => msg[c].key \in DOMAIN data

LEMMA DeletingStep ==
  ASSUME DurableInv, DeletingInv, [Next]_vars
  PROVE  DeletingInv'
<1>0. LockInv /\ WriteInv /\ AliveInv
  BY DEF DurableInv, ServerInv
<1>1. ASSUME NEW c \in Conns, ThreadStep(c) \/ ClientStep(c) PROVE DeletingInv'
  <2>1. ASSUME NEW d \in Conns, d # c, Deleting(d)' PROVE msg'[d].key \in DOMAIN data'
    <3>1. \E p, m : pc' = [pc EXCEPT ![c] = p] /\ msg' = [msg EXCEPT ![c] = m]
      BY <1>1 DEF ThreadStep, ClientStep, Connect, CloneFails, Enter, ReadLine, Disconnect,
           Acquire, Look, Exit, DelMiss, DelHit, WriteBody, WriteNewline, OpenFails,
           TornWrite, EndFails, ApplySet, ApplyDel, Send, SendFails, Leave, Reply, Goes
    <3>2. pc'[d] = pc[d] /\ msg'[d] = msg[d]
      BY <1>0, <2>1, <3>1 DEF LockInv, WriteInv
    <3>3. Deleting(d) /\ pc[d] \in Holding
      BY <2>1, <3>2 DEF Deleting, Holding
    <3>4. pc[c] \notin Holding
      BY <1>0, <2>1, <3>3, OneHolder
    <3>5. data' = data
      BY <1>1, <3>4 DEF ThreadStep, ClientStep, Connect, CloneFails, Enter, ReadLine,
           Disconnect, Acquire, Look, Exit, DelMiss, DelHit, WriteBody, WriteNewline,
           OpenFails, TornWrite, EndFails, ApplySet, ApplyDel, Send, SendFails, Leave, Local,
           Quiet, FileOnly, logVars, Holding
    <3> QED
      BY <3>2, <3>3, <3>5 DEF DeletingInv
  <2>2. ASSUME Deleting(c)' PROVE msg'[c].key \in DOMAIN data'
    <3>1. DelHit(c) \/ WriteBody(c) \/ WriteNewline(c)
      BY <1>0, <1>1, <2>2 DEF ThreadStep, ClientStep, Connect, CloneFails, Enter, ReadLine,
           Disconnect, Acquire, Look, Exit, DelMiss, OpenFails, TornWrite,
           EndFails, ApplySet, ApplyDel, Send, SendFails, Leave, Reply, Goes, LockInv,
           Deleting
    <3>2. data' = data /\ msg'[c] = msg[c]
      BY <1>0, <3>1 DEF DelHit, WriteBody, WriteNewline, Local, Quiet, logVars, FileOnly, Goes,
           WriteInv
    <3>3. CASE DelHit(c)
      BY <3>2, <3>3 DEF DelHit, HasLive, LiveKeys
    <3>4. CASE WriteBody(c) \/ WriteNewline(c)
      <4>1. Deleting(c)
        BY <1>0, <2>2, <3>2, <3>4 DEF WriteBody, WriteNewline, AtAppend, Goes, Deleting,
             LockInv
      <4> QED
        BY <3>2, <4>1 DEF DeletingInv
    <3> QED
      BY <3>1, <3>3, <3>4
  <2> QED
    BY <2>1, <2>2 DEF DeletingInv
<1>2. CASE Crash
  BY <1>2 DEF Crash, DeletingInv, Deleting
<1>3. CASE StartUp
  <2>1. phase # "up" /\ UNCHANGED pc
    BY <1>3 DEF StartUp, Restart, Recovering, RecoverLine, RecoverFails, ReadFails,
         RecoverDone, threadVars
  <2> QED
    BY <1>0, <2>1 DEF AliveInv, DeletingInv, Deleting
<1>4. CASE Tick \/ UNCHANGED vars
  <2>1. UNCHANGED <<pc, msg, data>>
    BY <1>4 DEF Tick, threadVars, vars
  <2> QED
    BY <2>1 DEF DeletingInv, Deleting
<1> QED
  BY <1>1, <1>2, <1>3, <1>4 DEF Next

(* What the refinement leans on. *)
RefineInv == DurableInv /\ TypeInv /\ DeletingInv

LEMMA RefineInvAlways ==
  ASSUME IntactAppends
  PROVE  Spec => []RefineInv
<1>1. Init => DeletingInv
  BY DEF Init, DeletingInv, Deleting
<1>2. DurableInv /\ DeletingInv /\ [Next]_vars => DeletingInv'
  BY DeletingStep
<1> QED
  BY <1>1, <1>2, DurableInvAlways, TypeInvAlways, PTL DEF Spec, RefineInv

-----------------------------------------------------------------------------
(* The refinement mapping, thread by thread and key by key. *)
CallOf(c) ==
  IF pc[c] \in {"locking", "run", "checked"} THEN msg[c]
  ELSE IF pc[c] \in {"newline", "apply"}
         THEN [op |-> "settling", answers |-> MayHear(msg[c])]
  ELSE IF pc[c] # "sending" THEN None
  ELSE IF msg[c].op = "status" THEN [op |-> "status", count |-> msg[c].count]
  ELSE msg[c]

LEMMA CallBarOf ==
  /\ CallBar = [c \in Conns |-> CallOf(c)]
  /\ \A c \in Conns : CallBar[c] = CallOf(c)
  BY DEF CallBar, CallOf

LEMMA SaysIsMap ==
  ASSUME NEW f \in Seq(Text)
  PROVE  Says(f) = [k \in DOMAIN Says(f) |-> Says(f)[k]]
<1>1. \A i \in 1 .. Len(f) : FromLine[f[i]] \in AnyRecord
  BY ElementOfSeq, FromLineTyped
<1>2. ReadBack(f, Len(f)) \in [1 .. Len(f) -> AnyRecord] /\ Len(f) \in Nat
  BY <1>1 DEF ReadBack
<1>3. ReadBack(f, Len(f)) \in Seq(AnyRecord)
  BY <1>2
<1> QED
  BY <1>3 DEF Says, Left

LEMMA OnFileStaysMap ==
  ASSUME LogTypeOK'
  PROVE  OnFile' = [k \in DOMAIN OnFile' |-> OnFile'[k]]
<1>1. File' \in Seq(Text)
  BY DEF LogTypeOK, File, LinesOf
<1> QED
  BY <1>1, SaysIsMap DEF OnFile, Says

(* A step of one thread that leaves memory alone moves its own call only.  *)
LEMMA CallMoves ==
  ASSUME RefineInv, NEW c \in Conns, NEW p, NEW m,
         pc' = [pc EXCEPT ![c] = p], msg' = [msg EXCEPT ![c] = m],
         data' = data \/ ~ \E d \in Conns \ {c} : pc[d] \in {"newline", "apply"}
  PROVE  CallBar' = [CallBar EXCEPT ![c] = CallOf(c)']
<1>1. DOMAIN pc = Conns /\ DOMAIN msg = Conns
  BY DEF RefineInv, DurableInv, ServerInv, LockInv, WriteInv
<1>2. ASSUME NEW d \in Conns, d # c PROVE CallOf(d)' = CallOf(d)
  <2>1. pc'[d] = pc[d] /\ msg'[d] = msg[d]
    BY <1>1, <1>2
  <2>2. CASE pc[d] \in {"newline", "apply"}
    <3>1. data' = data
      BY <1>2, <2>2
    <3> QED
      BY <2>1, <2>2, <3>1 DEF CallOf, MayHear
  <2>3. CASE pc[d] \notin {"newline", "apply"}
    BY <2>1, <2>3 DEF CallOf
  <2> QED
    BY <2>2, <2>3
<1>3. CallBar' = [d \in Conns |-> CallOf(d)'] /\ CallBar = [d \in Conns |-> CallOf(d)]
  BY CallBarOf DEF CallBar, CallOf
<1> QED
  BY <1>2, <1>3

(* While the file, the memory, the clock and the writers are as they were, *)
(* so is the map.                                                          *)
LEMMA MapKept ==
  ASSUME UNCHANGED <<lines, tail, phase, data, now>>,
         \A d \in Conns :
           /\ pc'[d] \in {"newline", "apply"} <=> pc[d] \in {"newline", "apply"}
           /\ pc[d] \in {"newline", "apply"} => msg'[d] = msg[d]
  PROVE  UNCHANGED <<OnFile, MortalBar, GoneBar>>
<1>1. OnFile' = OnFile
  BY DEF OnFile, File
<1>2. BeingSet' = BeingSet /\ (TtlPending' <=> TtlPending)
  BY DEF BeingSet, TtlPending, Writing
<1>3. GoneBar' = GoneBar
  BY <1>1, <1>2 DEF GoneBar
<1>4. MortalBar' = MortalBar
  BY <1>1, <1>2 DEF MortalBar
<1> QED
  BY <1>1, <1>3, <1>4

(* A key that has faded had a TTL. *)
LEMMA GoneWereMortal == GoneBar \subseteq MortalBar
  BY DEF GoneBar, MortalBar, HasLive, LiveKeys, Expired

(* No write is under way while a thread that is not writing holds the      *)
(* mutex, and then the map is what memory shows.                           *)
LEMMA MapIsMemory ==
  ASSUME RefineInv, NEW c \in Conns, pc[c] \in {"run", "checked"}
  PROVE  /\ phase = "up" /\ Writing = {}
         /\ \A k \in DOMAIN data : k \in DOMAIN OnFile /\ OnFile[k] = data[k].value
         /\ GoneBar = {k \in DOMAIN OnFile : ~HasLive(data, k, now)}
         /\ DOMAIN OnFile \ GoneBar = LiveKeys(data, now)
<1>1. LockInv /\ AliveInv /\ MemoryInv
  BY DEF RefineInv, DurableInv, ServerInv
<1>2. \A d \in Conns : d # c => pc[d] \notin Holding
  BY <1>1, OneHolder DEF Holding
<1>3. phase = "up" /\ Writing = {}
  BY <1>1, <1>2 DEF AliveInv, Writing, Holding
<1>4. \A k \in DOMAIN data : k \in DOMAIN OnFile /\ OnFile[k] = data[k].value
  BY <1>1, <1>3 DEF MemoryInv, BeingWritten
<1>5. GoneBar = {k \in DOMAIN OnFile : ~HasLive(data, k, now)}
  BY <1>3 DEF GoneBar, BeingSet
<1>6. DOMAIN OnFile \ GoneBar = LiveKeys(data, now)
  BY <1>4, <1>5 DEF HasLive, LiveKeys
<1> QED
  BY <1>3, <1>4, <1>5, <1>6

-----------------------------------------------------------------------------
(* Step by step.  What a thread does outside execute, and its looks, leave *)
(* the map as it is.                                                       *)
LEMMA NoWriteKeepsMap ==
  ASSUME RefineInv, NEW c \in Conns,
         Connect(c) \/ CloneFails(c) \/ Enter(c) \/ ReadLine(c) \/ Disconnect(c)
           \/ Acquire(c) \/ Look(c) \/ Exit(c) \/ DelMiss(c) \/ DelHit(c)
           \/ OpenFails(c) \/ Send(c) \/ SendFails(c) \/ Leave(c)
  PROVE  /\ UNCHANGED <<OnFile, MortalBar, GoneBar>>
         /\ CallBar' = [CallBar EXCEPT ![c] = CallOf(c)']
<1>1. UNCHANGED <<lines, tail, phase, data, now>>
  BY DEF Connect, CloneFails, Enter, ReadLine, Disconnect, Acquire, Look, Exit, DelMiss,
     DelHit, OpenFails, Send, SendFails, Leave, Local, Quiet, logVars
<1>2. PICK p, m : pc' = [pc EXCEPT ![c] = p] /\ msg' = [msg EXCEPT ![c] = m]
  BY DEF Connect, CloneFails, Enter, ReadLine, Disconnect, Acquire, Look, Exit, DelMiss,
     DelHit, OpenFails, Send, SendFails, Leave, Reply, Goes
<1>3. CallBar' = [CallBar EXCEPT ![c] = CallOf(c)']
  BY <1>1, <1>2, CallMoves
<1>4. pc[c] \notin {"newline", "apply"} /\ pc'[c] \notin {"newline", "apply"}
  BY DEF RefineInv, DurableInv, ServerInv, LockInv, Connect, CloneFails, Enter, ReadLine,
     Disconnect, Acquire, Look, Exit, DelMiss, DelHit, OpenFails, Send, SendFails, Leave,
     AtAppend, Reply, Goes
<1>5. \A d \in Conns :
        /\ pc'[d] \in {"newline", "apply"} <=> pc[d] \in {"newline", "apply"}
        /\ pc[d] \in {"newline", "apply"} => msg'[d] = msg[d]
  BY <1>2, <1>4 DEF RefineInv, DurableInv, ServerInv, LockInv, WriteInv
<1> QED
  BY <1>1, <1>3, <1>5, MapKept

(* Arriving, leaving, taking the mutex and DEL's look at its key are not   *)
(* seen in the map's calls.                                                *)
LEMMA UnseenSteps ==
  ASSUME RefineInv, NEW c \in Conns,
         Connect(c) \/ CloneFails(c) \/ Enter(c) \/ Disconnect(c) \/ Acquire(c)
           \/ DelHit(c) \/ Leave(c)
  PROVE  UNCHANGED Durable!vars
<1>0. c \in DOMAIN pc /\ c \in DOMAIN msg
  BY DEF RefineInv, DurableInv, ServerInv, LockInv, WriteInv
<1>1. CallOf(c)' = CallOf(c)
  BY <1>0 DEF Connect, CloneFails, Enter, Disconnect, Acquire, DelHit, Leave, Goes, CallOf
<1>2. /\ UNCHANGED <<OnFile, MortalBar, GoneBar>>
      /\ CallBar' = [CallBar EXCEPT ![c] = CallOf(c)]
  BY <1>1, NoWriteKeepsMap
<1>3. CallBar' = CallBar
  BY <1>2, CallBarOf DEF CallBar
<1> QED
  BY <1>2, <1>3 DEF Durable!vars

LEMMA ReadInvokes ==
  ASSUME RefineInv, NEW c \in Conns, ReadLine(c)
  PROVE  Durable!Invoke(c)
<1>0. c \in DOMAIN pc /\ c \in DOMAIN msg
  BY DEF RefineInv, DurableInv, ServerInv, LockInv, WriteInv
<1>1. CallOf(c) = None
  BY DEF ReadLine, CallOf
<1>2. CallOf(c)' \in Requests \cup {Error}
  BY <1>0 DEF ReadLine, Goes, CallOf, Error
<1> QED
  BY <1>1, <1>2, NoWriteKeepsMap, CallBarOf
     DEF Durable!Invoke, Durable!Becomes, Durable!Idle, Durable!Error, None, Error

LEMMA OpenFailsRefuses ==
  ASSUME RefineInv, NEW c \in Conns, OpenFails(c)
  PROVE  Durable!Refuse(c)
<1>0. c \in DOMAIN pc /\ c \in DOMAIN msg
  BY DEF RefineInv, DurableInv, ServerInv, LockInv, WriteInv
<1>1. CallOf(c) \in Requests
  BY WriterHasRecord DEF OpenFails, AtAppend, CallOf, RefineInv, DurableInv, ServerInv
<1>2. CallOf(c)' = Error
  BY <1>0 DEF OpenFails, Reply, Goes, CallOf, Error
<1> QED
  BY <1>1, <1>2, NoWriteKeepsMap, CallBarOf
     DEF Durable!Refuse, Durable!Becomes, Durable!Error, Error

LEMMA ExitFinishes ==
  ASSUME RefineInv, NEW c \in Conns, Exit(c)
  PROVE  Durable!Finish(c)
<1>0. c \in DOMAIN pc /\ c \in DOMAIN msg
  BY DEF RefineInv, DurableInv, ServerInv, LockInv, WriteInv
<1>1. CallOf(c).op = "exit"
  BY DEF Exit, CallOf
<1>2. CallOf(c)' = None
  BY <1>0 DEF Exit, Goes, CallOf
<1> QED
  BY <1>1, <1>2, NoWriteKeepsMap, CallBarOf
     DEF Durable!Finish, Durable!Becomes, Durable!Idle, None

LEMMA SendFinishes ==
  ASSUME RefineInv, NEW c \in Conns, Send(c) \/ SendFails(c)
  PROVE  Durable!Finish(c)
<1>0. c \in DOMAIN pc /\ c \in DOMAIN msg
  BY DEF RefineInv, DurableInv, ServerInv, LockInv, WriteInv
<1>1. msg[c] \in Replies /\ pc[c] = "sending"
  BY DEF Send, SendFails, RefineInv, TypeInv, ReplyInv
<1>2. CallOf(c).op \in {"ok", "missing", "error", "value", "keys", "status", "pong"}
  BY <1>1 DEF CallOf, Replies, Ok, NotFound, Error
<1>3. CallOf(c)' = None
  BY <1>0 DEF Send, SendFails, Goes, CallOf
<1> QED
  BY <1>2, <1>3, NoWriteKeepsMap, CallBarOf
     DEF Durable!Finish, Durable!Becomes, Durable!Idle, None

(* What a command that only looks is answered is what the map shows.       *)
LEMMA LookLooks ==
  ASSUME RefineInv, NEW c \in Conns, Look(c) \/ DelMiss(c)
  PROVE  Durable!Look(c)
<1>0. c \in DOMAIN pc /\ c \in DOMAIN msg
  BY DEF RefineInv, DurableInv, ServerInv, LockInv, WriteInv
<1>1. pc[c] = "run" /\ CallOf(c) = msg[c]
  BY DEF Look, DelMiss, CallOf
<1>2. /\ Durable!Visible = LiveKeys(data, now)
      /\ \A k \in DOMAIN data : OnFile[k] = data[k].value
  BY <1>1, MapIsMemory DEF Durable!Visible
<1>3. CASE DelMiss(c)
  <2>1. CallOf(c)' = NotFound /\ msg[c].op = "del" /\ msg[c].key \notin LiveKeys(data, now)
    BY <1>0, <1>3 DEF DelMiss, Reply, Goes, CallOf, NotFound, HasLive
  <2> QED
    BY <1>1, <1>2, <1>3, <2>1, NoWriteKeepsMap, CallBarOf
       DEF Durable!Look, Durable!Becomes, Durable!NotFound, NotFound
<1>4. CASE Look(c)
  <2>1. /\ msg[c].op \in {"get", "list", "status", "ping"}
        /\ pc'[c] = "sending" /\ msg'[c] = Answer(msg[c])
    BY <1>0, <1>4 DEF Look, Reply, Goes
  <2>2. CallOf(c)' = Durable!Answer(c)
    <3>1. CASE msg[c].op = "get"
      <4>1. msg[c].key \in LiveKeys(data, now) => msg[c].key \in DOMAIN data
        BY DEF LiveKeys
      <4>2. Answer(msg[c]) = Durable!Answer(c)
        BY <1>1, <1>2, <3>1, <4>1, CallBarOf
           DEF Answer, Durable!Answer, Durable!NotFound, NotFound, HasLive
      <4>3. Answer(msg[c]).op # "status"
        BY <3>1 DEF Answer, NotFound
      <4> QED
        BY <2>1, <4>2, <4>3 DEF CallOf
    <3>2. CASE msg[c].op = "list"
      BY <1>1, <1>2, <2>1, <3>2, CallBarOf DEF CallOf, Answer, Durable!Answer
    <3>3. CASE msg[c].op = "status"
      BY <1>1, <1>2, <2>1, <3>3, CallBarOf
         DEF CallOf, Answer, Durable!Answer, Cardinality, Durable!Cardinality
    <3>4. CASE msg[c].op = "ping"
      BY <1>1, <2>1, <3>4, CallBarOf DEF CallOf, Answer, Durable!Answer
    <3> QED
      BY <2>1, <3>1, <3>2, <3>3, <3>4
  <2> QED
    BY <1>1, <1>4, <2>1, <2>2, NoWriteKeepsMap, CallBarOf DEF Durable!Look, Durable!Becomes
<1> QED
  BY <1>3, <1>4

-----------------------------------------------------------------------------
(* A write takes effect on the map when its record reaches the file: from  *)
(* then on a restart would show it, and no other thread can look.          *)
LEMMA BodyStarts ==
  ASSUME RefineInv, NEW c \in Conns, WriteBody(c)
  PROVE  /\ phase = "up" /\ phase' = "up" /\ UNCHANGED <<data, now>>
         /\ Writing = {} /\ Writing' = {c} /\ msg'[c] = msg[c]
         /\ msg[c].op \in {"set", "del"} /\ CallBar[c] = msg[c]
         /\ CallBar' = [CallBar EXCEPT ![c] =
                         [op |-> "settling", answers |-> MayHear(msg[c])]]
<1>0. LockInv /\ WriteInv /\ c \in DOMAIN pc /\ c \in DOMAIN msg
  BY DEF RefineInv, DurableInv, ServerInv, LockInv, WriteInv
<1>1. /\ pc[c] \in {"run", "checked"} /\ msg[c].op \in {"set", "del"}
      /\ phase' = phase /\ UNCHANGED <<data, now>>
      /\ pc' = [pc EXCEPT ![c] = "newline"] /\ msg' = [msg EXCEPT ![c] = msg[c]]
  BY <1>0, WriterHasRecord DEF WriteBody, AtAppend, FileOnly, Goes
<1>2. phase = "up" /\ Writing = {}
  BY <1>1, MapIsMemory
<1>3. Writing' = {c} /\ msg'[c] = msg[c]
  BY <1>0, <1>1, <1>2 DEF Writing
<1>4. CallBar[c] = msg[c]
  BY <1>1, CallBarOf DEF CallOf
<1>5. CallOf(c)' = [op |-> "settling", answers |-> MayHear(msg[c])]
  BY <1>0, <1>1, <1>3 DEF CallOf, MayHear
<1>6. CallBar' = [CallBar EXCEPT ![c] = CallOf(c)']
  BY <1>1, CallMoves
<1> QED
  BY <1>1, <1>2, <1>3, <1>4, <1>5, <1>6

LEMMA BodySets ==
  ASSUME RefineInv, LogTypeOK', NEW c \in Conns, WriteBody(c), msg[c].op = "set"
  PROVE  Durable!Set(c)
<1> DEFINE key == msg[c].key
<1>1. /\ phase = "up" /\ phase' = "up" /\ UNCHANGED <<data, now>>
      /\ Writing = {} /\ Writing' = {c} /\ msg'[c] = msg[c] /\ CallBar[c] = msg[c]
      /\ CallBar' = [CallBar EXCEPT ![c] =
                      [op |-> "settling", answers |-> MayHear(msg[c])]]
  BY BodyStarts
<1>2. MayHear(msg[c]) = {Ok}
  BY DEF MayHear
<1>3. /\ BeingSet = {} /\ BeingSet' = {key} /\ (TtlPending' <=> msg[c].ttl # Never)
  BY <1>1 DEF BeingSet, TtlPending
<1>4. /\ key \in DOMAIN OnFile' /\ OnFile'[key] = msg[c].value
      /\ \A k : k # key =>
           /\ k \in DOMAIN OnFile' <=> k \in DOMAIN OnFile
           /\ k \in DOMAIN OnFile' => OnFile'[k] = OnFile[k]
  BY <1>1, BodyIsAppended DEF RefineInv, InLog
<1> HIDE DEF key
<1>9. OnFile' = [k \in DOMAIN OnFile' |-> OnFile'[k]]
  BY OnFileStaysMap
<1>5. DOMAIN OnFile' = DOMAIN OnFile \cup {key}
  BY <1>4
<1>6. OnFile' = [k \in DOMAIN OnFile \cup {key} |->
                   IF k = key THEN msg[c].value ELSE OnFile[k]]
  BY <1>4, <1>5, <1>9
<1>7. MortalBar' = IF msg[c].ttl = Never THEN MortalBar \ {key} ELSE MortalBar \cup {key}
  BY <1>1, <1>3, <1>5 DEF MortalBar
<1>8. GoneBar' = GoneBar \ {key}
  BY <1>1, <1>3, <1>5 DEF GoneBar
<1> QED
  BY <1>1, <1>2, <1>6, <1>7, <1>8
     DEF Durable!Set, Durable!Becomes, Durable!Settling, Durable!Ok, Ok, key

LEMMA BodyDeletes ==
  ASSUME RefineInv, LogTypeOK', NEW c \in Conns, WriteBody(c), msg[c].op = "del"
  PROVE  Durable!Delete(c)
<1> DEFINE key == msg[c].key
<1>1. /\ phase = "up" /\ phase' = "up" /\ UNCHANGED <<data, now>>
      /\ Writing = {} /\ Writing' = {c} /\ msg'[c] = msg[c] /\ CallBar[c] = msg[c]
      /\ CallBar' = [CallBar EXCEPT ![c] =
                      [op |-> "settling", answers |-> MayHear(msg[c])]]
  BY BodyStarts
<1>2. pc[c] = "checked"
  BY DEF WriteBody, AtAppend
<1>3. key \in DOMAIN data
  BY <1>2 DEF RefineInv, DeletingInv, Deleting
<1>4. key \in DOMAIN OnFile
  BY <1>2, <1>3, MapIsMemory
<1>5. BeingSet = {} /\ BeingSet' = {}
  BY <1>1 DEF BeingSet
<1>6. /\ key \notin DOMAIN OnFile'
      /\ \A k : k # key =>
           /\ k \in DOMAIN OnFile' <=> k \in DOMAIN OnFile
           /\ k \in DOMAIN OnFile' => OnFile'[k] = OnFile[k]
  BY <1>1, BodyIsAppended DEF RefineInv, InLog
<1>7. MayHear(msg[c]) = IF key \in MortalBar THEN {Ok, NotFound} ELSE {Ok}
  BY <1>1, <1>3, <1>4, <1>5 DEF MayHear, MortalBar
<1> HIDE DEF key
<1>8. DOMAIN OnFile' = DOMAIN OnFile \ {key}
  BY <1>6
<1>9. OnFile' = Restrict(OnFile, DOMAIN OnFile \ {key})
  <2>1. OnFile' = [k \in DOMAIN OnFile' |-> OnFile'[k]]
    BY OnFileStaysMap
  <2> QED
    BY <1>6, <1>8, <2>1 DEF Restrict
<1>10. MortalBar' = MortalBar \ {key}
  BY <1>1, <1>5, <1>8 DEF MortalBar
<1>11. GoneBar' = GoneBar \ {key}
  BY <1>1, <1>5, <1>8 DEF GoneBar
<1> QED
  BY <1>1, <1>4, <1>7, <1>9, <1>10, <1>11
     DEF Durable!Delete, Durable!Becomes, Durable!Settling, Durable!Ok, Durable!NotFound,
         Durable!Restrict, Restrict, Ok, NotFound, key

(* The line end is not seen. *)
LEMMA NewlineUnseen ==
  ASSUME RefineInv, NEW c \in Conns, WriteNewline(c)
  PROVE  UNCHANGED Durable!vars
<1>0. LockInv /\ c \in DOMAIN pc /\ c \in DOMAIN msg
  BY DEF RefineInv, DurableInv, ServerInv, LockInv, WriteInv
<1>1. /\ UNCHANGED <<phase, data, now>> /\ pc[c] = "newline"
      /\ pc' = [pc EXCEPT ![c] = "apply"] /\ msg' = [msg EXCEPT ![c] = msg[c]]
  BY DEF WriteNewline, FileOnly, Goes
<1>2. OnFile' = OnFile
  BY NewlineKeepsFile DEF RefineInv
<1>3. Writing' = Writing /\ \A d \in Conns : msg'[d] = msg[d]
  BY <1>0, <1>1 DEF Writing, LockInv
<1>4. MortalBar' = MortalBar /\ GoneBar' = GoneBar
  <2>1. Writing \subseteq Conns
    BY DEF Writing
  <2>2. BeingSet' = BeingSet /\ (TtlPending' <=> TtlPending)
    BY <1>3, <2>1 DEF BeingSet, TtlPending
  <2> QED
    BY <1>1, <1>2, <2>2 DEF MortalBar, GoneBar
<1>5. CallOf(c)' = CallOf(c)
  BY <1>0, <1>1, <1>3 DEF CallOf, MayHear
<1>6. CallBar' = [CallBar EXCEPT ![c] = CallOf(c)]
  BY <1>1, <1>5, CallMoves
<1>7. CallBar' = CallBar
  BY <1>6, CallBarOf DEF CallBar
<1> QED
  BY <1>2, <1>4, <1>7 DEF Durable!vars

(* Bringing memory up to the log settles the call: time has passed, and    *)
(* other keys may have faded and been swept.                               *)
LEMMA ApplyStarts ==
  ASSUME RefineInv, NEW c \in Conns, ApplySet(c) \/ ApplyDel(c)
  PROVE  /\ phase = "up" /\ phase' = "up" /\ OnFile' = OnFile
         /\ Writing = {c} /\ Writing' = {} /\ InLog(msg[c])
         /\ CallBar[c] = [op |-> "settling", answers |-> MayHear(msg[c])]
         /\ CallBar' = [CallBar EXCEPT ![c] = CallOf(c)']
<1>0. LockInv /\ WriteInv /\ AliveInv /\ WrittenInv /\ c \in DOMAIN pc /\ c \in DOMAIN msg
  BY DEF RefineInv, DurableInv, ServerInv, LockInv, WriteInv
<1>1. /\ pc[c] = "apply" /\ UNCHANGED <<lines, tail, phase>>
      /\ \E m : pc' = [pc EXCEPT ![c] = "sending"] /\ msg' = [msg EXCEPT ![c] = m]
  BY DEF ApplySet, ApplyDel, Reply, Goes
<1>2. \A d \in Conns : d # c => /\ pc[d] \notin {"newline", "apply"}
                               /\ pc'[d] \notin {"newline", "apply"}
  BY <1>0, WriterAlone DEF Writes
<1>3. phase = "up" /\ phase' = "up" /\ OnFile' = OnFile /\ InLog(msg[c])
  BY <1>0, <1>1 DEF AliveInv, OnFile, File, WrittenInv
<1>4. Writing = {c} /\ Writing' = {}
  BY <1>0, <1>1, <1>2 DEF Writing
<1>5. CallBar[c] = [op |-> "settling", answers |-> MayHear(msg[c])]
  BY <1>1, CallBarOf DEF CallOf
<1>6. CallBar' = [CallBar EXCEPT ![c] = CallOf(c)']
  BY <1>1, <1>2, CallMoves
<1> QED
  BY <1>3, <1>4, <1>5, <1>6

LEMMA ApplySetSettles ==
  ASSUME RefineInv, LogTypeOK', NEW c \in Conns, ApplySet(c)
  PROVE  Durable!Settle(c)
<1>1. /\ phase = "up" /\ phase' = "up" /\ OnFile' = OnFile
      /\ Writing = {c} /\ Writing' = {} /\ InLog(msg[c])
      /\ CallBar[c] = [op |-> "settling", answers |-> MayHear(msg[c])]
      /\ CallBar' = [CallBar EXCEPT ![c] = CallOf(c)']
  BY ApplyStarts
<1>2. PICK r : r = msg[c]
  OBVIOUS
<1>3. /\ r.op = "set" /\ r \in Requests
      /\ data' = SetEntry(data, r.key, r.value, r.ttl, now, now') /\ now' \in now .. MaxTime
      /\ now \in Nat /\ now' \in Nat /\ Stored(data)
  BY <1>2 DEF ApplySet, RefineInv, DurableInv, ServerInv, WriteInv, LogTypeOK, TypeInv, Holding
<1>4. now <= now' /\ r.ttl \in Ttls \cup {Never}
  BY <1>3, RequestFields
<1>5. CallOf(c)' = Ok /\ MayHear(msg[c]) = {Ok}
  BY <1>2, <1>3 DEF ApplySet, Reply, Goes, CallOf, MayHear, Ok, RefineInv, DurableInv,
     ServerInv, LockInv, WriteInv
<1>6. /\ BeingSet = {r.key} /\ (TtlPending <=> r.ttl # Never) /\ BeingSet' = {}
      /\ r.key \in DOMAIN OnFile
  BY <1>1, <1>2, <1>3 DEF BeingSet, TtlPending, InLog
<1>7. /\ r.key \in DOMAIN data' /\ data'[r.key].exp = Deadline(r.ttl, now')
      /\ \A k : k # r.key => (k \in DOMAIN data' <=> k \in LiveKeys(data, now))
      /\ \A k \in DOMAIN data' : k # r.key => data'[k] = data[k]
  BY <1>3 DEF SetEntry, Insert, SweepExpired, Restrict
<1>8. data'[r.key].exp # Never <=> r.ttl # Never
  <2>1. CASE r.ttl = Never
    BY <1>7, <2>1 DEF Deadline
  <2>2. CASE r.ttl # Never
    <3>1. r.ttl \in Nat
      BY <1>4, <2>2, ServerAssumption
    <3>2. now' + r.ttl \in Nat
      BY <1>3, <3>1
    <3>3. now' + r.ttl # Never
      BY <3>2, NeverAssumption
    <3> QED
      BY <1>7, <2>2, <3>3 DEF Deadline
  <2> QED
    BY <2>1, <2>2
<1>9. MortalBar' = MortalBar
  <2>1. \A k \in DOMAIN OnFile : k # r.key =>
          ((k \notin DOMAIN data' \/ data'[k].exp # Never)
             <=> (k \notin DOMAIN data \/ data[k].exp # Never))
    BY <1>7 DEF LiveKeys, Expired
  <2> QED
    BY <1>1, <1>6, <1>7, <1>8, <2>1 DEF MortalBar
<1>10. GoneBar \subseteq GoneBar'
  <2> SUFFICES ASSUME NEW k \in GoneBar PROVE k \in GoneBar'
    OBVIOUS
  <2>1. k \in DOMAIN OnFile /\ k # r.key /\ k \notin LiveKeys(data, now)
    BY <1>1, <1>6 DEF GoneBar, HasLive
  <2>2. k \notin DOMAIN data'
    BY <1>7, <2>1
  <2> QED
    BY <1>1, <1>6, <2>1, <2>2 DEF GoneBar, HasLive, LiveKeys
<1>11. GoneBar' \in SUBSET MortalBar
  <2>1. GoneBar' \subseteq MortalBar'
    BY DEF GoneBar, MortalBar, HasLive, LiveKeys, Expired
  <2> QED
    BY <1>9, <2>1
<1>12. /\ CallBar[c].op = "settling"
       /\ \E a \in CallBar[c].answers : CallBar' = [CallBar EXCEPT ![c] = a]
  <2>1. CallBar[c].op = "settling" /\ CallBar[c].answers = MayHear(msg[c])
    BY <1>1
  <2>2. CallOf(c)' \in CallBar[c].answers
    BY <1>5, <2>1
  <2> QED
    BY <1>1, <2>1, <2>2
<1> QED
  BY <1>1, <1>9, <1>10, <1>11, <1>12
     DEF Durable!Settle, Durable!Fading, Durable!Becomes

LEMMA ApplyDelSettles ==
  ASSUME RefineInv, NEW c \in Conns, ApplyDel(c)
  PROVE  Durable!Settle(c)
<1>1. /\ phase = "up" /\ phase' = "up" /\ OnFile' = OnFile
      /\ Writing = {c} /\ Writing' = {} /\ InLog(msg[c])
      /\ CallBar[c] = [op |-> "settling", answers |-> MayHear(msg[c])]
      /\ CallBar' = [CallBar EXCEPT ![c] = CallOf(c)']
  BY ApplyStarts
<1>2. PICK r : r = msg[c]
  OBVIOUS
<1>3. /\ r.op = "del" /\ data' = DeleteEntry(data, r.key, now) /\ now' = now
  BY <1>2 DEF ApplyDel
<1>4. r.key \in DOMAIN data
  BY <1>2, <1>3 DEF ApplyDel, RefineInv, DeletingInv, Deleting
<1>5. CallOf(c)' = IF HasLive(data, r.key, now) THEN Ok ELSE NotFound
  BY <1>2 DEF ApplyDel, Reply, Goes, CallOf, Ok, NotFound, RefineInv, DurableInv, ServerInv,
     LockInv, WriteInv
<1>6. CallOf(c)' \in MayHear(msg[c])
  <2>1. ~ HasLive(data, r.key, now) => data[r.key].exp # Never
    BY <1>4 DEF HasLive, LiveKeys, Expired
  <2> QED
    BY <1>2, <1>3, <1>4, <1>5, <2>1 DEF MayHear
<1>7. BeingSet = {} /\ BeingSet' = {} /\ r.key \notin DOMAIN OnFile
  BY <1>1, <1>2, <1>3 DEF BeingSet, InLog
<1>8. /\ DOMAIN data' = DOMAIN data \ {r.key}
      /\ \A k \in DOMAIN data' : data'[k] = data[k]
  BY <1>3 DEF DeleteEntry, Restrict
<1>9. MortalBar' = MortalBar
  BY <1>1, <1>7, <1>8 DEF MortalBar
<1>10. GoneBar' = GoneBar
  <2>1. \A k : k # r.key => (HasLive(data', k, now') <=> HasLive(data, k, now))
    BY <1>3, <1>8 DEF HasLive, LiveKeys
  <2> QED
    BY <1>1, <1>7, <2>1 DEF GoneBar
<1>11. GoneBar' \in SUBSET MortalBar /\ GoneBar \subseteq GoneBar'
  BY <1>10, GoneWereMortal
<1>12. /\ CallBar[c].op = "settling"
       /\ \E a \in CallBar[c].answers : CallBar' = [CallBar EXCEPT ![c] = a]
  <2>1. CallBar[c].op = "settling" /\ CallBar[c].answers = MayHear(msg[c])
    BY <1>1
  <2>2. CallOf(c)' \in CallBar[c].answers
    BY <1>6, <2>1
  <2> QED
    BY <1>1, <2>1, <2>2
<1> QED
  BY <1>1, <1>9, <1>11, <1>12 DEF Durable!Settle, Durable!Fading, Durable!Becomes

-----------------------------------------------------------------------------
(* Time lets keys fade, a death of the process brings the faded ones back, *)
(* and its next start is not seen.                                         *)
LEMMA TickFades ==
  ASSUME RefineInv, Tick
  PROVE  Durable!Fade
<1>1. /\ phase = "up" /\ now \in Nat /\ now' = now + 1
      /\ UNCHANGED <<lines, tail, phase, data, pc, msg>>
  BY DEF Tick, threadVars, RefineInv, DurableInv, ServerInv, LogTypeOK
<1>2. OnFile' = OnFile /\ BeingSet' = BeingSet /\ (TtlPending' <=> TtlPending)
  BY <1>1 DEF OnFile, File, BeingSet, TtlPending, Writing
<1>3. CallBar' = CallBar
  BY <1>1 DEF CallBar, MayHear
<1>4. MortalBar' = MortalBar
  BY <1>1, <1>2 DEF MortalBar
<1>5. \A k \in DOMAIN data : Expired(data[k].exp, now) => Expired(data[k].exp, now')
  BY <1>1 DEF Expired, RefineInv, TypeInv, Stored, Deadlines
<1>6. GoneBar \subseteq GoneBar'
  BY <1>1, <1>2, <1>5 DEF GoneBar, HasLive, LiveKeys
<1>7. GoneBar' \in SUBSET MortalBar
  <2>1. GoneBar' \subseteq MortalBar'
    BY DEF GoneBar, MortalBar, HasLive, LiveKeys, Expired
  <2> QED
    BY <1>4, <2>1
<1> QED
  BY <1>2, <1>3, <1>4, <1>6, <1>7 DEF Durable!Fade, Durable!Fading

LEMMA CrashCrashes ==
  ASSUME IntactAppends, Crash
  PROVE  Durable!Crash
<1>1. phase' = "down" /\ OnFile' = OnFile
  BY CrashKeepsFile DEF OnFile, File
<1>2. MortalBar' = {} /\ GoneBar' = {}
  BY <1>1 DEF MortalBar, GoneBar
<1>3. \A c \in Conns : pc'[c] = "closed"
  BY DEF Crash
<1>4. CallBar' = [c \in Conns |-> None]
  BY <1>3 DEF CallBar
<1> QED
  BY <1>1, <1>2, <1>4 DEF Durable!Crash, Durable!Idle, None

LEMMA StartUnseen ==
  ASSUME RefineInv, StartUp
  PROVE  UNCHANGED Durable!vars
<1>1. /\ phase # "up" /\ UNCHANGED <<lines, tail, pc, msg>>
      /\ phase' = "up" => pos = Len(File) /\ phase = "recovering" /\ data' = data
  BY DEF StartUp, Restart, Recovering, RecoverLine, RecoverFails, ReadFails, RecoverDone,
     threadVars
<1>2. \A c \in Conns : pc[c] = "closed" /\ pc'[c] = "closed"
  BY <1>1 DEF RefineInv, DurableInv, AliveInv
<1>3. OnFile' = OnFile
  BY <1>1 DEF OnFile, File
<1>4. CallBar' = CallBar
  BY <1>2 DEF CallBar
<1>5. MortalBar = {} /\ GoneBar = {}
  BY <1>1 DEF MortalBar, GoneBar
<1>6. MortalBar' = {} /\ GoneBar' = {}
  <2>1. CASE phase' # "up"
    BY <2>1 DEF MortalBar, GoneBar
  <2>2. CASE phase' = "up"
    <3>1. data' = Lasting(OnFile')
      BY <1>1, <1>3, <2>2 DEF RefineInv, DurableInv, RecoverInv, OnFile
    <3>2. \A k \in DOMAIN OnFile' : k \in DOMAIN data' /\ data'[k].exp = Never
      BY <3>1 DEF Lasting
    <3>3. BeingSet' = {}
      BY <1>2 DEF BeingSet, Writing
    <3>4. \A k \in DOMAIN OnFile' : HasLive(data', k, now')
      BY <3>2 DEF HasLive, LiveKeys, Expired
    <3> QED
      BY <3>2, <3>3, <3>4 DEF MortalBar, GoneBar
  <2> QED
    BY <2>1, <2>2
<1> QED
  BY <1>3, <1>4, <1>5, <1>6 DEF Durable!vars

(* As long as no append is cut in two and the power stays on, the server   *)
(* is linearizable and durable: every command takes effect on the one map  *)
(* of DurableKV.tla at a single instant between its arrival and its answer *)
(* (a write when its record reaches the file, a look when it is made), and *)
(* a kill loses nothing of the map, for any number of connections.         *)
THEOREM ServerImplementsMap ==
  ASSUME IntactAppends
  PROVE  Spec => ImplementsDurableKV
<1>1. Init => Durable!Init
  <2> SUFFICES ASSUME Init PROVE Durable!Init
    OBVIOUS
  <2>1. OnFile = Left[<<>>] /\ phase = "down" /\ \A c \in Conns : pc[c] = "closed"
    BY DEF Init, LogInit, OnFile, File, LinesOf, ReadBack
  <2>2. OnFile = [k \in {} |-> Never]
    <3>1. <<>> \in Seq(AnyRecord) /\ KeysLeft(<<>>) = {}
      BY DEF KeysLeft, KeysIn
    <3> QED
      BY <2>1, <3>1 DEF Left
  <2>3. MortalBar = {} /\ GoneBar = {} /\ CallBar = [c \in Conns |-> None]
    BY <2>1 DEF MortalBar, GoneBar, CallBar
  <2> QED
    BY <2>2, <2>3 DEF Durable!Init, Durable!Idle, None
<1>2. RefineInv /\ RefineInv' /\ [Next]_vars => [Durable!Next]_(Durable!vars)
  <2> SUFFICES ASSUME RefineInv, RefineInv', [Next]_vars
               PROVE  Durable!Next \/ UNCHANGED Durable!vars
    OBVIOUS
  <2>1. ASSUME NEW c \in Conns, ThreadStep(c) \/ ClientStep(c)
        PROVE  Durable!Next \/ UNCHANGED Durable!vars
    <3>1. CASE Connect(c) \/ CloneFails(c) \/ Enter(c) \/ Disconnect(c) \/ Acquire(c)
                 \/ DelHit(c) \/ Leave(c)
      BY <3>1, UnseenSteps
    <3>2. CASE ReadLine(c)
      BY <3>2, ReadInvokes DEF Durable!Next
    <3>3. CASE OpenFails(c)
      BY <3>3, OpenFailsRefuses DEF Durable!Next
    <3>4. CASE Exit(c)
      BY <3>4, ExitFinishes DEF Durable!Next
    <3>5. CASE Send(c) \/ SendFails(c)
      BY <3>5, SendFinishes DEF Durable!Next
    <3>6. CASE Look(c) \/ DelMiss(c)
      BY <3>6, LookLooks DEF Durable!Next
    <3>7. CASE WriteBody(c)
      <4>1. LogTypeOK'
        BY DEF RefineInv, DurableInv, ServerInv
      <4>2. msg[c].op \in {"set", "del"}
        BY <3>7, BodyStarts
      <4> QED
        BY <3>7, <4>1, <4>2, BodySets, BodyDeletes DEF Durable!Next
    <3>8. CASE WriteNewline(c)
      BY <3>8, NewlineUnseen
    <3>9. CASE ApplySet(c)
      <4>1. LogTypeOK'
        BY DEF RefineInv, DurableInv, ServerInv
      <4> QED
        BY <3>9, <4>1, ApplySetSettles DEF Durable!Next
    <3>10. CASE ApplyDel(c)
      BY <3>10, ApplyDelSettles DEF Durable!Next
    <3> QED
      BY <2>1, <3>1, <3>2, <3>3, <3>4, <3>5, <3>6, <3>7, <3>8, <3>9, <3>10, NoTornWrites
         DEF ThreadStep, ClientStep
  <2>2. CASE Tick
    BY <2>2, TickFades DEF Durable!Next
  <2>3. CASE Crash
    BY <2>3, CrashCrashes DEF Durable!Next
  <2>4. CASE StartUp
    BY <2>4, StartUnseen
  <2>5. CASE UNCHANGED vars
    <3>1. UNCHANGED <<lines, tail, phase, data, now, pc, msg>>
      BY <2>5 DEF vars
    <3>2. UNCHANGED <<OnFile, MortalBar, GoneBar>>
      BY <3>1, MapKept
    <3>3. CallBar' = CallBar
      BY <3>1 DEF CallBar, MayHear
    <3> QED
      BY <3>2, <3>3 DEF Durable!vars
  <2> QED
    BY <2>1, <2>2, <2>3, <2>4, <2>5 DEF Next
<1> QED
  BY <1>1, <1>2, RefineInvAlways, PTL DEF Spec, ImplementsDurableKV, Durable!Spec
=============================================================================
