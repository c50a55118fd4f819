---------------------------- MODULE ServerProofs ----------------------------
(***************************************************************************)
(* Theorems about the server of Server.tla, for any number of connections, *)
(* any keys and values, every failure of the file and of the process, and  *)
(* any bound on requests, crashes and time.                                *)
(***************************************************************************)
EXTENDS ServerProps, PersistenceProofs

Places == {"closed", "entering"} \cup Counted

(* The lock and the threads' places say the same: inductive on its own. *)
LockInv ==
  /\ pc \in [Conns -> Places]
  /\ LockCoversExecute

(* At most one thread is inside execute. *)
LEMMA OneHolder ==
  ASSUME LockInv, NEW c \in Conns, NEW d \in Conns,
         pc[c] \in Holding, pc[d] \in Holding
  PROVE  c = d
  BY DEF LockInv, LockCoversExecute

(* A thread that moves between two places on the same side of the lock.    *)
LEMMA MoveKeepsLock ==
  ASSUME LockInv, NEW c \in Conns, NEW p \in Places,
         pc' = [pc EXCEPT ![c] = p], lock' = lock,
         pc[c] \in Holding <=> p \in Holding
  PROVE  LockInv'
  BY DEF LockInv, LockCoversExecute, Places

(* A thread that takes the free mutex and goes inside execute. *)
LEMMA TakeKeepsLock ==
  ASSUME LockInv, NEW c \in Conns, NEW p \in Holding,
         pc' = [pc EXCEPT ![c] = p], lock = NoConn, lock' = c
  PROVE  LockInv'
  BY ServerAssumption DEF LockInv, LockCoversExecute, Places, Counted

(* A thread that drops the mutex and goes outside. *)
LEMMA DropKeepsLock ==
  ASSUME LockInv, NEW c \in Conns, NEW p \in Places \ Holding,
         pc' = [pc EXCEPT ![c] = p], lock = c, lock' = NoConn
  PROVE  LockInv'
  BY ServerAssumption DEF LockInv, LockCoversExecute, Places

LEMMA LockInvInit == Init => LockInv
  BY ServerAssumption DEF Init, LockInv, LockCoversExecute, Places, Holding

LEMMA LockInvStep == LockInv /\ [Next]_vars => LockInv'
<1> SUFFICES ASSUME LockInv, [Next]_vars PROVE LockInv'
  OBVIOUS
<1> USE DEF Goes, Places, Counted, Holding
<1>1. ASSUME NEW c \in Conns, Connect(c) \/ CloneFails(c) \/ Enter(c) \/ ReadLine(c)
                                \/ Disconnect(c) \/ Send(c) \/ SendFails(c) \/ Leave(c)
      PROVE  LockInv'
  <2>1. /\ pc[c] \notin Holding /\ lock' = lock
        /\ \E p \in Places \ Holding : pc' = [pc EXCEPT ![c] = p]
    BY <1>1 DEF Connect, CloneFails, Enter, ReadLine, Disconnect, Send, SendFails,
                Leave, Local
  <2> QED
    BY <2>1, MoveKeepsLock
<1>2. ASSUME NEW c \in Conns, Acquire(c) PROVE LockInv'
  BY <1>2, TakeKeepsLock DEF Acquire
<1>3. ASSUME NEW c \in Conns, DelHit(c) \/ WriteBody(c) \/ WriteNewline(c)
      PROVE  LockInv'
  <2>1. /\ pc[c] \in Holding /\ lock' = lock
        /\ \E p \in Holding : pc' = [pc EXCEPT ![c] = p]
    BY <1>3 DEF DelHit, WriteBody, WriteNewline, AtAppend, Local
  <2> QED
    BY <2>1, MoveKeepsLock
<1>4. ASSUME NEW c \in Conns, Look(c) \/ Exit(c) \/ DelMiss(c) \/ OpenFails(c)
                                \/ TornWrite(c) \/ EndFails(c) \/ ApplySet(c) \/ ApplyDel(c)
      PROVE  LockInv'
  <2>1. /\ lock = c /\ lock' = NoConn
        /\ \E p \in Places \ Holding : pc' = [pc EXCEPT ![c] = p]
    BY <1>4 DEF Look, Exit, DelMiss, OpenFails, TornWrite, EndFails, ApplySet,
                ApplyDel, Reply
  <2> QED
    BY <2>1, DropKeepsLock
<1>5. CASE Crash
  BY <1>5, ServerAssumption DEF Crash, LockInv, LockCoversExecute
<1>6. CASE Tick \/ StartUp \/ UNCHANGED vars
  BY <1>6 DEF Tick, StartUp, threadVars, vars, LockInv, LockCoversExecute
<1> QED
  BY <1>1, <1>2, <1>3, <1>4, <1>5, <1>6 DEF Next, ThreadStep, ClientStep

-----------------------------------------------------------------------------
(* A thread between the lock and its return has a request, and one that    *)
(* has begun to write has a write.                                         *)
WriteInv ==
  /\ DOMAIN msg = Conns
  /\ \A c \in Conns :
       /\ pc[c] \in {"locking"} \cup Holding => msg[c] \in Requests
       /\ pc[c] = "checked" => msg[c].op = "del"
       /\ pc[c] \in {"newline", "apply"} => msg[c].op \in {"set", "del"}

LEMMA RequestFields ==
  ASSUME NEW r \in Requests
  PROVE  /\ r.op = "set" => r.key \in Keys /\ r.value \in Values
                            /\ r.ttl \in Ttls \cup {Never}
         /\ r.op \in {"get", "del"} => r.key \in Keys
         /\ r.op \in {"set", "del"} => RecordOf(r) \in Records
  BY DEF Requests, RecordOf, Records

LEMMA WriteInvStep ==
  LockInv /\ WriteInv /\ [Next]_vars => WriteInv'
<1> SUFFICES ASSUME LockInv, WriteInv, [Next]_vars PROVE WriteInv'
  OBVIOUS
<1> USE DEF LockInv, WriteInv, Goes, Holding
<1>1. ASSUME NEW c \in Conns, Connect(c) \/ CloneFails(c) \/ Enter(c) \/ Disconnect(c)
                                \/ Send(c) \/ SendFails(c) \/ Leave(c) \/ ReadLine(c)
      PROVE  WriteInv'
  BY <1>1 DEF Connect, CloneFails, Enter, Disconnect, Send, SendFails, Leave, ReadLine
<1>2. ASSUME NEW c \in Conns, Look(c) \/ Exit(c) \/ DelMiss(c) \/ OpenFails(c)
                                \/ TornWrite(c) \/ EndFails(c) \/ ApplySet(c) \/ ApplyDel(c)
      PROVE  WriteInv'
  <2>1. \E m : \E p \in {"sending", "leaving"} :
          pc' = [pc EXCEPT ![c] = p] /\ msg' = [msg EXCEPT ![c] = m]
    BY <1>2 DEF Look, Exit, DelMiss, OpenFails, TornWrite, EndFails, ApplySet, ApplyDel,
                Reply
  <2> QED
    BY <2>1
<1>3. ASSUME NEW c \in Conns, Acquire(c) \/ DelHit(c) \/ WriteBody(c) \/ WriteNewline(c)
      PROVE  WriteInv'
  BY <1>3 DEF Acquire, DelHit, WriteBody, WriteNewline, AtAppend
<1>4. CASE Crash
  BY <1>4 DEF Crash
<1>5. CASE Tick \/ StartUp \/ UNCHANGED vars
  BY <1>5 DEF Tick, StartUp, threadVars, vars
<1> QED
  BY <1>1, <1>2, <1>3, <1>4, <1>5 DEF Next, ThreadStep, ClientStep

-----------------------------------------------------------------------------
(* The steps that change the file. *)
FileStep(c) == WriteBody(c) \/ WriteNewline(c) \/ TornWrite(c) \/ EndFails(c)

(* The steps that leave the file and the place of the recovery alone. *)
NoFileStep ==
  UNCHANGED <<lines, tail, phase, pos, writing>>

LEMMA WhoTouchesTheFile ==
  ASSUME [Next]_vars
  PROVE  \/ NoFileStep
         \/ \E c \in Conns : FileStep(c)
         \/ Crash
         \/ StartUp
<1>1. ASSUME NEW c \in Conns, ThreadStep(c), ~ FileStep(c) PROVE NoFileStep
  BY <1>1 DEF ThreadStep, FileStep, NoFileStep, CloneFails, Enter, Acquire, Look, Exit,
              DelMiss, DelHit, ApplySet, ApplyDel, OpenFails, Leave, Local, Quiet, logVars
<1>2. ASSUME NEW c \in Conns, ClientStep(c) PROVE NoFileStep
  BY <1>2 DEF ClientStep, NoFileStep, Connect, ReadLine, Disconnect, Send, SendFails,
              Local, Quiet, logVars
<1>3. CASE Tick \/ UNCHANGED vars
  BY <1>3 DEF Tick, vars, NoFileStep
<1> QED
  BY <1>1, <1>2, <1>3 DEF Next

(* A thread that writes has a record to write. *)
LEMMA WriterHasRecord ==
  ASSUME WriteInv, NEW c \in Conns, AtAppend(c) \/ pc[c] \in {"newline", "apply"}
  PROVE  /\ pc[c] \in Holding /\ msg[c].op \in {"set", "del"}
         /\ msg[c] \in Requests /\ RecordOf(msg[c]) \in Records
<1>1. pc[c] \in Holding /\ msg[c].op \in {"set", "del"}
  BY DEF WriteInv, AtAppend, Holding
<1>2. msg[c] \in Requests
  BY <1>1 DEF WriteInv
<1> QED
  BY <1>1, <1>2, RequestFields

LEMMA LogTypedStep ==
  WriteInv /\ LogTypeOK /\ [Next]_vars => LogTypeOK'
<1> SUFFICES ASSUME WriteInv, LogTypeOK, [Next]_vars PROVE LogTypeOK'
  OBVIOUS
<1>1. now' \in Nat \/ UNCHANGED now
  <2>1. ASSUME NEW c \in Conns, ApplySet(c) PROVE now' \in Nat
    BY <2>1, ServerAssumption DEF ApplySet, LogTypeOK
  <2>2. ASSUME NEW c \in Conns, ThreadStep(c), ~ ApplySet(c) PROVE UNCHANGED now
    BY <2>2 DEF ThreadStep, CloneFails, Enter, Acquire, Look, Exit, DelMiss, DelHit,
         WriteBody, WriteNewline, ApplyDel, OpenFails, TornWrite, EndFails, Leave, Local,
         Quiet, logVars, FileOnly
  <2>3. ASSUME NEW c \in Conns, ClientStep(c) PROVE UNCHANGED now
    BY <2>3 DEF ClientStep, Connect, ReadLine, Disconnect, Send, SendFails, Local, Quiet,
         logVars
  <2>4. Crash \/ StartUp => UNCHANGED now
    BY DEF Crash, Kill, PowerLoss, StartUp, Restart, Recovering, RecoverLine, RecoverFails,
         ReadFails, RecoverDone
  <2>5. Tick \/ UNCHANGED vars => now' \in Nat
    BY DEF Tick, vars, LogTypeOK
  <2> QED
    BY <2>1, <2>2, <2>3, <2>4, <2>5 DEF Next
<1>2. CASE NoFileStep
  BY <1>1, <1>2 DEF NoFileStep, LogTypeOK
<1>3. ASSUME NEW c \in Conns, FileStep(c) PROVE LogTypeOK'
  <2>1. UNCHANGED <<phase, pos, now>>
    BY <1>3 DEF FileStep, WriteBody, WriteNewline, TornWrite, EndFails, FileOnly
  <2>2. RecordOf(msg[c]) \in Records
    BY <1>3, WriterHasRecord DEF FileStep, WriteBody, WriteNewline, TornWrite, EndFails,
         TornBody, AtAppend, WriteInv
  <2>3. AppendBody(RecordOf(msg[c])) \/ TornBody(RecordOf(msg[c]))
          \/ AppendNewline \/ NewlineFails
    BY <1>3 DEF FileStep, WriteBody, WriteNewline, TornWrite, EndFails
  <2> QED
    BY <2>1, <2>2, <2>3, AppendTyped
<1>4. CASE Crash
  BY <1>4, LifeTyped DEF Crash
<1>5. CASE StartUp
  BY <1>5, LifeTyped DEF StartUp
<1> QED
  BY <1>2, <1>3, <1>4, <1>5, WhoTouchesTheFile

-----------------------------------------------------------------------------
(* The counter and the threads that are counted; that they are finitely    *)
(* many is part of what holds, not an assumption about Conns.              *)
CountedConns == {c \in Conns : pc[c] \in Counted}

CountInv == IsFiniteSet(CountedConns) /\ ConnectionsCounted

LEMMA CountInvStep ==
  LockInv /\ CountInv /\ [Next]_vars => CountInv'
<1> SUFFICES ASSUME LockInv, CountInv, [Next]_vars PROVE CountInv'
  OBVIOUS
<1>0. connections = Cardinality(CountedConns) /\ IsFiniteSet(CountedConns)
  BY DEF CountInv, ConnectionsCounted, CountedConns
<1>1. ASSUME NEW c \in Conns, Enter(c) PROVE CountInv'
  <2>1. c \notin CountedConns /\ CountedConns' = CountedConns \cup {c}
    BY <1>1 DEF Enter, Goes, CountedConns, Counted, Holding, LockInv
  <2>2. connections' = connections + 1
    BY <1>1 DEF Enter
  <2> QED
    BY <1>0, <2>1, <2>2, FS_AddElement DEF CountInv, ConnectionsCounted, CountedConns
<1>2. ASSUME NEW c \in Conns, Leave(c) PROVE CountInv'
  <2>1. c \in CountedConns /\ CountedConns' = CountedConns \ {c}
    BY <1>2 DEF Leave, Goes, CountedConns, Counted, Holding, LockInv
  <2>2. connections' = connections - 1
    BY <1>2 DEF Leave
  <2> QED
    BY <1>0, <2>1, <2>2, FS_RemoveElement DEF CountInv, ConnectionsCounted, CountedConns
<1>3. CASE Crash
  <2>1. CountedConns' = {} /\ connections' = 0
    BY <1>3 DEF Crash, CountedConns, Counted, Holding
  <2> QED
    BY <2>1, FS_EmptySet DEF CountInv, ConnectionsCounted, CountedConns
<1>4. ASSUME NEW c \in Conns, ThreadStep(c) \/ ClientStep(c), ~ Enter(c), ~ Leave(c)
      PROVE  CountInv'
  <2>1. /\ \E p \in Places : /\ pc' = [pc EXCEPT ![c] = p]
                             /\ pc[c] \in Counted <=> p \in Counted
        /\ connections' = connections
    BY <1>4 DEF ThreadStep, ClientStep, Connect, CloneFails, ReadLine, Disconnect, Acquire,
         Look, Exit, DelMiss, DelHit, WriteBody, WriteNewline, OpenFails, TornWrite,
         EndFails, ApplySet, ApplyDel, Send, SendFails, AtAppend, Reply, Goes, Local, Quiet,
         FileOnly, Places, Counted, Holding
  <2>2. \A d \in Conns : pc'[d] \in Counted <=> pc[d] \in Counted
    BY <2>1 DEF LockInv
  <2>3. CountedConns' = CountedConns
    BY <2>2 DEF CountedConns
  <2> QED
    BY <1>0, <2>1, <2>3 DEF CountInv, ConnectionsCounted, CountedConns
<1>5. CASE Tick \/ StartUp \/ UNCHANGED vars
  BY <1>5 DEF Tick, StartUp, threadVars, vars, CountInv, ConnectionsCounted, CountedConns
<1> QED
  BY <1>1, <1>2, <1>3, <1>4, <1>5 DEF Next

LEMMA CountInvInit == Init => CountInv
<1> SUFFICES ASSUME Init PROVE CountInv
  OBVIOUS
<1>1. CountedConns = {} /\ connections = 0
  BY DEF Init, CountedConns, Counted, Holding
<1> QED
  BY <1>1, FS_EmptySet DEF CountInv, ConnectionsCounted, CountedConns

-----------------------------------------------------------------------------
LEMMA EndsWithAppended ==
  ASSUME NEW s \in Text, NEW t \in Text
  PROVE  EndsWith(s \o t, t)
<1> DEFINE j == s \o t
<1>1. /\ j \in Seq(Symbols) /\ Len(j) = Len(s) + Len(t)
      /\ \A i \in 1 .. Len(t) : j[Len(s) + i] = t[i]
      /\ Len(s) \in Nat /\ Len(t) \in Nat
  BY ConcatProperties DEF Text
<1> HIDE DEF j
<1>2. \A i \in Len(s) + 1 .. Len(j) : j[i] \in Symbols
  BY <1>1, ElementOfSeq
<1>3. /\ SubSeq(j, Len(s) + 1, Len(j)) \in Seq(Symbols)
      /\ Len(SubSeq(j, Len(s) + 1, Len(j))) = Len(t)
      /\ \A i \in 1 .. Len(t) : SubSeq(j, Len(s) + 1, Len(j))[i] = j[Len(s) + i]
  BY <1>1, <1>2, SubSeqProperties
<1>4. SubSeq(j, Len(s) + 1, Len(j)) = t
  BY <1>1, <1>3, SeqEqual DEF Text
<1>5. Len(j) - Len(t) + 1 = Len(s) + 1 /\ Len(j) >= Len(t)
  BY <1>1
<1> QED
  BY <1>4, <1>5 DEF EndsWith, j

(* The record of the thread that writes is what the file ends with, before *)
(* its line end and after it.                                              *)
LogFirstInv ==
  /\ \A c \in Conns : pc[c] = "newline" => EndsWith(tail, ToLine(RecordOf(msg[c])))
  /\ LoggedBeforeApplied

(* No thread comes to its second write, or past it, without writing. *)
LEMMA WritersStay ==
  ASSUME LockInv, WriteInv, [Next]_vars, NoFileStep,
         ~ (\E c \in Conns : FileStep(c)), ~ Crash,
         NEW d \in Conns, pc'[d] \in {"newline", "apply"}
  PROVE  pc[d] = pc'[d] /\ msg'[d] = msg[d]
<1> USE DEF LockInv, WriteInv, Goes
<1>1. ASSUME NEW c \in Conns, ThreadStep(c)
      PROVE  pc[d] = pc'[d] /\ msg'[d] = msg[d]
  BY <1>1 DEF ThreadStep, FileStep, CloneFails, Enter, Acquire, Look, Exit, DelMiss, DelHit,
       ApplySet, ApplyDel, OpenFails, Leave, Reply
<1>2. ASSUME NEW c \in Conns, ClientStep(c)
      PROVE  pc[d] = pc'[d] /\ msg'[d] = msg[d]
  BY <1>2 DEF ClientStep, Connect, ReadLine, Disconnect, Send, SendFails
<1>3. CASE Tick \/ StartUp \/ UNCHANGED vars
  BY <1>3 DEF Tick, StartUp, threadVars, vars
<1> QED
  BY <1>1, <1>2, <1>3 DEF Next

LEMMA LogFirstStep ==
  LogTypeOK /\ LockInv /\ WriteInv /\ LogFirstInv /\ [Next]_vars => LogFirstInv'
<1> SUFFICES ASSUME LogTypeOK, LockInv, WriteInv, LogFirstInv, [Next]_vars
             PROVE  LogFirstInv'
  OBVIOUS
<1>1. CASE Crash
  BY <1>1 DEF Crash, LogFirstInv, LoggedBeforeApplied
<1>2. ASSUME NEW c \in Conns, FileStep(c) PROVE LogFirstInv'
  <2>1. pc[c] \in Holding
    BY <1>2 DEF FileStep, WriteBody, WriteNewline, TornWrite, EndFails, TornBody, AtAppend,
         Holding
  <2>2. \A d \in Conns : d # c => pc[d] \notin Holding
    BY <2>1, OneHolder
  <2>3. \E p \in {"newline", "apply", "sending"} : \E m :
          pc' = [pc EXCEPT ![c] = p] /\ msg' = [msg EXCEPT ![c] = m]
    BY <1>2 DEF FileStep, WriteBody, WriteNewline, TornWrite, EndFails, Reply, Goes
  <2>4. \A d \in Conns : d # c => pc'[d] \notin {"newline", "apply"}
    BY <2>2, <2>3 DEF LockInv, Holding
  <2>5. CASE WriteBody(c)
    <3>1. pc'[c] = "newline" /\ msg'[c] = msg[c] /\ tail' = tail \o ToLine(RecordOf(msg[c]))
      BY <2>5 DEF WriteBody, Goes, AppendBody, LockInv, WriteInv
    <3>2. ToLine(RecordOf(msg[c])) \in Text
      BY <2>5, WriterHasRecord, RecordsHaveText DEF WriteBody
    <3>3. EndsWith(tail', ToLine(RecordOf(msg'[c])))
      BY <3>1, <3>2, EndsWithAppended DEF LogTypeOK
    <3> QED
      BY <2>4, <3>1, <3>3 DEF LogFirstInv, LoggedBeforeApplied
  <2>6. CASE WriteNewline(c)
    <3>1. /\ pc[c] = "newline" /\ pc'[c] = "apply" /\ msg'[c] = msg[c]
          /\ lines' = Append(lines, tail) /\ tail' = <<>>
      BY <2>6 DEF WriteNewline, Goes, AppendNewline, LockInv, WriteInv
    <3>2. lines' # <<>> /\ lines'[Len(lines')] = tail
      BY <3>1 DEF LogTypeOK
    <3>3. EndsWith(lines'[Len(lines')], ToLine(RecordOf(msg'[c])))
      BY <3>1, <3>2 DEF LogFirstInv
    <3> QED
      BY <2>4, <3>1, <3>2, <3>3 DEF LogFirstInv, LoggedBeforeApplied
  <2>7. CASE TornWrite(c) \/ EndFails(c)
    <3>1. pc'[c] = "sending"
      BY <2>7 DEF TornWrite, EndFails, Reply, Goes, LockInv
    <3> QED
      BY <2>4, <3>1 DEF LogFirstInv, LoggedBeforeApplied
  <2> QED
    BY <1>2, <2>5, <2>6, <2>7 DEF FileStep
<1>3. CASE NoFileStep /\ ~ (\E c \in Conns : FileStep(c)) /\ ~ Crash
  <2>1. lines' = lines /\ tail' = tail
    BY <1>3 DEF NoFileStep
  <2>2. \A d \in Conns : pc'[d] \in {"newline", "apply"} => pc[d] = pc'[d] /\ msg'[d] = msg[d]
    BY <1>3, WritersStay
  <2> QED
    BY <2>1, <2>2 DEF LogFirstInv, LoggedBeforeApplied
<1>4. CASE StartUp
  <2>1. UNCHANGED <<lines, tail, pc, msg>>
    BY <1>4 DEF StartUp, Restart, Recovering, RecoverLine, RecoverFails, ReadFails,
         RecoverDone, threadVars
  <2> QED
    BY <2>1 DEF LogFirstInv, LoggedBeforeApplied
<1> QED
  BY <1>1, <1>2, <1>3, <1>4, WhoTouchesTheFile

-----------------------------------------------------------------------------
(* The invariant: each part is what the next one's steps lean on. *)
ServerInv == LogTypeOK /\ LockInv /\ WriteInv /\ CountInv /\ LogFirstInv

LEMMA ServerInvInit == Init => ServerInv
<1> SUFFICES ASSUME Init PROVE ServerInv
  OBVIOUS
<1>1. LogTypeOK
  BY DEF Init, LogInit, LogTypeOK, Text
<1>2. WriteInv /\ LogFirstInv
  BY DEF Init, WriteInv, Holding, LogFirstInv, LoggedBeforeApplied
<1> QED
  BY <1>1, <1>2, LockInvInit, CountInvInit DEF ServerInv

LEMMA ServerInvStep == ServerInv /\ [Next]_vars => ServerInv'
  BY LogTypedStep, LockInvStep, WriteInvStep, CountInvStep, LogFirstStep DEF ServerInv

LEMMA ServerInvAlways == Spec => []ServerInv
  BY ServerInvInit, ServerInvStep, PTL DEF Spec

-----------------------------------------------------------------------------
(* What memory holds: finitely many keys, each with a value and a deadline *)
(* that is a reading of the clock or none.                                 *)
Deadlines == Nat \cup {Never}

Stored(d) ==
  /\ IsFiniteSet(DOMAIN d) /\ DOMAIN d \subseteq Text
  /\ \A k \in DOMAIN d : d[k].value \in Text /\ d[k].exp \in Deadlines

LEMMA NothingStored == Stored(EmptyMap)
  BY FS_EmptySet DEF Stored, EmptyMap

LEMMA SetStored ==
  ASSUME NEW d, Stored(d), NEW k \in Text, NEW v \in Text, NEW ttl \in Deadlines,
         NEW t1, NEW t2 \in Nat
  PROVE  Stored(SetEntry(d, k, v, ttl, t1, t2))
<1> DEFINE s == SweepExpired(d, t1)
           new == SetEntry(d, k, v, ttl, t1, t2)
<1>1. DOMAIN s \subseteq DOMAIN d /\ \A x \in DOMAIN s : s[x] = d[x]
  BY DEF SweepExpired, Restrict, LiveKeys
<1>2. IsFiniteSet(DOMAIN s \cup {k})
  BY <1>1, FS_Subset, FS_AddElement DEF Stored
<1>3. Deadline(ttl, t2) \in Deadlines
  BY DEF Deadline, Deadlines
<1>4. /\ DOMAIN new = DOMAIN s \cup {k}
      /\ \A x \in DOMAIN new :
           new[x] = IF x = k THEN [value |-> v, exp |-> Deadline(ttl, t2)] ELSE s[x]
  BY DEF SetEntry, Insert
<1> HIDE DEF s, new
<1>5. Stored(new)
  BY <1>1, <1>2, <1>3, <1>4 DEF Stored
<1> QED
  BY <1>5 DEF new

LEMMA DeleteStored ==
  ASSUME NEW d, Stored(d), NEW k, NEW t
  PROVE  Stored(DeleteEntry(d, k, t))
<1>1. IsFiniteSet(DOMAIN d \ {k})
  BY FS_RemoveElement DEF Stored
<1> QED
  BY <1>1 DEF DeleteEntry, Restrict, Stored

(* One turn of recover's loop, whatever record the line holds. *)
LEMMA ReplayStored ==
  ASSUME NEW d, Stored(d), NEW r \in AnyRecord \ {Unreadable}, NEW t \in Nat
  PROVE  Stored(Replay(d, r, t))
<1>1. CASE r.op = "set"
  <2>1. r.key \in Text /\ r.value \in Text
    BY <1>1 DEF AnyRecord
  <2>2. Never \in Deadlines
    BY DEF Deadlines
  <2> QED
    BY <1>1, <2>1, <2>2, SetStored DEF Replay
<1>2. CASE r.op # "set"
  BY <1>2, DeleteStored DEF Replay
<1> QED
  BY <1>1, <1>2

LEMMA TtlIsDeadline ==
  ASSUME NEW ttl \in Ttls \cup {Never} PROVE ttl \in Deadlines
  BY ServerAssumption DEF Deadlines

LEMMA StoredStep ==
  ASSUME ServerInv, Stored(data), [Next]_vars
  PROVE  Stored(data')
<1>0. LogTypeOK /\ LogTypeOK' /\ WriteInv
  BY ServerInvStep DEF ServerInv
<1>1. ASSUME NEW c \in Conns, ApplySet(c) PROVE Stored(data')
  <2>1. PICK r : r = msg[c]
    OBVIOUS
  <2>2. r \in Requests /\ r.op = "set"
    BY <1>0, <1>1, <2>1 DEF ApplySet, WriteInv, Holding
  <2>3. r.key \in Text /\ r.value \in Text /\ r.ttl \in Deadlines
    BY <2>2, RequestFields, LogAssumption, TtlIsDeadline
  <2>4. data' = SetEntry(data, r.key, r.value, r.ttl, now, now') /\ now' \in Nat
    BY <1>0, <1>1, <2>1 DEF ApplySet, LogTypeOK
  <2> QED
    BY <2>3, <2>4, SetStored
<1>2. ASSUME NEW c \in Conns, ApplyDel(c) PROVE Stored(data')
  BY <1>2, DeleteStored DEF ApplyDel
<1>3. CASE RecoverLine
  <2>1. /\ FromLine[File[pos + 1]] # Unreadable /\ pos + 1 \in 1 .. Len(File)
        /\ data' = Replay(data, FromLine[File[pos + 1]], now) /\ File \in Seq(Text)
    BY <1>0, <1>3, FileIsText DEF RecoverLine, LogTypeOK
  <2>2. FromLine[File[pos + 1]] \in AnyRecord \ {Unreadable}
    BY <2>1, ElementOfSeq, FromLineTyped
  <2> QED
    BY <1>0, <2>1, <2>2, ReplayStored DEF LogTypeOK
<1>4. Crash \/ Restart => data' = EmptyMap
  BY DEF Crash, Kill, PowerLoss, LoseMemory, Restart
<1>5. ASSUME NEW c \in Conns, ThreadStep(c) \/ ClientStep(c), ~ ApplySet(c), ~ ApplyDel(c)
      PROVE  data' = data
  BY <1>5 DEF ThreadStep, ClientStep, Connect, CloneFails, Enter, ReadLine, Disconnect,
       Acquire, Look, Exit, DelMiss, DelHit, WriteBody, WriteNewline, OpenFails, TornWrite,
       EndFails, Send, SendFails, Leave, Local, Quiet, FileOnly, logVars
<1>6. Tick \/ RecoverFails \/ ReadFails \/ RecoverDone \/ UNCHANGED vars => data' = data
  BY DEF Tick, RecoverFails, ReadFails, RecoverDone, vars
<1> QED
  BY <1>1, <1>2, <1>3, <1>4, <1>5, <1>6, NothingStored DEF Next, StartUp, Recovering

(* A thread that is to send has a reply to send. *)
ReplyInv == \A c \in Conns : pc[c] = "sending" => msg[c] \in Replies

(* Whatever a command that only looks answers is one of the replies: the   *)
(* keys it lists are finitely many texts, the counters are numbers.        *)
LEMMA AnswerIsReply ==
  ASSUME Stored(data), connections \in Nat, commands \in Nat,
         NEW r \in Requests, r.op \in {"get", "list", "status", "ping"}
  PROVE  Answer(r) \in Replies
<1>1. CASE r.op = "get"
  <2>1. r.key \in Text
    BY <1>1, RequestFields, LogAssumption
  <2>2. HasLive(data, r.key, now) => data[r.key].value \in Text
    BY DEF HasLive, LiveKeys, Stored
  <2> QED
    BY <1>1, <2>1, <2>2 DEF Answer, Replies
<1>2. CASE r.op = "list"
  <2>1. LiveKeys(data, now) \in SUBSET Text
    BY DEF LiveKeys, Stored
  <2> QED
    BY <1>2, <2>1 DEF Answer, Replies
<1>3. CASE r.op = "status"
  <2>1. Cardinality(LiveKeys(data, now)) \in Nat
    BY FS_Subset, FS_CardinalityType DEF LiveKeys, Stored
  <2> QED
    BY <1>3, <2>1 DEF Answer, Replies
<1>4. CASE r.op = "ping"
  BY <1>4 DEF Answer, Replies
<1> QED
  BY <1>1, <1>2, <1>3, <1>4

(* The rest of the types: the lock, the replies, the counters that only    *)
(* grow, and what the clients were promised.                               *)
TypeInv ==
  /\ ServerInv /\ Stored(data) /\ ReplyInv
  /\ lock \in Conns \cup {NoConn}
  /\ commands \in Nat /\ requests \in Nat /\ crashes \in 0 .. MaxCrashes
  /\ promised \in [Keys -> SUBSET (Values \cup {Missing})]

LEMMA CountersAreNumbers == ServerInv => connections \in Nat
  BY FS_CardinalityType DEF ServerInv, CountInv, ConnectionsCounted, CountedConns

LEMMA ReplyStep ==
  ASSUME TypeInv, [Next]_vars
  PROVE  ReplyInv'
<1>0. LockInv /\ WriteInv /\ ReplyInv /\ DOMAIN msg = Conns
  BY DEF TypeInv, ServerInv, WriteInv
<1> USE DEF LockInv, ReplyInv, Goes
<1>1. ASSUME NEW c \in Conns, Look(c) PROVE ReplyInv'
  <2>1. Answer(msg[c]) \in Replies
    BY <1>0, <1>1, AnswerIsReply, CountersAreNumbers DEF Look, TypeInv, WriteInv, Holding
  <2> QED
    BY <1>0, <1>1, <2>1 DEF Look, Reply
<1>2. ASSUME NEW c \in Conns,
             DelMiss(c) \/ OpenFails(c) \/ TornWrite(c) \/ EndFails(c) \/ ApplySet(c)
               \/ ApplyDel(c)
      PROVE  ReplyInv'
  <2>1. \E m \in {Ok, NotFound, Error} : Reply(c, m)
    BY <1>2 DEF DelMiss, OpenFails, TornWrite, EndFails, ApplySet, ApplyDel
  <2> QED
    BY <1>0, <2>1 DEF Reply, Replies
<1>3. ASSUME NEW c \in Conns,
             CloneFails(c) \/ Enter(c) \/ Acquire(c) \/ Exit(c) \/ DelHit(c)
               \/ WriteBody(c) \/ WriteNewline(c) \/ Leave(c) \/ Connect(c)
               \/ Disconnect(c) \/ Send(c) \/ SendFails(c)
      PROVE  ReplyInv'
  <2>1. \E p \in Places \ {"sending"} : \E m : Goes(c, p, m)
    BY <1>3 DEF CloneFails, Enter, Acquire, Exit, DelHit, WriteBody, WriteNewline, Leave,
         Connect, Disconnect, Send, SendFails, Places, Counted, Holding
  <2> QED
    BY <1>0, <2>1
<1>4. ASSUME NEW c \in Conns, ReadLine(c) PROVE ReplyInv'
  BY <1>0, <1>4 DEF ReadLine, Replies
<1>5. CASE Crash
  BY <1>5 DEF Crash
<1>6. CASE Tick \/ StartUp \/ UNCHANGED vars
  BY <1>0, <1>6 DEF Tick, StartUp, threadVars, vars
<1> QED
  BY <1>1, <1>2, <1>3, <1>4, <1>5, <1>6 DEF Next, ThreadStep, ClientStep

LEMMA SharedStep ==
  ASSUME TypeInv, [Next]_vars
  PROVE  /\ lock' \in Conns \cup {NoConn}
         /\ commands' \in Nat /\ requests' \in Nat
<1>1. /\ lock' \in {lock, NoConn} \cup Conns
      /\ commands' \in {commands, commands + 1, 0}
      /\ requests' \in {requests, requests + 1}
  <2>1. ASSUME NEW c \in Conns, ThreadStep(c)
        PROVE  /\ lock' \in {lock, NoConn, c} /\ commands' \in {commands, commands + 1}
               /\ requests' = requests
    BY <2>1 DEF ThreadStep, CloneFails, Enter, Acquire, Look, Exit, DelMiss, DelHit,
         WriteBody, WriteNewline, OpenFails, TornWrite, EndFails, ApplySet, ApplyDel, Leave,
         Reply, Local, Quiet, FileOnly
  <2>2. ASSUME NEW c \in Conns, ClientStep(c)
        PROVE  UNCHANGED <<lock, commands>> /\ requests' \in {requests, requests + 1}
    BY <2>2 DEF ClientStep, Connect, ReadLine, Disconnect, Send, SendFails, Local, Quiet
  <2>3. CASE Crash
    BY <2>3 DEF Crash
  <2>4. CASE Tick \/ StartUp \/ UNCHANGED vars
    BY <2>4 DEF Tick, StartUp, threadVars, vars
  <2> QED
    BY <2>1, <2>2, <2>3, <2>4 DEF Next
<1> QED
  BY <1>1 DEF TypeInv

LEMMA HistoryStep ==
  ASSUME TypeInv, [Next]_vars
  PROVE  /\ crashes' \in 0 .. MaxCrashes
         /\ promised' \in [Keys -> SUBSET (Values \cup {Missing})]
<1>0. WriteInv /\ crashes \in 0 .. MaxCrashes /\ MaxCrashes \in Nat
  BY ServerAssumption DEF TypeInv, ServerInv
<1>1. ASSUME NEW c \in Conns, WriteBody(c) \/ ApplySet(c) \/ ApplyDel(c)
      PROVE  /\ crashes' = crashes
             /\ promised' \in [Keys -> SUBSET (Values \cup {Missing})]
  <2>1. PICK r : r = msg[c]
    OBVIOUS
  <2>2. r \in Requests /\ r.op \in {"set", "del"}
    BY <1>0, <1>1, <2>1, WriterHasRecord DEF WriteBody, ApplySet, ApplyDel
  <2>3. /\ r.key \in Keys /\ Wanted(r) \in Values \cup {Missing}
        /\ r.op = "set" => r.value \in Values
    BY <2>2, RequestFields DEF Wanted
  <2>4. /\ \/ promised' = [promised EXCEPT ![r.key] = @ \cup {Wanted(r)}]
           \/ r.op = "set" /\ promised' = [promised EXCEPT ![r.key] = {r.value}]
           \/ promised' = [promised EXCEPT ![r.key] = {Missing}]
        /\ crashes' = crashes
    BY <1>1, <2>1 DEF WriteBody, ApplySet, ApplyDel, FileOnly
  <2>5. promised[r.key] \subseteq Values \cup {Missing}
    BY <2>3 DEF TypeInv
  <2> QED
    BY <2>3, <2>4, <2>5 DEF TypeInv
<1>2. ASSUME NEW c \in Conns, ThreadStep(c) \/ ClientStep(c),
             ~ WriteBody(c), ~ ApplySet(c), ~ ApplyDel(c)
      PROVE  UNCHANGED <<crashes, promised>>
  BY <1>2 DEF ThreadStep, ClientStep, Connect, CloneFails, Enter, ReadLine, Disconnect,
       Acquire, Look, Exit, DelMiss, DelHit, WriteNewline, OpenFails, TornWrite,
       EndFails, Send, SendFails, Leave, Local, Quiet, FileOnly, historyVars
<1>3. CASE Crash
  BY <1>0, <1>3 DEF Crash, TypeInv
<1>4. Tick \/ StartUp \/ UNCHANGED vars => UNCHANGED <<crashes, promised>>
  BY DEF Tick, StartUp, historyVars, vars
<1> QED
  BY <1>1, <1>2, <1>3, <1>4 DEF Next, TypeInv

LEMMA TypeInvAlways == Spec => []TypeInv
<1>1. Init => TypeInv
  <2>1. Init => /\ crashes \in 0 .. MaxCrashes
                /\ promised \in [Keys -> SUBSET (Values \cup {Missing})]
    BY ServerAssumption DEF Init
  <2> QED
    BY <2>1, ServerInvInit, NothingStored DEF Init, LogInit, TypeInv, ReplyInv
<1>2. TypeInv /\ [Next]_vars => TypeInv'
  BY ServerInvStep, StoredStep, ReplyStep, SharedStep, HistoryStep DEF TypeInv
<1> QED
  BY <1>1, <1>2, PTL DEF Spec

(* Whatever the threads, the clients and the failures do, each thread has  *)
(* a request while it waits for the mutex or holds it and a reply of the   *)
(* protocol when it is to send, the store holds texts with a deadline or   *)
(* none, and the counters stay numbers.                                    *)
THEOREM ServerTypes == Spec => []ServerTypeOK
<1>1. TypeInv => ServerTypeOK
  <2> SUFFICES ASSUME TypeInv PROVE ServerTypeOK
    OBVIOUS
  <2>1. \A k \in DOMAIN data :
          k \in Text /\ data[k].value \in Text /\ data[k].exp \in Nat \cup {Never}
    BY DEF TypeInv, Stored, Deadlines
  <2> QED
    BY <2>1, CountersAreNumbers DEF TypeInv, ServerInv, LockInv, WriteInv, ReplyInv,
       ServerTypeOK, Places
<1> QED
  BY <1>1, TypeInvAlways, PTL

-----------------------------------------------------------------------------
(* The mutex is held by exactly the thread inside execute, however many    *)
(* connections there are and whichever of its returns execute takes.       *)
THEOREM LockHeld == Spec => []LockCoversExecute
<1>1. ServerInv => LockCoversExecute
  BY DEF ServerInv, LockInv
<1> QED
  BY <1>1, ServerInvAlways, PTL

(* The connection counter is the number of connections that have entered   *)
(* and not left, whichever of its exits a thread takes.                    *)
THEOREM CounterExact == Spec => []ConnectionsCounted
<1>1. ServerInv => ConnectionsCounted
  BY DEF ServerInv, CountInv
<1> QED
  BY <1>1, ServerInvAlways, PTL

(* A write that is about to reach memory is at the end of the file, ended. *)
THEOREM LogComesFirst == Spec => []LoggedBeforeApplied
<1>1. ServerInv => LoggedBeforeApplied
  BY DEF ServerInv, LogFirstInv
<1> QED
  BY <1>1, ServerInvAlways, PTL

(* What is left of a store when its expired entries are dropped and k is   *)
(* set or removed: every other entry that can still be read, as it was.    *)
LEMMA OthersKept ==
  ASSUME Stored(data), NEW own, NEW v, NEW ttl, NEW t \in Nat, NEW t2 \in Nat, t <= t2,
         NEW d, d = SetEntry(data, own, v, ttl, t, t2) \/ d = DeleteEntry(data, own, t)
  PROVE  \A k \in (LiveKeys(data, t2) \cup DOMAIN d) \ {own} :
           k \in DOMAIN data \cap DOMAIN d /\ d[k] = data[k]
<1>1. LiveKeys(data, t2) \subseteq LiveKeys(data, t) /\ LiveKeys(data, t) \subseteq DOMAIN data
  BY DEF LiveKeys, Expired, Stored, Deadlines
<1>2. CASE d = DeleteEntry(data, own, t)
  BY <1>1, <1>2 DEF DeleteEntry, Restrict
<1>3. CASE d = SetEntry(data, own, v, ttl, t, t2)
  BY <1>1, <1>3 DEF SetEntry, Insert, SweepExpired, Restrict
<1> QED
  BY <1>2, <1>3

(* While the server runs, memory changes only in the step that answers a   *)
(* write with OK, or a DEL whose key has expired meanwhile, and then for   *)
(* that key alone: a write that is refused touches memory in none of its   *)
(* steps.                                                                  *)
THEOREM RefusalsKeepMemory == Spec => RefusedWritesKeepMemory
<1> DEFINE Kept ==
      phase = "up" /\ phase' = "up" /\ data' # data =>
        \E c \in Conns :
          LET own == msg[c].key
          IN  /\ pc[c] = "apply" /\ pc'[c] = "sending"
              /\ \/ msg'[c] = Ok
                 \/ msg[c].op = "del" /\ ~HasLive(data, own, now)
              /\ \A k \in (LiveKeys(data, now') \cup DOMAIN data') \ {own} :
                   k \in DOMAIN data \cap DOMAIN data' /\ data'[k] = data[k]
<1>1. TypeInv /\ [Next]_vars => [Kept]_vars
  <2> SUFFICES ASSUME TypeInv, [Next]_vars PROVE Kept
    OBVIOUS
  <2>1. /\ LockInv /\ DOMAIN msg = Conns /\ DOMAIN pc = Conns
        /\ Stored(data) /\ now \in Nat
    BY DEF TypeInv, ServerInv, WriteInv, LockInv, LogTypeOK
  <2>2. ASSUME NEW d \in Conns, ApplySet(d) PROVE Kept
    <3>1. now' \in Nat /\ now <= now'
      BY <2>1, <2>2, ServerAssumption DEF ApplySet
    <3>2. data' = SetEntry(data, msg[d].key, msg[d].value, msg[d].ttl, now, now')
      BY <2>2 DEF ApplySet
    <3>3. pc[d] = "apply" /\ pc'[d] = "sending" /\ msg'[d] = Ok
      BY <2>1, <2>2 DEF ApplySet, Reply, Goes
    <3>4. \A k \in (LiveKeys(data, now') \cup DOMAIN data') \ {msg[d].key} :
            k \in DOMAIN data \cap DOMAIN data' /\ data'[k] = data[k]
      BY <2>1, <3>1, <3>2, OthersKept
    <3> QED
      BY <3>3, <3>4
  <2>3. ASSUME NEW d \in Conns, ApplyDel(d) PROVE Kept
    <3>1. now' = now /\ data' = DeleteEntry(data, msg[d].key, now)
      BY <2>3 DEF ApplyDel
    <3>2. /\ pc[d] = "apply" /\ pc'[d] = "sending" /\ msg[d].op = "del"
          /\ msg'[d] = Ok \/ ~HasLive(data, msg[d].key, now)
      BY <2>1, <2>3 DEF ApplyDel, Reply, Goes
    <3>3. \A k \in (LiveKeys(data, now') \cup DOMAIN data') \ {msg[d].key} :
            k \in DOMAIN data \cap DOMAIN data' /\ data'[k] = data[k]
      BY <2>1, <3>1, OthersKept
    <3> QED
      BY <3>2, <3>3
  <2>4. ASSUME NEW d \in Conns, ThreadStep(d) \/ ClientStep(d), ~ ApplySet(d), ~ ApplyDel(d)
        PROVE  data' = data
    BY <2>4 DEF ThreadStep, ClientStep, Connect, CloneFails, Enter, ReadLine, Disconnect,
         Acquire, Look, Exit, DelMiss, DelHit, WriteBody, WriteNewline, OpenFails, TornWrite,
         EndFails, Send, SendFails, Leave, Local, Quiet, FileOnly, logVars
  <2>5. Crash => phase' = "down"
    BY DEF Crash, Kill, PowerLoss, LoseMemory
  <2>6. StartUp => phase # "up"
    BY DEF StartUp, Restart, Recovering, RecoverLine, RecoverFails, ReadFails, RecoverDone
  <2>7. Tick \/ UNCHANGED vars => UNCHANGED data
    BY DEF Tick, vars
  <2> QED
    BY <2>2, <2>3, <2>4, <2>5, <2>6, <2>7 DEF Next
<1> QED
  BY <1>1, TypeInvAlways, PTL DEF Spec, RefusedWritesKeepMemory
=============================================================================
