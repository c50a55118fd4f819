---------------------------- MODULE ServerProps -----------------------------
(***************************************************************************)
(* What is checked of the server: how its lock, its log and its memory     *)
(* hang together, what a restart keeps, and that its clients cannot tell   *)
(* it from the one durable map of DurableKV.tla.                           *)
(***************************************************************************)
EXTENDS Server

(* The map a restart on the file as it stands would bring back. *)
OnFile == Left[ReadBack(File, Len(File))]

(* The threads, at most one, whose write is in the file and not in memory. *)
Writing == {c \in Conns : pc[c] \in {"newline", "apply"}}

-----------------------------------------------------------------------------
(* Every connection that has been counted and has not left is in the       *)
(* counter exactly once, whichever of the loop's exits its thread took     *)
(* (end of file, EXIT, a failed send), so STATUS never drifts or wraps.    *)
ConnectionsCounted ==
  connections = Cardinality({c \in Conns : pc[c] \in Counted})

(* The mutex is held by exactly the thread that is inside execute: two     *)
(* commands never overlap, and no thread keeps it while it reads or sends. *)
LockCoversExecute == \A c \in Conns : (pc[c] \in Holding) <=> (lock = c)

(* Memory is never touched before the log: when a write reaches the store, *)
(* the text of its record is already in the file, ended, as the end of the *)
(* last line, and no other append has come in between.                     *)
EndsWith(s, t) == Len(s) >= Len(t) /\ SubSeq(s, Len(s) - Len(t) + 1, Len(s)) = t

LoggedBeforeApplied ==
  \A c \in Conns : pc[c] = "apply" =>
    /\ lines # <<>> /\ tail = <<>>
    /\ EndsWith(lines[Len(lines)], ToLine(RecordOf(msg[c])))

(* While the server runs, memory changes in one step only: the one that    *)
(* answers a write with OK, or a DEL whose key has expired meanwhile.  So  *)
(* a write that is refused, wherever its append failed, has not touched    *)
(* memory in any of its steps; and a write that is accepted touches no     *)
(* other key that can still be read.                                       *)
RefusedWritesKeepMemory ==
  [][phase = "up" /\ phase' = "up" /\ data' # data =>
       \E c \in Conns :
         LET own == msg[c].key
         IN  /\ pc[c] = "apply" /\ pc'[c] = "sending"
             /\ \/ msg'[c] = Ok
                \/ msg[c].op = "del" /\ ~HasLive(data, own, now)
             /\ \A k \in (LiveKeys(data, now') \cup DOMAIN data') \ {own} :
                  k \in DOMAIN data \cap DOMAIN data' /\ data'[k] = data[k]]_vars

(* What memory shows is in the log: as long as every line of the file is   *)
(* the line of one command, each key a client can read now would come back *)
(* with the same value if the process died this instant.  No write, failed *)
(* open, crash or replay puts memory ahead of the log (execute_inner's     *)
(* order of append and set, and recover's replay).                         *)
WholeLines ==
  /\ \A i \in DOMAIN lines : \E r \in Records : lines[i] = ToLine(r)
  /\ tail = IF writing = NoRecord THEN <<>> ELSE ToLine(writing)

BeingWritten == {msg[c].key : c \in Writing}

MemoryOnFile ==
  phase = "up" /\ WholeLines =>
    LET kept == OnFile
    IN  \A k \in LiveKeys(data, now) \ BeingWritten :
          k \in DOMAIN kept /\ kept[k] = data[k].value

(* Once a write has been answered OK, a restart at any later moment, with  *)
(* the process killed wherever it stands, gives the key that value, or one *)
(* of a write that came after it ("保证客户端收到成功时数据已可靠落盘，    *)
(* 重启不丢失", src/server.rs:63).                                         *)
AckedSurvives ==
  /\ Readable(File)
  /\ LET kept == OnFile
     IN  \A k \in Keys :
           (IF k \in DOMAIN kept THEN kept[k] ELSE Missing) \in promised[k]

(* A SET that has been answered OK, with no later write of its key, is     *)
(* what a restart would bring back now (the same comment at                *)
(* src/server.rs:63).  It fails when a kill has cut an earlier append: the *)
(* next record is written behind what is left of that line.                *)
OkSurvives ==
  \A k \in Keys, v \in Values :
    promised[k] = {v} => Readable(File) /\ k \in DOMAIN OnFile /\ OnFile[k] = v

-----------------------------------------------------------------------------
(* Fairness: the operating system runs every thread that can go on, and    *)
(* the starting process.  Nothing is assumed of a client: it may never     *)
(* send a line nor take its reply.  Nobody has to restart the server.      *)
FairSpec ==
  /\ Spec
  /\ \A c \in Conns : WF_vars(ThreadStep(c))
  /\ WF_vars(Recovering /\ UNCHANGED <<threadVars, historyVars>>)

(* A thread stops for good only where it waits for its own client: no      *)
(* silent client keeps another one's command, arrival or departure from    *)
(* going through ("等待网络输入和发送响应时都不持锁", src/server.rs:316).  *)
ThreadsProceed ==
  \A c \in Conns : pc[c] \in {"entering", "locking", "leaving"} \cup Holding
                    ~> pc[c] \in {"closed", "reading", "sending"}

(* A start ends, with a server that accepts or with an error and an exit,  *)
(* whatever an earlier failure has left in the file.                       *)
StartEnds == phase = "recovering" ~> phase # "recovering"

-----------------------------------------------------------------------------
(* The server as the one map its clients see.  The map is what the log     *)
(* says; a key has faded when the log has it and memory does not show it.  *)

BeingSet == {msg[c].key : c \in {w \in Writing : msg[w].op = "set"}}
TtlPending == \E c \in Writing : msg[c].op = "set" /\ msg[c].ttl # Never

GoneBar ==
  IF phase # "up" THEN {}
  ELSE {k \in DOMAIN OnFile \ BeingSet : ~HasLive(data, k, now)}

MortalBar ==
  IF phase # "up" THEN {}
  ELSE {k \in DOMAIN OnFile :
          IF k \in BeingSet THEN TtlPending
          ELSE k \notin DOMAIN data \/ data[k].exp # Never}

MayHear(r) ==
  IF r.op = "del" /\ r.key \in DOMAIN data /\ data[r.key].exp # Never
    THEN {Ok, NotFound} ELSE {Ok}

CallBar ==
  [c \in Conns |->
     IF pc[c] \in {"locking", "run", "checked"} THEN msg[c]
     ELSE IF pc[c] \in {"newline", "apply"}
            THEN [op |-> "settling", answers |-> MayHear(msg[c])]
     ELSE IF pc[c] # "sending" THEN None
     ELSE IF msg[c].op = "status" THEN [op |-> "status", count |-> msg[c].count]
     ELSE msg[c]]

Durable == INSTANCE DurableKV
             WITH table <- OnFile, mortal <- MortalBar,
                  gone <- GoneBar, call <- CallBar

(* Every command takes effect on the one map at a single instant between   *)
(* its arrival and its answer, and kills lose nothing of the map, as long  *)
(* as no append is cut in two: the mutex, the order log-then-memory, the   *)
(* replay and lazy expiry together give the clients a linearizable map.    *)
ImplementsDurableKV == Durable!Spec
=============================================================================
