------------------------------- MODULE Server -------------------------------
(***************************************************************************)
(* The TCP server of src/server.rs: one thread per connection, a mutex     *)
(* around the store, the log and the counters, and the commands run under  *)
(* it.  The log file and the life of the process are Persistence.tla's,    *)
(* the store's methods StoreOps.tla's.                                     *)
(*                                                                         *)
(* pc[c] is where the thread of connection c stands in handle_connection:  *)
(*   closed    no thread                                                   *)
(*   entering  spawned, not counted yet                                    *)
(*   reading   in read_line, or about to be                                *)
(*   locking   has a parsed command, waits for the mutex                   *)
(*   run       holds the mutex, at the start of execute_inner              *)
(*   checked   holds it: DEL has seen its key                              *)
(*   newline   holds it: append has written the text of the record         *)
(*   apply     holds it: append has returned Ok                            *)
(*   sending   has released it and has a reply to send                     *)
(*   leaving   out of the loop, not uncounted yet                          *)
(***************************************************************************)
EXTENDS Persistence

CONSTANTS Conns,        \* connections that may be open at a time
          Ops,          \* the commands clients send in an instance
          Ttls,         \* TTLs the parser accepts, in clock ticks
          NoConn,       \* the mutex is free
          Missing,      \* what a key without a value maps to
          MaxRequests,  \* bound on the commands read, over all connections
          MaxCrashes,   \* bound on the deaths of the process
          MaxTime       \* bound on the clock

ASSUME ServerAssumption ==
  /\ NoConn \notin Conns
  /\ Ttls \subseteq Nat \ {0}
  /\ MaxRequests \in Nat /\ MaxCrashes \in Nat /\ MaxTime \in Nat

VARIABLES pc, msg,       \* per connection; msg is its command, then its reply
          lock,          \* the holder of the mutex
          connections,   \* the connection counter
          commands,      \* the command counter
          requests,      \* commands read so far (bound)
          crashes,       \* deaths so far (bound)
          promised       \* history: outcomes the clients were promised, by key

threadVars == <<pc, msg, lock, connections, commands, requests>>
historyVars == <<crashes, promised>>
vars == <<lines, tail, phase, pos, data, now, writing, pc, msg, lock,
          connections, commands, requests, crashes, promised>>

Requests ==
  {[op |-> "set", key |-> k, value |-> v, ttl |-> t] :
     k \in Keys, v \in Values, t \in Ttls \cup {Never}}
  \cup {[op |-> o, key |-> k] : o \in {"get", "del"}, k \in Keys}
  \cup {[op |-> o] : o \in {"list", "status", "ping", "exit"}}

None == [op |-> "idle"]
Ok == [op |-> "ok"]
NotFound == [op |-> "missing"]
Error == [op |-> "error"]

Replies ==
  {Ok, NotFound, Error, [op |-> "pong"]}
  \cup [op : {"value"}, key : Text, value : Text]
  \cup [op : {"keys"}, keys : SUBSET Text]
  \cup [op : {"status"}, count : Nat, connections : Nat, commands : Nat]

Holding == {"run", "checked", "newline", "apply"}
Counted == {"reading", "locking", "sending", "leaving"} \cup Holding

RecordOf(r) == IF r.op = "set" THEN SetRecord(r.key, r.value)
                               ELSE DelRecord(r.key)

ServerTypeOK ==
  /\ LogTypeOK
  /\ pc \in [Conns -> {"closed", "entering"} \cup Counted]
  /\ \A c \in Conns :
       /\ pc[c] \in {"locking"} \cup Holding => msg[c] \in Requests
       /\ pc[c] = "sending" => msg[c] \in Replies
  /\ lock \in Conns \cup {NoConn}
  /\ connections \in Nat /\ commands \in Nat /\ requests \in Nat
  /\ \A k \in DOMAIN data :
       k \in Text /\ data[k].value \in Text /\ data[k].exp \in Nat \cup {Never}
  /\ crashes \in 0 .. MaxCrashes
  /\ promised \in [Keys -> SUBSET (Values \cup {Missing})]

Init ==
  /\ LogInit
  /\ pc = [c \in Conns |-> "closed"] /\ msg = [c \in Conns |-> None]
  /\ lock = NoConn
  /\ connections = 0 /\ commands = 0 /\ requests = 0 /\ crashes = 0
  /\ promised = [k \in Keys |-> {Missing}]

-----------------------------------------------------------------------------
(* Thread c goes on to `place` with the message m. *)
Goes(c, place, m) ==
  /\ pc' = [pc EXCEPT ![c] = place]
  /\ msg' = [msg EXCEPT ![c] = m]

\* Variant: the guard is kept when execute returns.
ReplyHoldingLock(c, m) ==
  /\ lock = c /\ lock' = lock
  /\ Goes(c, "sending", m)

(* execute returns: the guard is dropped, the reply is still to be sent. *)
Reply(c, m) ==
  /\ lock = c /\ lock' = NoConn
  /\ Goes(c, "sending", m)

(* What a step that neither writes nor counts leaves alone; Local keeps    *)
(* the lock as well.                                                       *)
Quiet == UNCHANGED <<logVars, connections, commands, requests, historyVars>>
Local == Quiet /\ UNCHANGED lock

(* What a step of append leaves alone. *)
FileOnly ==
  UNCHANGED <<phase, pos, data, now, connections, commands, requests, crashes>>

(* accept and spawn, once recover has returned Ok. *)
Connect(c) ==
  /\ phase = "up" /\ pc[c] = "closed"
  /\ Goes(c, "entering", None) /\ Local

(* try_clone fails: the thread ends before it was counted. *)
CloneFails(c) == pc[c] = "entering" /\ Goes(c, "closed", None) /\ Local

(* The mutex is taken for the time of one fetch_add. *)
Enter(c) ==
  /\ pc[c] = "entering" /\ lock = NoConn
  /\ connections' = connections + 1
  /\ Goes(c, "reading", None)
  /\ UNCHANGED <<logVars, lock, commands, requests, historyVars>>

(* read_line returns a line, and parse_command accepts it as r or rejects  *)
(* it; a rejected line is answered without the mutex and is not counted.   *)
(* An empty line is skipped, which changes nothing.                        *)
ReadLine(c) ==
  /\ pc[c] = "reading" /\ requests < MaxRequests
  /\ requests' = requests + 1
  /\ \/ \E r \in Requests : r.op \in Ops /\ Goes(c, "locking", r)
     \/ "bad" \in Ops /\ Goes(c, "sending", Error)
  /\ UNCHANGED <<logVars, lock, connections, commands, historyVars>>

(* End of file, or an error, in read_line. *)
Disconnect(c) == pc[c] = "reading" /\ Goes(c, "leaving", None) /\ Local

\* Variant: execute does not wait for the mutex.
AcquireUnguarded(c) ==
  /\ pc[c] = "locking"
  /\ lock' = c
  /\ commands' = commands + 1
  /\ Goes(c, "run", msg[c])
  /\ UNCHANGED <<logVars, connections, requests, historyVars>>

(* server.lock(), and execute's own count. *)
Acquire(c) ==
  /\ pc[c] = "locking" /\ lock = NoConn
  /\ lock' = c
  /\ commands' = commands + 1
  /\ Goes(c, "run", msg[c])
  /\ UNCHANGED <<logVars, connections, requests, historyVars>>

(* What the commands that only look answer; STATUS is status_snapshot      *)
(* without the uptime.                                                     *)
Answer(r) ==
  CASE r.op = "get" ->
         IF HasLive(data, r.key, now)
           THEN [op |-> "value", key |-> r.key, value |-> data[r.key].value]
           ELSE NotFound
    [] r.op = "list" -> [op |-> "keys", keys |-> LiveKeys(data, now)]
    [] r.op = "status" ->
         [op |-> "status", count |-> Cardinality(LiveKeys(data, now)),
          connections |-> connections, commands |-> commands]
    [] r.op = "ping" -> [op |-> "pong"]

Look(c) ==
  /\ pc[c] = "run" /\ msg[c].op \in {"get", "list", "status", "ping"}
  /\ Reply(c, Answer(msg[c])) /\ Quiet

\* Variant: EXIT leaves the loop as if the client had hung up while idle.
ExitUncounted(c) ==
  /\ pc[c] = "run" /\ msg[c].op = "exit"
  /\ lock = c /\ lock' = NoConn
  /\ Goes(c, "closed", None) /\ Quiet

(* execute returns None: the guard is dropped, and the connection closes   *)
(* without a reply.                                                        *)
Exit(c) ==
  /\ pc[c] = "run" /\ msg[c].op = "exit"
  /\ lock = c /\ lock' = NoConn
  /\ Goes(c, "leaving", None) /\ Quiet

(* DEL of a key that is not there writes nothing. *)
DelMiss(c) ==
  /\ pc[c] = "run" /\ msg[c].op = "del"
  /\ ~HasLive(data, msg[c].key, now)
  /\ Reply(c, NotFound) /\ Quiet

DelHit(c) ==
  /\ pc[c] = "run" /\ msg[c].op = "del"
  /\ HasLive(data, msg[c].key, now)
  /\ Goes(c, "checked", msg[c]) /\ Local

(* The thread is at its call of append. *)
AtAppend(c) == (pc[c] = "run" /\ msg[c].op = "set") \/ pc[c] = "checked"

Wanted(r) == IF r.op = "set" THEN r.value ELSE Missing

\* Variant: memory is updated first, and the log after it.
WriteBodyAfterMemory(c) ==
  /\ AtAppend(c)
  /\ AppendBody(RecordOf(msg[c]))
  /\ Goes(c, "newline", msg[c])
  /\ promised' = [promised EXCEPT ![msg[c].key] = @ \cup {Wanted(msg[c])}]
  /\ LET r == msg[c]
     IN  data' = IF r.op = "set" THEN SetEntry(data, r.key, r.value, r.ttl, now, now)
                                 ELSE DeleteEntry(data, r.key, now)
  /\ UNCHANGED <<phase, pos, now, lock, connections, commands, requests, crashes>>

WriteBody(c) ==
  /\ AtAppend(c)
  /\ AppendBody(RecordOf(msg[c]))
  /\ Goes(c, "newline", msg[c])
  /\ promised' = [promised EXCEPT ![msg[c].key] = @ \cup {Wanted(msg[c])}]
  /\ FileOnly /\ UNCHANGED lock

WriteNewline(c) ==
  /\ pc[c] = "newline"
  /\ AppendNewline
  /\ Goes(c, "apply", msg[c])
  /\ FileOnly /\ UNCHANGED <<lock, promised>>

\* Variant: the error is answered, and memory updated all the same.
OpenFailsStillSets(c) ==
  /\ "open_error" \in Faults
  /\ AtAppend(c)
  /\ LET r == msg[c]
     IN  data' = IF r.op = "set" THEN SetEntry(data, r.key, r.value, r.ttl, now, now)
                                 ELSE DeleteEntry(data, r.key, now)
  /\ Reply(c, Error)
  /\ UNCHANGED <<lines, tail, phase, pos, now, writing, connections, commands,
                 requests, historyVars>>

(* append fails before it has written anything: no directory, no file. *)
OpenFails(c) ==
  /\ "open_error" \in Faults
  /\ AtAppend(c)
  /\ Reply(c, Error) /\ Quiet

(* append fails with part of the text written. *)
TornWrite(c) ==
  /\ AtAppend(c)
  /\ TornBody(RecordOf(msg[c]))
  /\ Reply(c, Error)
  /\ FileOnly /\ UNCHANGED promised

\* Variant: the second write's error is not looked at.
EndFailsUnseen(c) ==
  /\ pc[c] = "newline"
  /\ NewlineFails
  /\ Goes(c, "apply", msg[c])
  /\ FileOnly /\ UNCHANGED <<lock, promised>>

(* append fails between the text and the line end. *)
EndFails(c) ==
  /\ pc[c] = "newline"
  /\ NewlineFails
  /\ Reply(c, Error)
  /\ FileOnly /\ UNCHANGED promised

(* store.set after the log; the clock moves between its two readings. *)
ApplySet(c) ==
  /\ pc[c] = "apply" /\ msg[c].op = "set"
  /\ LET r == msg[c]
     IN  /\ now' \in now .. MaxTime
         /\ data' = SetEntry(data, r.key, r.value, r.ttl, now, now')
         /\ promised' = [promised EXCEPT ![r.key] = {r.value}]
  /\ Reply(c, Ok)
  /\ UNCHANGED <<lines, tail, phase, pos, writing, connections, commands,
                 requests, crashes>>

(* store.delete reads the clock again: the key may have expired since the  *)
(* check, and then the answer is that it does not exist.                   *)
ApplyDel(c) ==
  /\ pc[c] = "apply" /\ msg[c].op = "del"
  /\ LET k == msg[c].key
     IN  /\ data' = DeleteEntry(data, k, now)
         /\ promised' = [promised EXCEPT ![k] = {Missing}]
         /\ Reply(c, IF HasLive(data, k, now) THEN Ok ELSE NotFound)
  /\ UNCHANGED <<lines, tail, phase, pos, now, writing, connections, commands,
                 requests, crashes>>

Send(c) == pc[c] = "sending" /\ Goes(c, "reading", None) /\ Local

\* Variant: a failed send uncounts the connection, which then leaves.
SendFailsUncounts(c) ==
  /\ pc[c] = "sending"
  /\ connections' = connections - 1
  /\ Goes(c, "leaving", None)
  /\ UNCHANGED <<logVars, lock, commands, requests, historyVars>>

SendFails(c) == pc[c] = "sending" /\ Goes(c, "leaving", None) /\ Local

Leave(c) ==
  /\ pc[c] = "leaving" /\ lock = NoConn
  /\ connections' = connections - 1
  /\ Goes(c, "closed", None)
  /\ UNCHANGED <<logVars, lock, commands, requests, historyVars>>

-----------------------------------------------------------------------------
Tick ==
  /\ phase = "up" /\ now < MaxTime
  /\ now' = now + 1
  /\ UNCHANGED <<lines, tail, phase, pos, data, writing, threadVars, historyVars>>

(* The process dies with every thread in it and every counter. *)
Crash ==
  /\ crashes < MaxCrashes
  /\ Kill \/ PowerLoss
  /\ crashes' = crashes + 1
  /\ pc' = [c \in Conns |-> "closed"] /\ msg' = [c \in Conns |-> None]
  /\ lock' = NoConn /\ connections' = 0 /\ commands' = 0
  /\ UNCHANGED <<requests, promised>>

StartUp == (Restart \/ Recovering) /\ UNCHANGED <<threadVars, historyVars>>

(* What the thread of c does without waiting for its client. *)
ThreadStep(c) ==
  \/ CloneFails(c) \/ Enter(c) \/ Acquire(c)
  \/ Look(c) \/ Exit(c) \/ DelMiss(c) \/ DelHit(c)
  \/ WriteBody(c) \/ WriteNewline(c) \/ ApplySet(c) \/ ApplyDel(c)
  \/ OpenFails(c) \/ TornWrite(c) \/ EndFails(c)
  \/ Leave(c)

ClientStep(c) ==
  Connect(c) \/ ReadLine(c) \/ Disconnect(c) \/ Send(c) \/ SendFails(c)

Next ==
  \/ \E c \in Conns : ThreadStep(c) \/ ClientStep(c)
  \/ Tick
  \/ Crash
  \/ StartUp

Spec == Init /\ [][Next]_vars
=============================================================================
