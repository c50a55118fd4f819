--------------------------------- MODULE Web ---------------------------------
(***************************************************************************)
(* The web page of the server: the one thread of src/web.rs that serves    *)
(* every browser, and the handlers of src/webpage.rs, which share the      *)
(* server's mutex with the threads of the TCP connections.  One of those   *)
(* stands here for all; Server.tla has them, with the log.  What the texts *)
(* of a request turn into is WebText.tla's.                                *)
(*                                                                         *)
(* A browser is one connection, with one request.  web is where the thread *)
(* stands:                                                                 *)
(*   off       the port could not be bound: there is no thread             *)
(*   accept    in listener.incoming()                                      *)
(*   reading   in parse_request                                            *)
(*   locking   has a request, waits for the mutex                          *)
(*   command   holds it: about to run the user's command                   *)
(*   status, list, rows   hold it: building the page, query by query       *)
(*   writing   has released it, writes the response                        *)
(*   dead      has panicked                                                *)
(*   aborted   has ended the process, and with it every thread             *)
(***************************************************************************)
EXTENDS StoreOps, Sequences

CONSTANTS Browsers,
          Requests,     \* what browsers ask for in an instance
          Calls,        \* the commands of the TCP connection in an instance
          Keys, Values,
          Kept,         \* the maps recover may have built
          Free,         \* the mutex is free, no browser is served
          Gone,         \* a row with the error text for its value
          MaxCalls,     \* bound on the commands of the TCP connection
          MaxTime       \* bound on the clock

(* What run_command or query_key have in hand: a command, no text at all,  *)
(* a line that parse_command rejects, or one that url_decode cuts inside a *)
(* character (Cuts of WebText.tla).  Huge is a form whose Content-Length   *)
(* is more than the program can allocate.                                  *)
Commands ==
  {[op |-> "set", key |-> k, value |-> v, ttl |-> t] :
     k \in Keys, v \in Values, t \in {Never} \cup 1 .. MaxTime}
  \cup {[op |-> o, key |-> k] : o \in {"get", "del"}, k \in Keys}
  \cup {[op |-> o] : o \in {"list", "status", "ping", "exit"}}

NoLine  == [op |-> "none"]
Bad     == [op |-> "bad"]
Garbled == [op |-> "garbled"]
Huge    == [op |-> "huge"]

(* The routes; "broken" is a request line that parse_request refuses.      *)
AnyRequest ==
  [path : {"/", "/data", "other"}, cmd : {NoLine, Garbled}]
  \cup [path : {"broken"}, cmd : {NoLine}]
  \cup [path : {"/get"}, cmd : {c \in Commands : c.op = "get"} \cup {NoLine, Bad, Garbled}]
  \cup [path : {"/cmd"}, cmd : Commands \cup {NoLine, Bad, Garbled, Huge}]

ASSUME WebAssumption ==
  /\ Requests \subseteq AnyRequest /\ Calls \subseteq Commands
  /\ \A m \in Kept :
       /\ IsFiniteSet(DOMAIN m) /\ DOMAIN m \subseteq Keys
       /\ \A k \in DOMAIN m : m[k] \in Values
  /\ Free \notin Browsers \cup {"web", "tcp"} /\ Gone \notin Values
  /\ MaxCalls \in Nat /\ MaxTime \in Nat

VARIABLES now, data, commands,     \* the clock; the server's store and counter
          lock,                    \* "web", "tcp" or Free
          tcp, calls,              \* the TCP thread: where it is, its command
          conn, queue,             \* the browsers, and those not accepted yet
          web, cur, job, page,     \* the web thread: its browser, what it parsed
          asks, got, fed,          \* what it asks, how much has come, is more there
          ran,                     \* history: whose request had a command in it
          seen                     \* history: store and clock the page starts from

storeVars == <<now, data, commands>>
tcpVars   == <<tcp, calls>>
netVars   == <<conn, queue>>
reqVars   == <<asks, got, fed, ran>>
webVars   == <<web, cur, job, page, asks, got, fed, ran, seen>>
vars == <<now, data, commands, lock, tcp, calls, conn, queue,
          web, cur, job, page, asks, got, fed, ran, seen>>

NoRequest == [path |-> "other", cmd |-> NoLine]
NoPage == [result |-> "none", count |-> 0, todo |-> {}, rows |-> EmptyMap]
Nothing == [data |-> EmptyMap, now |-> 0]

(* recover has run; bind may have failed, and then the server goes on      *)
(* without the page.                                                       *)
Init ==
  /\ now = 0 /\ commands = 0 /\ lock = Free
  /\ \E m \in Kept : data = [k \in DOMAIN m |-> [value |-> m[k], exp |-> Never]]
  /\ tcp = [at |-> "idle", cmd |-> NoLine] /\ calls = 0
  /\ conn = [b \in Browsers |-> "new"] /\ queue = <<>>
  /\ web \in {"off", "accept"} /\ cur = Free /\ job = NoRequest
  /\ page = NoPage /\ asks = NoRequest /\ got = 0 /\ fed = FALSE
  /\ ran = {} /\ seen = Nothing

Holding == {"command", "status", "list", "rows"}

WebTypeOK ==
  /\ now \in 0 .. MaxTime /\ commands \in Nat
  /\ \A k \in DOMAIN data : k \in Keys /\ data[k].value \in Values
  /\ lock \in {Free, "web", "tcp"}
  /\ lock = "web" <=> web \in Holding
  /\ lock = "tcp" <=> tcp.at = "holding"
  /\ tcp.at \in {"idle", "waiting", "holding"}
  /\ conn \in [Browsers -> {"new", "open", "left", "closed"}]
  /\ asks \in AnyRequest /\ job \in AnyRequest /\ got \in 0 .. 3
  /\ fed \in BOOLEAN /\ ran \subseteq Browsers
  /\ web \in {"off", "accept", "reading", "locking", "writing", "dead", "aborted"} \cup Holding
  /\ cur \in Browsers <=> web \in {"reading", "locking", "writing"} \cup Holding
  /\ page.todo \subseteq Keys /\ DOMAIN page.rows \subseteq Keys

-----------------------------------------------------------------------------
(* A browser connects, and may hang up at any time.  What it sends is      *)
(* looked at when the thread reads it.                                     *)
Connect(b) ==
  /\ conn[b] = "new" /\ web \notin {"off", "dead", "aborted"}
  /\ conn' = [conn EXCEPT ![b] = "open"]
  /\ queue' = Append(queue, b)
  /\ UNCHANGED <<storeVars, lock, tcpVars, webVars>>

Depart(b) ==
  /\ conn[b] = "open"
  /\ conn' = [conn EXCEPT ![b] = "left"]
  /\ UNCHANGED <<storeVars, lock, tcpVars, queue, webVars>>

(* A request comes in parts: its first line, its headers, its body.  Some  *)
(* may still come when the browser has gone.                               *)
Whole(r) == IF r.path = "/cmd" THEN 3 ELSE 2

(* The thread cannot go on: url_decode panics on the query as soon as the  *)
(* first line is there, on the form when the body is; and the buffer for   *)
(* a body is made when the headers are there.                              *)
PanicDue ==
  \/ asks.cmd = Garbled /\ got >= IF asks.path = "/cmd" THEN 3 ELSE 1
  \/ asks.cmd = Huge /\ got >= 2

(* The browser sends a piece of its request. *)
PieceComes ==
  /\ web = "reading" /\ ~fed /\ got < Whole(asks) /\ ~PanicDue
  /\ fed' = TRUE
  /\ UNCHANGED <<storeVars, lock, tcpVars, netVars, web, cur, job, page, asks, got, ran, seen>>

(* One read takes it.  It ends a part of the request or does not: nothing  *)
(* limits the length of the first line, nor the number of headers, and the *)
(* timeout is that of one read.  The body has the length announced.        *)
TakePiece ==
  /\ web = "reading" /\ fed
  /\ fed' = FALSE
  /\ \/ got' = got + 1
     \/ got' = got /\ got < 2 /\ conn[cur] = "open"
  /\ UNCHANGED <<storeVars, lock, tcpVars, netVars, web, cur, job, page, asks, ran, seen>>

-----------------------------------------------------------------------------
Drop(b) == conn' = [conn EXCEPT ![b] = "closed"]

Accept ==
  /\ web = "accept" /\ queue # <<>>
  /\ cur' = Head(queue) /\ queue' = Tail(queue)
  /\ web' = "reading" /\ asks' \in Requests
  /\ UNCHANGED <<storeVars, lock, tcpVars, conn, got, fed, ran, job, page, seen>>

(* accept or try_clone fails: on to the next connection. *)
AcceptFails ==
  /\ web = "accept" /\ queue # <<>>
  /\ Drop(Head(queue)) /\ queue' = Tail(queue)
  /\ UNCHANGED <<storeVars, lock, tcpVars, webVars>>

(* parse_request has returned r. *)
Parsed(r) ==
  /\ job' = r /\ web' = "locking" /\ fed' = FALSE
  /\ ran' = IF r.cmd \in Commands THEN ran \cup {cur} ELSE ran
  /\ UNCHANGED <<storeVars, lock, tcpVars, netVars, asks, got, cur, page, seen>>

(* The request is there as a whole. *)
ReadRequest ==
  /\ web = "reading" /\ got = Whole(asks)
  /\ asks.path # "broken" /\ ~PanicDue
  /\ Parsed(asks)

\* Variant: what has come of the body is taken for the body.
ReadToEndAnyBody ==
  /\ web = "reading" /\ conn[cur] = "left" /\ asks.path # "broken" /\ ~PanicDue
  /\ \/ got = 2 /\ Parsed(asks)
     \/ got = 1 /\ Parsed(IF asks.path = "/cmd" THEN [asks EXCEPT !.cmd = NoLine] ELSE asks)
     \/ got = 0 /\ fed /\ Parsed(NoRequest)

(* read_line returns what there is of a first line that was cut: another   *)
(* path, no key any more, or another key.                                  *)
CutShort(r) ==
  {NoRequest, [path |-> r.path, cmd |-> NoLine]}
  \cup (IF r.path = "/cmd" THEN {} ELSE {[path |-> "/", cmd |-> NoLine]})
  \cup (IF r.path = "/get"
           THEN [path : {"/get"}, cmd : {Bad} \cup {c \in Commands : c.op = "get"}]
           ELSE {})

(* The browser is gone, which ends the headers: without a Content-Length   *)
(* the body is empty.  It may also have ended the first line half-way.     *)
ReadToEnd ==
  /\ web = "reading" /\ conn[cur] = "left" /\ asks.path # "broken" /\ ~PanicDue
  /\ \/ got = 1 /\ Parsed(IF asks.path = "/cmd" THEN [asks EXCEPT !.cmd = NoLine] ELSE asks)
     \/ got = 0 /\ fed /\ \E r \in CutShort(asks) : Parsed(r)

\* Variant: the stream has no read timeout.
NoReadTimeout ==
  /\ web = "reading" /\ ~PanicDue
  /\ (conn[cur] = "left" /\ got < Whole(asks)) \/ asks.path = "broken"
  /\ web' = "writing" /\ fed' = FALSE
  /\ page' = [page EXCEPT !.result = "400"]
  /\ UNCHANGED <<storeVars, lock, tcpVars, netVars, asks, got, ran, cur, job, seen>>

(* parse_request returns None: the line is no request, a read failed, the  *)
(* body did not come whole, or nothing came for ten seconds.               *)
ReadFails ==
  /\ web = "reading" /\ ~PanicDue
  /\ got < Whole(asks) \/ asks.path = "broken"
  /\ web' = "writing" /\ fed' = FALSE
  /\ page' = [page EXCEPT !.result = "400"]
  /\ UNCHANGED <<storeVars, lock, tcpVars, netVars, asks, got, ran, cur, job, seen>>

(* What has come of a part that is cut may be enough for it. *)
PanicCut ==
  /\ conn[cur] = "left" /\ fed
  /\ \/ asks.cmd = Garbled /\ asks.path # "/cmd" /\ got = 0
     \/ asks.cmd = Huge /\ got = 1

(* Every connection that was made is closed. *)
DropAll ==
  /\ conn' = [b \in Browsers |-> IF conn[b] = "new" THEN "new" ELSE "closed"]
  /\ queue' = <<>> /\ cur' = Free
  /\ asks' = NoRequest /\ got' = 0 /\ fed' = FALSE

(* url_decode panics, or a buffer of that capacity cannot be: the thread   *)
(* ends, and the listener is closed.  The mutex is not held.               *)
Panic ==
  /\ web = "reading"
  /\ PanicDue \/ PanicCut
  /\ web' = "dead"
  /\ DropAll
  /\ UNCHANGED <<storeVars, lock, tcpVars, job, page, ran, seen>>

(* There is no memory for the buffer: the process ends, and nothing is     *)
(* left of it but what is in the log (Server.tla).                         *)
Abort ==
  /\ web = "reading" /\ asks.cmd = Huge
  /\ PanicDue \/ PanicCut
  /\ web' = "aborted"
  /\ DropAll
  /\ data' = EmptyMap /\ commands' = 0 /\ lock' = Free
  /\ tcp' = [at |-> "idle", cmd |-> NoLine] /\ calls' = 0
  /\ job' = NoRequest /\ page' = NoPage /\ ran' = {} /\ seen' = Nothing
  /\ UNCHANGED now

-----------------------------------------------------------------------------
(* The route, by which handle goes on once the mutex is taken. *)
Route(r) ==
  CASE r.path = "/" -> "status"
    [] r.path = "/data" -> "list"
    [] r.path \in {"/cmd", "/get"} -> "command"
    [] OTHER -> "rows"                    \* 404: no rows to read

(* handle is called, with the mutex for as long as it runs. *)
Lock ==
  /\ web = "locking" /\ lock = Free
  /\ lock' = "web" /\ web' = Route(job)
  /\ seen' = [data |-> data, now |-> now]
  /\ UNCHANGED <<storeVars, tcpVars, netVars, reqVars, cur, job, page>>

(* execute on the command c: its reply, and the store after it.  append    *)
(* may fail; and it takes time: SET counts its deadline from a later       *)
(* reading of the clock than it sweeps by, and the key of a DEL may have   *)
(* expired when it is removed.                                             *)
Execute(c, reply) ==
  /\ commands' = commands + 1
  /\ CASE c.op = "set" ->
            \/ /\ reply = "ok" /\ now' \in now .. MaxTime
               /\ data' = SetEntry(data, c.key, c.value, c.ttl, now, now')
            \/ reply = "error" /\ UNCHANGED <<now, data>>
       [] c.op = "del" /\ HasLive(data, c.key, now) ->
            \/ /\ now' \in now .. MaxTime
               /\ reply = IF HasLive(data, c.key, now') THEN "ok" ELSE "missing"
               /\ data' = DeleteEntry(data, c.key, now')
            \/ reply = "error" /\ UNCHANGED <<now, data>>
       [] c.op \in {"get", "del"} /\ ~HasLive(data, c.key, now) ->
            reply = "missing" /\ UNCHANGED <<now, data>>
       [] c.op = "exit" -> reply = "refused" /\ UNCHANGED <<now, data>>
       [] OTHER -> reply = "ok" /\ UNCHANGED <<now, data>>

(* What comes after the user's command: the page, or the end of query_key. *)
AfterCommand == IF job.path = "/cmd" THEN "status" ELSE "rows"

\* Variant: the guard is dropped between the command and the page.
RunLineReleases ==
  /\ web = "command" /\ job.cmd \in Commands
  /\ \E reply \in {"ok", "error", "missing", "refused"} :
       Execute(job.cmd, reply) /\ page' = [page EXCEPT !.result = reply]
  /\ web' = AfterCommand /\ lock' = Free
  /\ seen' = [data |-> data', now |-> now']
  /\ UNCHANGED <<tcpVars, netVars, reqVars, cur, job>>

(* run_line: EXIT closes nothing, it is answered with an error text. *)
RunLine ==
  /\ web = "command" /\ job.cmd \in Commands
  /\ \E reply \in {"ok", "error", "missing", "refused"} :
       Execute(job.cmd, reply) /\ page' = [page EXCEPT !.result = reply]
  /\ web' = AfterCommand
  /\ seen' = [data |-> data', now |-> now']
  /\ UNCHANGED <<lock, tcpVars, netVars, reqVars, cur, job>>

(* No field of that name, an empty one, or a line that is no command:      *)
(* nothing is executed, and nothing is counted.                            *)
RunNothing ==
  /\ web = "command" /\ job.cmd \in {NoLine, Bad}
  /\ page' = [page EXCEPT !.result = "error"]
  /\ web' = AfterCommand
  /\ UNCHANGED <<storeVars, lock, tcpVars, netVars, reqVars, cur, job, seen>>

\* Variant: the page's queries go through execute.
ReadStatusCounted ==
  /\ web = "status"
  /\ commands' = commands + 1
  /\ page' = [page EXCEPT !.count = Cardinality(LiveKeys(data, now))]
  /\ web' = "list"
  /\ UNCHANGED <<now, data, lock, tcpVars, netVars, reqVars, cur, job, seen>>

(* index_page's STATUS, not counted as a command. *)
ReadStatus ==
  /\ web = "status"
  /\ page' = [page EXCEPT !.count = Cardinality(LiveKeys(data, now))]
  /\ web' = "list"
  /\ UNCHANGED <<storeVars, lock, tcpVars, netVars, reqVars, cur, job, seen>>

\* Variant: every query of the page takes the mutex for itself.
ReadListReleases ==
  /\ web = "list"
  /\ page' = [page EXCEPT !.todo = LiveKeys(data, now)]
  /\ web' = "rows" /\ lock' = Free
  /\ UNCHANGED <<storeVars, tcpVars, netVars, reqVars, cur, job, seen>>

(* data_rows: LIST, and then a GET for each key it names, each with its    *)
(* own reading of the clock.                                               *)
ReadList ==
  /\ web = "list"
  /\ page' = [page EXCEPT !.todo = LiveKeys(data, now)]
  /\ web' = "rows"
  /\ UNCHANGED <<storeVars, lock, tcpVars, netVars, reqVars, cur, job, seen>>

ReadRow(k) ==
  /\ web = "rows" /\ k \in page.todo
  /\ page' = [page EXCEPT
                !.todo = @ \ {k},
                !.rows = Insert(@, k, IF HasLive(data, k, now) THEN data[k].value ELSE Gone)]
  /\ UNCHANGED <<storeVars, lock, tcpVars, netVars, reqVars, web, cur, job, seen>>

\* Variant: the guard lives until the response has been written.
FinishHoldingLock ==
  /\ web = "rows" /\ page.todo = {}
  /\ web' = "writing"
  /\ UNCHANGED <<storeVars, lock, tcpVars, netVars, reqVars, cur, job, page, seen>>

(* handle returns, and the guard is dropped. *)
Finish ==
  /\ web = "rows" /\ page.todo = {}
  /\ web' = "writing" /\ lock' = Free
  /\ UNCHANGED <<storeVars, tcpVars, netVars, reqVars, cur, job, page, seen>>

(* write_all is over, whatever came of it, and the connection is closed.   *)
Close ==
  /\ Drop(cur)
  /\ web' = "accept" /\ cur' = Free /\ job' = NoRequest
  /\ page' = NoPage /\ asks' = NoRequest /\ got' = 0 /\ seen' = Nothing
  /\ UNCHANGED <<storeVars, lock, tcpVars, queue, fed, ran>>

(* The browser takes the response; nothing limits how long it may take.    *)
Written == web = "writing" /\ conn[cur] = "open" /\ Close

(* The browser has gone; the error is not looked at. *)
WriteFails == web = "writing" /\ conn[cur] = "left" /\ Close

-----------------------------------------------------------------------------
(* A thread of handle_connection, as far as the mutex and the store see it.*)
TcpCall(c) ==
  /\ tcp.at = "idle" /\ calls < MaxCalls /\ web # "aborted"
  /\ tcp' = [at |-> "waiting", cmd |-> c] /\ calls' = calls + 1
  /\ UNCHANGED <<storeVars, lock, netVars, webVars>>

TcpLock ==
  /\ tcp.at = "waiting" /\ lock = Free
  /\ lock' = "tcp" /\ tcp' = [tcp EXCEPT !.at = "holding"]
  /\ UNCHANGED <<storeVars, calls, netVars, webVars>>

TcpExecute ==
  /\ tcp.at = "holding"
  /\ \E reply \in {"ok", "error", "missing", "refused"} : Execute(tcp.cmd, reply)
  /\ lock' = Free /\ tcp' = [at |-> "idle", cmd |-> NoLine]
  /\ UNCHANGED <<calls, netVars, webVars>>

Tick ==
  /\ now < MaxTime /\ now' = now + 1
  /\ UNCHANGED <<data, commands, lock, tcpVars, netVars, webVars>>

-----------------------------------------------------------------------------
(* What the web thread does without waiting for its browser; a read that   *)
(* has to wait ends after ten seconds.                                     *)
WebStep ==
  \/ Accept \/ AcceptFails
  \/ TakePiece \/ ReadRequest \/ ReadToEnd \/ ReadFails \/ Panic \/ Abort
  \/ Lock \/ RunLine \/ RunNothing
  \/ ReadStatus \/ ReadList \/ (\E k \in Keys : ReadRow(k)) \/ Finish
  \/ WriteFails

BrowserStep(b) == Connect(b) \/ Depart(b)

TcpStep == TcpLock \/ TcpExecute

Next ==
  \/ WebStep
  \/ PieceComes \/ Written
  \/ \E b \in Browsers : BrowserStep(b)
  \/ \E c \in Calls : TcpCall(c)
  \/ TcpStep
  \/ Tick

Spec == Init /\ [][Next]_vars

(* The operating system runs both threads; nothing is assumed of browsers, *)
(* which may stop sending, send for ever, or never take their answer, nor  *)
(* of TCP clients.                                                         *)
FairSpec == Spec /\ WF_vars(WebStep) /\ WF_vars(TcpStep)

-----------------------------------------------------------------------------
ShowsTable == web = "writing" /\ page.result # "400" /\ job.path \in {"/", "/data", "/cmd"}

(* A page shows the store of one moment, whatever TCP clients do while it  *)
(* is put together query by query: its rows are the keys of that moment    *)
(* with the values they had, except that a key may expire on the way; then *)
(* its row is missing or holds the error text.  The count in the status    *)
(* line is never below the number of rows.                                 *)
PageIsOneMoment ==
  ShowsTable =>
    /\ DOMAIN page.rows \subseteq LiveKeys(seen.data, seen.now)
    /\ LiveKeys(seen.data, now) \subseteq DOMAIN page.rows
    /\ \A k \in DOMAIN page.rows :
         \/ page.rows[k] = seen.data[k].value
         \/ page.rows[k] = Gone /\ Expired(seen.data[k].exp, now)
    /\ job.path # "/data" => Cardinality(DOMAIN page.rows) <= page.count

(* The result of a command and the table below it agree: after a SET       *)
(* answered OK the table shows that key with that value, unless it has     *)
(* expired by then; after a DEL answered OK, or that found nothing, the    *)
(* key is not in it.                                                       *)
ResultOnPage ==
  ShowsTable /\ job.path = "/cmd" =>
    LET c == job.cmd
    IN  /\ c.op = "set" /\ page.result = "ok" =>
             \/ c.key \in DOMAIN page.rows /\ page.rows[c.key] = c.value
             \/ Expired(Deadline(c.ttl, seen.now), now)
        /\ c.op = "del" /\ page.result \in {"ok", "missing"} =>
             c.key \notin DOMAIN page.rows

(* The counter in STATUS is that of the users' commands, neither more nor  *)
(* less, however many queries the pages take: one for each TCP command     *)
(* that is done, and one for each browser whose request held a command and *)
(* has come to run it; a visit without a command counts nothing            *)
(* ("不增加用户命令计数", src/webpage.rs:51).                               *)
UserCommandsCounted ==
  LET pending == IF web \in {"locking", "command"} THEN {cur} ELSE {}
      due == IF tcp.at = "idle" THEN 0 ELSE 1
  IN  commands + due = calls + Cardinality(ran \ pending)

(* The page changes the store only by a command whose form has come whole, *)
(* and by that command, wherever a browser stops sending or goes away.     *)
OnlyWholeWrites ==
  [][data' # data /\ web = "command" /\ web' # web =>
       got = Whole(asks) /\ asks = job]_vars

(* A TCP command goes through, whatever browsers do: no browser that sends *)
(* half a request, does not read its answer or brings the web thread down  *)
(* keeps the mutex from it.  Only the end of the process ends it too.      *)
TcpProceeds == tcp.at # "idle" ~> tcp.at = "idle"

(* Every browser is answered or turned away in the end, in spite of those  *)
(* before it that stop in the middle of their request: unless one of them  *)
(* takes its answer for ever, for writing has no time limit, or sends bit  *)
(* by bit for ever, for the limit of src/web.rs:183 is that of one read.   *)
BrowsersServed ==
  \/ \A b \in Browsers : conn[b] = "open" ~> conn[b] # "open"
  \/ <>[](web = "writing")
  \/ []<>fed

(* One bad connection does not end the service ("单个连接失败不影响服务",  *)
(* src/web.rs:180).  It fails: parse_request panics on some texts.         *)
WebStaysUp == web \notin {"dead", "aborted"}
=============================================================================
