# RustKVS: a verification project

TLA+ modules for the key-value store in `src/` (repository root; the Rust crate
is under `src/src/`), TLC configurations that check them on small instances, and
TLAPS proofs of the properties that matter most for every value of the constants.
Paths below are those of the crate: `store/mod.rs` stands for
`src/src/store/mod.rs`, and so on.

## 1. The system

One process owns one data file. It keeps the whole map in memory, serves TCP
clients with one thread per connection and a web page with one more thread, and
appends every write to a text log that it replays when it starts.

| part | state | operations | talks to |
|---|---|---|---|
| store, `store/mod.rs` | a hash map from key to value and optional deadline | `set`, `get`, `delete`, `list`, `len`, `is_empty`; `validate_key`; lazy expiry, a sweep in `set` | called by server and by `recover` |
| persistence, `persistence.rs` | the file's path; the file | `append` (open, two writes, flush), `recover` (replay, line by line), `to_line`, `from_line` | called by server; calls `store.set` and `store.delete` |
| server, `server.rs` | `Arc<Mutex<Server>>` with store, log, start time, connection and command counters | `execute`, `execute_inner`, `status_snapshot`, `key_values`, `run_network`, `run_local`, `handle_connection` | store, persistence, parser; clients over TCP |
| parser, `parser.rs` | none | `parse_command`, `parse_value_and_ttl`, key and length checks | called by server, client, web page |
| protocol, `protocol/mod.rs` | none | the commands, the replies, their formatting | everyone |
| client, `client.rs` | the connection | `run_tcp_repl`: read a line, send it, wait up to 10 s for one reply | server over TCP |
| web transport, `web.rs` | the listener, one thread | `spawn_web_server`, `serve_loop`, `parse_request`, `parse_form`, `url_decode`, `html_escape` | browsers over HTTP; web page |
| web page, `webpage.rs` | none | `handle` and its routes: `index_page`, `data_rows` (LIST, then a GET per key), `query_key`, `run_command` | server, under the same mutex; parser |
| entry point, `main.rs`, `lib.rs` | none | argument dispatch, `run_local_client` | the above |

Interactions. Every command runs inside `server.lock()`, and so do the counting
of an arriving and of a departing connection; reading a request and sending a
reply happen outside it. A write goes to the file first and to memory second.
The start goes through `recover` before the listener accepts anyone.

### What is hard

* **Crash and recovery.** `writeln!` on an unbuffered `File` makes two writes,
  the record's text and the line end. `flush` does nothing on a `File`, and
  nothing calls `sync_data`. The process may die, the disk may fill up or the
  power may fail at any point between them, and `recover` accepts an unended last
  line. The TTL is not in the log.
* **Interleaving.** Any number of connection threads share one mutex, one file
  and two counters; the clock moves while a command runs, and `set` and `DEL`
  each read it more than once.
* **Lazy expiry.** Expired entries stay in the map, so every path that looks at
  the map has to filter them, and the overwrite and the deletion have to treat
  them as absent.
* **Failure paths.** `append` can fail in three places, each with its early
  return; a connection's thread can end in six places, one before it was counted.
* **Liveness.** A client that is silent or does not read must not hold the
  mutex.
* **Sessions.** Nothing numbers the requests: a reply belongs to a request only
  because it is the next line. The client times out on replies the server still
  computes, `EXIT` has no reply, either end may leave between the two writes of a
  line, and a value may hold a line end.
* **The web page.** One thread serves all browsers, one after the other, and
  takes the same mutex as the TCP threads: a browser that stops in its request,
  leaves in it or never takes its answer must not hold the mutex, must not run
  half a command, and should not keep the others waiting. The read timeout is that
  of one read, and the buffer for a body is as long as the request says it is. A
  page is put together from many queries, each with its own look at the clock. A
  panic ends the thread.
* **Texts.** A field of the form is encoded by the browser, decoded, split and
  trimmed before the parser sees it; the page reads keys and values by cutting
  the server's replies at blanks, and escapes what it shows.
* **Parsing.** A SET line is cut at both ends (key in front, perhaps a TTL
  behind); the client parses a line with its line end, the server without; what
  the parser accepts is later cut again by `from_line`.

### What makes each part correct

* *store*: answers as if entries disappeared at their deadline; a `set` bounds
  what laziness keeps in memory.
* *persistence*: a record reads back as it was written; replay ends with what
  the last record of each key says; a start is all or nothing.
* *server*: commands are atomic and take effect between request and reply;
  acknowledged writes survive; memory is never ahead of the log; a refused write
  leaves no trace in memory; the counter is exact; no client blocks another.
* *client and its connection*: a request is executed at most once, the reply
  that is printed is its own, neither side waits for ever.
* *parser*: reads the words of the line and nothing else; accepts nothing that
  the log cannot give back; client and server agree.
* *web*: a page shows one moment of the store and its own command's effect; only
  a command that came whole is run, and counted; a browser never stops a TCP client
  as long as the process lives, and stops another browser only by not taking its
  answer or by sending for ever (or by the panic of section 4); what is typed is what
  arrives, and what is stored is what is shown.

## 2. The modules

    StoreOps <-- KVStore --implements--> TTLMap
    StoreOps <-- LogFormat <-- Persistence <-- LogLife
                               Persistence <-- Server <-- ServerProps --implements--> DurableKV
                 LogFormat <-- Parser <-- WebText
    StoreOps <-- Web
    Session --implements--> AtMostOnce

(An arrow without a label is EXTENDS, from right to left.)

| module | models | |
|---|---|---|
| `StoreOps` | the methods of `KVStore` as operators on a map and a clock reading | shared by the store on its own, by replay and by the server |
| `KVStore` | `store/mod.rs` as a state machine: one action per method, and the clock | `data` = the hash map, expired entries included; `out` = the last call with its answer |
| `TTLMap` | *abstract*: a map whose entries are gone at the instant of their deadline | what `KVStore` promises |
| `LogFormat` | `to_line`, `from_line`, `BufReader::lines`, one turn of the replay | text is a sequence of symbols |
| `Persistence` | `append` write by write, each way it fails, kill, power failure, restart, `recover` line by line | `lines`, `tail` = the file; `phase` = the life of the process; `writing` = the record whose line end is still missing |
| `LogLife` | the log with an owner that does nothing but append and restart | |
| `Server` | `handle_connection`, `execute`, `execute_inner`, `status_snapshot`, the start in `run_network` | `pc[c]` = where the thread of connection `c` is; `lock` = the holder of the mutex |
| `ServerProps` | the properties of `Server`, its fairness, the refinement mapping | |
| `DurableKV` | *abstract*: one durable map on which each command takes effect at one instant | what `Server` promises its clients |
| `Session` | one `run_tcp_repl` against one `handle_connection` | `cl`, `sv` = where the two ends stand; `up`, `down` = the byte streams, as texts and line ends |
| `AtMostOnce` | *abstract*: requests done at most once and in order, each answered before the next | what `Session` promises the person at the prompt |
| `Parser` | `parse_command`, and a line's way through client, server and log | `line` = what was typed so far; the rest are operators on it |
| `WebText` | the web page's texts: form to command line, reply to table, table to markup | operators; the browser's own encoding is there to compare with |
| `Web` | the web thread, its browsers, one TCP thread at the same mutex | `web` = where the thread is; `cur` its browser, `got` the parts of the request it has read, `fed` that there is more to read; `page` = what it has built |
| `MCKVStore`, `MCLogLife`, `MCServer`, `MCSession`, `MCParser`, `MCWeb` | constants for TLC | |
| `KVStoreProofs`, `PersistenceProofs`, `ServerProofs`, `DurabilityProofs`, `ParserProofs`, `SessionProofs`, `WebProofs`, `WebTextProofs` | theorems and proofs | section 6; `PersistenceProofs` has the facts on the log that the others share, `DurabilityProofs` the theorems of `LogLife` and those of `Server` on what the log keeps |

An operator marked `\* Variant` is a plausible mistake in the definition that
follows it; it is used by no specification, only to see that a property would
notice the mistake.

### How actions correspond to code

*Steps.* Only what other threads, the file or a crash can see between two steps
is a step of its own. `execute_inner` of a SET is `Acquire` (the mutex, the
command counter), `WriteBody`, `WriteNewline` (the two writes of `append`),
`ApplySet` (store, reply chosen, guard dropped); DEL has the additional step
`DelHit`, its first look at the clock; commands that only look are one step. The
reply is sent in `Send`, after the mutex is free.

*Connections.* `Connect` is accept and spawn, `CloneFails` the early return of
`handle_connection` before the count, `Enter` the count (which needs the mutex),
`ReadLine` a line that parses or is rejected, `Disconnect`, `Exit`, `SendFails`
the exits of the loop, `Leave` the uncount (which needs the mutex again).

*Sessions.* Requests are numbered, and a reply carries the number of its
request, which is what the properties speak of and the code cannot see. Both
sides write a line in two `write_all` calls (`WriteText`, `WriteEnd`; `SendText`,
`SendEnd`) and `read_line` takes a line, or what is left when the other end is
gone (`Hear`, `Take`). `Server` has the other half: there a request is one step
and the wait for the mutex is many; in `Session` it is the other way round.
`ReplyLines` is the number of lines a reply takes: one, unless its value holds a
line end. In `Session` a fault is `timeout`, `kill_client` or `crash` (of the
server).

*Parsing.* The line is typed symbol by symbol, and the invariants speak of what
`Parse`, `ClientParse` and `ServerParse` make of it at every length. A symbol is
a character, but that a command word is one symbol, whatever its case; so the
limit on bytes is a limit on symbols. `ByWords` defines the same commands from
the positions where words begin and end.

*The web thread.* Between `Accept` and the close of the connection the thread
serves one browser. The request comes in pieces (`PieceComes`), and each read takes
one (`TakePiece`): it ends one of the three parts of a request (first line, headers,
body), or leaves it unended, for nothing limits the length of the first line or the
number of headers. `parse_request` ends in one of these ways: `ReadRequest` (all is
there), `ReadToEnd` (the browser has gone, which ends headers like a blank line, and
may have cut the first line into another one, `CutShort`), `ReadFails` (answered with
400: no request, an error, a body cut short, or a read of ten seconds without a
byte), `Panic` (`url_decode`, or a buffer longer than there can be) and `Abort` (no
memory for the buffer: the process ends, with its memory and its connections; what a
start brings back is `Server`'s).
`Lock` takes the mutex; `RunLine` or `RunNothing` is the command of `/cmd` and
`/get`; `ReadStatus`, `ReadList` and one `ReadRow` per key are the page's queries,
with the clock free to move between them; `Finish` drops the guard; `Written` and
`WriteFails` end the response. A page that is not found goes through the same
places with nothing to read. The other threads of the server are one here, since
all that a page can see of them is that one takes the mutex and executes
(`TcpLock`, `TcpExecute`); `Execute` is `execute_inner` without the log, which
`Server` has, so a refused append is only a reply, but with its two looks at the
clock in SET and in DEL. Two history variables: `seen`, the store and the clock when
the page's first query starts, and `ran`, the browsers whose request held a command.

*Web texts.* A field that is missing and one that is empty are one case (`NoLine`):
`webpage.rs:125-139` answers the one with 400 and runs `GET` for the other, which the
parser rejects, so neither is executed or counted. A symbol is one byte of the request; `Wide` is a character of two
bytes, `Lead` and `Trail`. `Cuts` says when the slice in `url_decode` panics:
`Web` takes such a request as `Garbled`. A form is `Encode`d as a browser does it,
and markup is read back by `Unescape`.

*Failures.* In `Persistence` and `Server`, the constant `Faults` says which may happen: `kill` (the process
dies, not between the two writes of an append), `kill_in_append` (there),
`open_error` (append fails before it writes), `torn_write` (append fails having
written part of the text, or the text and no line end), `read_error` (recover
cannot open or read the file), `power_loss` (the file comes back cut anywhere,
since nothing was synced).

*Text.* A symbol is a command word, the blank, or a piece of a key or value
that no fault splits. Keys and values are sequences of symbols, so that half a
`DEL ab` is `DEL a`, and two lines that run together read as a third. A value
may hold blanks, which is what the second-blank rule of `from_line` is about. A
value with a line end is in `WebText` only: the TCP path cannot carry one. `recover`
also stops when the store refuses a key (`persistence.rs:118-125`); no file that the
modelled failures leave has such a key, since what they leave are beginnings of
records of accepted keys, run together.

*Time.* `now` is `Instant::now()`, in ticks. `set` sweeps at one reading and
counts the deadline from a later one (`now' \in now .. MaxTime`).

*History variables.* `promised[k]` is the set of values the key `k` may have
after a restart: a write adds its own when it starts to write and makes it the
only one when it is answered OK.
`requests` and `crashes` only bound the instance. `OkSurvives` reads `promised[k] = {v}` as:
the last write of `k` was a SET of `v`, answered OK.

## 3. The runs

| run | question | expected |
|---|---|---|
| `kvstore` | Does the lazy store answer as the eager map (`ImplementsEagerMap`), and does `set` leave nothing behind that had expired (`SetReclaims`)? | holds |
| `loglife` | Whatever the failures: does replay follow the log at every line (`ReplayFollowsLog`), is a start all or nothing (`RecoversAllOrNothing`), does a completed append read back (`AppendReadsBack`)? | holds |
| `server` | With kills outside append and failing opens: does every acknowledged write survive (`AckedSurvives`), and do the clients see one linearizable durable map (`ImplementsDurableKV`)? | holds |
| `server_faults` | With every failure there is: mutual exclusion (`LockCoversExecute`), the exact counter (`ConnectionsCounted`), log before memory (`LoggedBeforeApplied`), memory never ahead of a whole log (`MemoryOnFile`), memory changing only in the step that answers an accepted write (`RefusedWritesKeepMemory`) | holds |
| `server_live` | Does a thread only ever wait for its own client (`ThreadsProceed`), and does every start end (`StartEnds`)? | holds |
| `session` | With timeouts, kills of the client and crashes of the server: is every reply printed that of the request just asked (`RepliesMatch`), are requests executed at most once and in order (`ImplementsAtMostOnce`), does every wait end (`WaitEnds`), does the thread of a client that left end (`ThreadEnds`), does EXIT end both sides (`ExitEnds`)? | holds |
| `parser` | On every short line: does `parse_command` read the words (`ParsesByWords`), does what it accepts come back from the log (`RecordsReplay`), does the server agree with its client (`ServerAgrees`)? On every short text: does the form deliver it (`FormDelivers`), does the page show it (`PageShowsText`), does the page find keys and values in the replies (`PageReadsReplies`)? | holds |
| `web` | With browsers that stop, leave or never read: is a page one moment of the store (`PageIsOneMoment`), does it agree with its command's reply (`ResultOnPage`), are exactly the users' commands counted (`UserCommandsCounted`), does only a whole command write (`OnlyWholeWrites`), does a TCP client always get through (`TcpProceeds`), is every browser served unless one takes its answer, or sends, for ever (`BrowsersServed`)? | holds |
| `server_glue` | A kill between the two writes of one append: would a restart bring back what the last SET answered OK has written (`OkSurvives`)? | violated |
| `loglife_truncation` | Is a truncated record noticed at the start? | violated |
| `web_panic` | Does the web thread outlive every request? | violated |
| `line_end` | Does every SET and DEL that the page hands to the server take one line of the log, and read back? | violated |

### Bounds, and why they are enough

* *kvstore*: two keys (an operation on one may disturb the other), one rejected
  spelling, two values, TTL 0, 1, 2 and none, clock up to 4: an entry can be
  overwritten with a longer, a shorter or no deadline before, at and after its
  old one, and a second generation of entries can expire.
* *loglife*: two keys, one a prefix of the other (a DEL cut short names the
  other key), two values, one of them with a blank; two whole lines and an
  unended tail, which can itself be two records run together. `MaxLines` and
  `MaxTail` bound only when an append may *start*.
* *server*: two connections race for one mutex; three requests allow a write, a
  conflicting write and a look on two keys, before, during and after one crash.
  One TTL and a clock up to 2 let a key expire between any two steps of a
  command. Connections are symmetric. `server` leaves out `ping`, `exit` and
  rejected lines, which are in `server_faults`; `server_faults` has a clock up to 1.
* *server_live*: one key, two requests, no symmetry (liveness).
* *session*: four requests, each of which may be the EXIT; a reply that came
  late could be taken for the next request's, and then for all that follow.
* *parser*: eight symbols are `SET a a 11` with blanks, tabs, digits or a minus
  anywhere. The greatest TTL is 1 and the greatest number 10, so that two digits
  are enough for a TTL that is zero, legal, too long and no number; the length
  limit is 8, which a line of 8 symbols meets without its line end and passes
  with it. Lines of the other commands are typed to six symbols and lines
  without a command to four (the constraint `Worthwhile`); the argument of those
  commands is only looked at for blanks. Texts for the form are up to four of
  twelve symbols, which is enough for `%25` and `&lt;`, themselves codes, with a
  neighbour. Deadlock is not checked: typing ends. `line_end` types a line end, a
  blank and one letter.
* *web*: two browsers (one waits behind the other), each with one of twelve
  requests that cover all routes, the commands SET, DEL and EXIT, a rejected line,
  a text that panics and a body too long to allocate; the parts of a request are
  three, the reads they take unbounded; one TCP command, which may fall between any two steps;
  two keys, so that a page has two rows; a clock up to 1, at which a TTL of 1 ends.
  Deadlock is not checked: browsers come once, and TCP commands are used up.
* Every bound is a constant named for what it bounds: `MaxTime`, `MaxLines`,
  `MaxTail`, `MaxRequests`, `MaxCrashes`, `MaxTyped`. Deadlock is checked in
  every run but `parser`, `web` and those on their modules: with the requests used up a client can still come and
  go, a process can still be started, and a session that is over says so
  (`Over`).

### Fairness

`FairSpec` assumes that the operating system runs a thread that can go on
(`WF_vars(ThreadStep(c))`, for each connection) and the starting process
(`WF_vars(Recovering)`). Steps that wait for a client (`ReadLine`, `Send`) and
the client's own get no fairness: a client may never send and never read. Nobody
has to restart the server. Weak fairness of the mutex is enough because the
requests of an instance are bounded: a thread cannot be overtaken for ever.
Under unbounded contention a `std::sync::Mutex` promises no order, and neither
does this project.

`Web!FairSpec` assumes that the web thread goes on unless it waits for a browser
to take its answer (`WF_vars(WebStep)`; a read that waits ends after ten seconds,
`web.rs:183`), and that the TCP thread does (`WF_vars(TcpStep)`). Browsers get
none: they may never send, send for ever, never leave, never read. Weak fairness of
`WebStep` does not end a request: as long as pieces come, the step it takes is
`TakePiece`. There is no time limit on a request, nor on writing the answer, so
`BrowsersServed` says what is left to promise: every browser is served, or the thread
writes for ever, or one browser sends for ever.

`Session!FairSpec` assumes that the thread runs, and that the client writes the
line it has read and takes an answer that is there. Nobody has to type, and no
failure has to happen: `WaitEnds` does not lean on the timeout. The wait for the
mutex is part of the thread's fairness; `ThreadsProceed` is what justifies that.

## 4. What the violated runs show

1. **A kill inside `append` can cost an acknowledged write or the whole log**
   (`server_glue`, `persistence.rs:93`). The record without its line end is
   accepted by the next start; the next record is appended to the same line. In the
   trace a SET of `a` is killed there and, after the restart, sent again and answered
   OK: the file is then the one line `SET a xSET a x`, by which `a` has the value
   `xSET a x` after the next restart. Likewise `SET a x` followed by `SET b y` reads as a
   value of `a`, and `DEL a` followed by anything is unreadable: the server no longer
   starts. `server.rs:63` promises that an acknowledged write survives a restart.
2. **Truncation is not always an error** (`loglife_truncation`,
   `persistence.rs:110`): a record cut where the rest still parses is replayed
   as another record; `persistence.rs:101` promises an error. In the trace `SET a x` is cut
   to `SET a ` by a power failure, which is replayed as the empty value. A `DEL ab` cut to
   `DEL a` is replayed as the deletion of another key.
3. **One request can end the web page for everybody** (`web_panic`, `web.rs:107`).
   `url_decode` takes the two bytes behind a percent sign as a `str` slice and
   panics when they end inside a character. The thread is the only one, so the
   page is gone until a restart; `web.rs:180` says that one failing connection does
   not affect the service. The mutex is not held and is not poisoned: `TcpProceeds`
   holds all the same. Browsers encode such characters (`FormDelivers`).
4. **A value may hold a line end** (`line_end`, `parser.rs:109`). A program that
   posts to `/cmd` can send one (the text fields of the page cannot), `trim` cuts
   only the ends, and the record is then two lines of the log, which the next start
   refuses, or reads as another record. `PROTOCOL.md:23` excludes it.

Seen while modelling, without a run of their own:

* *A key that had expired is back after a restart, for good*
  (`persistence.rs:117`): the log has no TTL. `DEMO.md:120` documents that a TTL
  becomes permanent; `DurableKV` says it as it is (a crash brings faded keys back).
* *A DEL may be logged and answered "no such key"* (`server.rs:132`), when the key
  expires while its record is being written.
* *A reply of two lines puts a session out of step.* The GET of a value with a line
  end gets two lines, and from there on each request is shown the answer of the
  one before: `RepliesMatch` fails with `ReplyLines = {1, 2}` in `Session.cfg`.
* *The read timeout does not bound a request* (`web.rs:183`). It is the timeout of one
  read; headers are read without limit (`web.rs:64-78`), so a browser that sends one
  after the other keeps the only web thread reading for ever. `web.rs:182` says that
  the timeout keeps the thread from hanging on a request that is never whole: that
  is so of a browser that stops, not of one that goes on. Without its disjunct
  `[]<>fed`, `BrowsersServed` fails on this (`PieceComes`, `TakePiece` in turn at the
  headers). TCP clients are not concerned (`TcpProceeds`): the mutex is free.
* *A length ends the thread, or the process* (`web.rs:83`): the buffer for a body is
  allocated from `Content-Length`. One that is too long panics like the text of item 3
  (`Panic`), one that memory cannot hold aborts the process (`Abort`). `WebStaysUp`
  speaks of both.
* *`%+5` is a byte* (`web.rs:108`): `from_str_radix` accepts a sign, and `IsByte`
  with it. No browser sends it.
* *A GET line that was cut short is another request*: `read_line` returns what is
  there when the browser leaves, so `/get?key=ab` may be asked, and counted, as
  `/get?key=a` (`CutShort`). Nobody reads the answer.
* *OK does not mean "on disk".* `append` ends with a `flush` that does nothing
  (`persistence.rs:94`) and never syncs; `DEMO.md:118` says that an OK survives a
  power failure. `AckedSurvives` fails with `Faults = {"power_loss"}` in
  `ServerGlue.cfg`.
* *Reads clean nothing up.* `get`, `list` and `len` take `&self`; the comment at
  `store/mod.rs:9` says they clean up what has expired. Only memory is concerned.
* *EXIT gets no BYE* (`PROTOCOL.md:16`): `execute` answers it with `None`, and the
  client prints that the server has closed the connection.
* *The last word of a value may be its TTL* (`parser.rs:114`): `PROTOCOL.md:23`
  says that all after the second blank is the value. `ByWords` states what the
  code does. `protocol/mod.rs` has a message for a bad TTL (`INVALID_TTL`) that the
  parser does not use.
* *The longest line.* A line of exactly `MAX_MSG_LEN` bytes is legal for the
  server and cannot be sent by its client, which counts the line end too.

## 5. The three refinements

*KVStore implements TTLMap.* `map` is the swept map, the clock and the answers
are the same. What has to be right: the deadline itself counts as expired, `set`
does not keep an old deadline, sweeping at two readings is sweeping at the later
one, deletion and sweep commute. Checked and proved.

*Server implements DurableKV.* `table` is what the file says; `mortal` are the
keys with a TTL running, `gone` those that have faded. A write takes effect in
`WriteBody`, when its text is in the file, not in the step that updates memory:
from there on a crash keeps it. The client's answer is then settled later
(`Settling`), because a DEL may still find its key expired. The abstract map
brings faded keys back at a crash, because the log has no TTL. Checked with
`Faults = {"kill", "open_error"}`; with the others it does not hold, which is
what the runs of section 4 show. Proved for `IntactAppends`.

*Session implements AtMostOnce.* The streams, the two-part writes and the places
of the two ends are hidden; `asked` is the number of requests, `over` that the
client has left. A request takes effect in `Execute`, possibly when nobody waits
for it any more. What has to be right: the client asks only after it has heard,
a timeout ends the session, the thread executes what it has read once and never
again. Checked and proved.

## 6. What is proved

For all constants that satisfy the assumptions, with no bound on connections,
keys, values, requests, crashes or time:

| theorem | says |
|---|---|
| `KVStoreProofs!TypeCorrect`, `SetsReclaim`, `LazyImplementsEager` | `TypeOK`, `SetReclaims`, `ImplementsEagerMap` |
| `PersistenceProofs!RecordReadsBack` | `FromLine[ToLine(r)] = r` for every record of legal keys and values |
| `DurabilityProofs!LogTyped`, `ReplayFollows`, `RecoveryComplete`, `AppendsReadBack` | `LogTypeOK`, `ReplayFollowsLog`, `RecoversAllOrNothing`, `AppendReadsBack` under every failure |
| `ServerProofs!ServerTypes`, `LockHeld`, `CounterExact`, `LogComesFirst`, `RefusalsKeepMemory` | `ServerTypeOK`, `LockCoversExecute`, `ConnectionsCounted`, `LoggedBeforeApplied`, `RefusedWritesKeepMemory` under every failure |
| `DurabilityProofs!AcknowledgedSurvives`, `MemoryIsOnFile`, `ServerImplementsMap` | `AckedSurvives`, `MemoryOnFile`, `ImplementsDurableKV`, if `IntactAppends` |
| `ParserProofs!AcceptedReplays`, `ServerReadsTheSame`, `ReadsTheWords` | `RecordsReplay`, `ServerAgrees`, `ParsesByWords`, for lines of any length |
| `SessionProofs!SessionTypeCorrect`, `RepliesAlwaysMatch`, `SessionIsAtMostOnce` | `SessionTypeOK`, `RepliesMatch`, `ImplementsAtMostOnce` under every failure, if replies are one line |
| `WebProofs!WebTypeCorrect`, `PageOfOneMoment`, `ResultAndTableAgree`, `WritesAreWhole`, `VisitsCountOnce` | `WebTypeOK`, `PageIsOneMoment`, `ResultOnPage`, `OnlyWholeWrites`, `UserCommandsCounted`, that is all of the run's safety properties |
| `WebTextProofs!FormAlwaysDelivers`, `PageAlwaysShowsText`, `PageAlwaysReadsReplies` | `FormDelivers`, `PageShowsText`, `PageReadsReplies`, for texts of any length |
| `WebTextProofs!EveryKeyListed` | `ListedKeys(KeysReply(ks)) = ks` for any sequence of legal keys, the empty one included |

### Assumptions

* `NeverAssumption`: the absent deadline is no number. `StoreAssumption`: keys
  are accepted or rejected, not both; TTLs are naturals.
* `SymbolsAssumption`: the command words and the blank are symbols.
* `LogAssumption`: a key is a non-empty text without a blank (`validate_key` of
  the parser), a value a non-empty text; `NoRecord` is no record.
* `ServerAssumption`: "nobody" is not a connection, TTLs are positive (the
  parser refuses 0), the bounds are naturals.
* `ParserAssumption`: command words are not among the other characters typed, and
  all of them and the three white ones are symbols; the limits are naturals. That
  a record reads back is said of its text alone: a key or value with a line end
  would be two lines of the file, which `line_end` is about.
* `WebTextAssumption`: what is typed into a form are symbols, and half a character
  is none of them. Half a character inside a request is not a typed text; it is in
  `Web`, as the request that panics.
* `IntactAppends` (a hypothesis of the theorems of `DurabilityProofs` on the server, not an
  assumption of the model): the only failures are kills outside the two writes of an append,
  failing opens and failing reads. `server_glue` shows that they do not hold
  without it.
* `SessionAssumption`: commands are calls or exits, a reply has at least a line.
  `ReplyLines \subseteq {1}` is a hypothesis of the session's theorems; they do not
  hold without it (section 4).
* `WebAssumption`: requests and TCP commands are such as the routes and the parser
  let through; the maps `recover` may have built are finite, with legal keys and
  values; "nobody" is no browser and no thread, the error text no value.

### The arguments

*The store.* `TypeOK` is inductive and gives that deadlines are numbers or
absent; the refinement is then one lemma per method (`SweepIsAt`,
`LaterSweepWins`, `DeleteSweeps`, ...).

*The log.* `RecordReadsBack` computes where the first and the second blank of a
written line are: the first after the command word, the second after the key,
because a key holds none. `NamingAppended` says which record is the last that
names a key when one more is appended, `ReplayAppends` that one turn of
`recover` on top of what n records say is what n+1 records say. `RecoverInv`, the
inductive invariant of a start, is that `data` is what the first `pos` lines
say, that `pos` is within the file, and that all lines before `pos` were
readable. The greatest number of a finite set of positions, which the definition
of "last" needs, is obtained from the least counterexample in a well-founded
order, since induction theorems over operators cannot be instantiated.

*The server.* `ServerInv` is inductive, in layers, each of which the next one's
steps lean on:
`LockInv` (the lock's holder is exactly the thread inside `execute`, so at most
one is); `WriteInv` (a thread inside has the request it came with, and one that
is writing has a write); `CountInv` (the counted threads are finitely many and
the counter is their number; finiteness has to be carried along, since the
connections themselves may be infinitely many); `LogFirstInv` (the record of
the writing thread is what the file ends with, before its line end and after it).
`LoggedBeforeApplied` alone is not inductive: nothing in it says that the text
that `WriteNewline` completes is the text of the thread's own record.

*Durability.* `DurableInv` adds to it: `WholeInv` (every line is readable, and
the tail is exactly the record being written); `WrittenInv` (from its first
write on, the file says what the thread wants); `PromisedInv` (what the file
says of a key is among the promised values); `AliveInv` (no threads without a
process); `RecoverInv`; and `MemoryInv` (memory's entries, but for the key being
written, are in the file). `MemoryInv` needs `RecoverInv` when a start ends, and
`WrittenInv` when a write reaches memory; `PromisedInv` needs `WrittenInv` in the
step that promises a single value. The bridge to text is `BodyIsAppended`: after
`WriteBody` the file says what it said before but for one key.

*The server's types.* `TypeInv` has to know what a thread may answer: `ReplyInv`
says that what a thread is about to send is a reply (every answer of every command
is one, `AnswerIsReply`), and `Deadlines`, that every entry's deadline is a number or
absent, is kept by each store operation and by replay (`StoredStep`). Only values and
their absence are ever promised, and crashes are bounded (`HistoryStep`); the other
variables' types were already in `ServerInv`.

*The server as a map.* `RefineInv` is `DurableInv`, `TypeInv` and `DeletingInv`: a
thread that is deleting still has its key in memory, since nobody else can take it
out. Each action of `Server` is one lemma that names the action of `DurableKV` it
is: arrival a call (`ReadInvokes`); a look, and a DEL of nothing, an answer
(`LookLooks`); the first write of an append is where the command takes effect
(`BodySets`, `BodyDeletes`); the update of memory settles what is answered
(`ApplySetSettles`, `ApplyDelSettles`); `Send` and `Exit` end the call; a tick lets
keys fade (`TickFades`), a kill is `Crash`, and the lines of a restart cannot be
seen (`StartUnseen`). `UnseenSteps` are the rest. What carries it is `MapIsMemory`:
when a thread has the mutex and has not written, what the file says of the keys
that have not expired is what memory says.

*The parser.* `TrimStartCuts`, `TrimEndCuts` and `WordLenCuts` say where a text is
cut, from the least and the greatest position of a set, without induction;
`TakeWordCuts` that a word holds nothing white; `ParseAccepts` that so the key of
every accepted SET and DEL is a non-empty word, and its value a text.
`RecordsReplay` is then `SetReadsBack` and `DelReadsBack`, the lemmas behind
`RecordReadsBack`; `ServerAgrees` that trimming an end twice is trimming it once,
and that the server measures less than its client.
`ParsesByWords` needs the words of a line counted, without induction over the line.
`PartOfPart`, `PartTrim` and `PartTakeWord` keep everything `parse_command` holds a
part of the one trimmed line, so that each of its cuts is a pair of positions.
A word is known by its first and its last position (`WordFrom`, `WordTo`,
`WordsApart`), of which there are equally many by a bijection (`AsManyEnds`); the
n-th word is the one with n beginnings up to it, so taking a word off the left
takes one off the count (`WordAdds`, `SoManyWords`, `NextTaken`), and the search for
a TTL from the right finds the last two words (`LastTwoWords`). `CutsAtWords`
and `WordsSay` join the two sides, `ParseIsByWords` command by command.

*The session.* `SessionInv` says where each end can be when the other is
somewhere, and what is in the streams then: a request on its way is the last one
asked and not executed (`Upstream`), a reply on its way is to the last request
and awaited (`Downstream`), the thread at work has the last request and the
client waits or is gone (`ThreadPlace`). `RepliesMatch` on its own is not
inductive, since it says nothing of what is in `down` before it is heard.

*Refused writes.* `RefusalsKeepMemory` goes through every action: only `ApplySet`,
`ApplyDel`, a crash and the lines of a start change `data`, and the last two are not
steps from up to up. Of the first two, `OthersKept` says that a sweep and a change of
one key leave every other key that can be read.

*The web page.* `TypeInv` is inductive and says, beside the types, whose the mutex
is and when a browser is in service. `PageInv` adds that the store is the one the
page started from as long as the thread holds the mutex (`SeenInv`), that what
STATUS counted covers what LIST will name (`CountInv`), and what is true of the
keys LIST has named, read or not (`RowsRight`); `PageIsOneMoment` says nothing
before the last row is read, so it is not inductive. `LiveShrinks`, that time only
takes keys away, is what keeps both when the clock moves. `ResultOnPage` follows
from these and `AnswerRight`, what a reply says of the store behind it.
`WholeInv` ties the command in hand to what has come of the request.
`VisitsCountOnce` counts: `CountedInv` is the balance of the counter with the TCP
commands and the browsers in `ran`, less the one whose command is still to come. It
needs `RanInv`, that the browser in service is in `ran` exactly if what it wants is a
command, and that all others there are closed, and `QueueInv`, that a connection is in
one place only, so that nobody is served twice.

*The web texts.* The functions of `web.rs` go over a text symbol by symbol, and an
induction over the text cannot be had from the library (its theorems take an
operator). `StepByStep` is induction for a *set* of numbers, which follows from
`LeastNumber` and can be cited; `ScanIs` uses it to show that the recursive function
of `Scan` exists, `FlattenCuts` that `FlattenSeq` lays its pieces end to end, and
where, `InOrderIs` that `InOrder` gives rising numbers back in their order. With these no further induction
is needed. A text that was encoded piece by piece and is scanned by steps as long as
the pieces comes back (`ScanByPieces`): so `Unescape` of `HtmlEscape` (`ShownReadsBack`),
where what matters is that a shown `&` is never plain, and `UrlDecode` of `Encode` (`EncodeDecode`), where it matters that
a code's two digits are no code again and that `Wide` is put back from its two
bytes (`BytesBack`). What is encoded has no `&`, no `=` and no blank (`SentBytes`),
so that the body of the form is cut into its two fields (`SplitIs`, `FormReaches`) and
the query into its one (`QueryDelivers`).
For the replies, `SetAccepts` says what an accepted SET leaves: a key of one word,
a value that does not end in anything white, and a line with room for
`GET` and the key. A value may hold blanks, so the reply is cut at the
first one only (`RowShows`); the keys are cut at all (`KeysCut`,
`EveryKeyListed`); and the GET of a listed key is within the length limit (`GetReads`).

## 7. What is only model-checked

Liveness (`ThreadsProceed`, `StartEnds`, `WaitEnds`, `ThreadEnds`, `ExitEnds`, `TcpProceeds`,
`BrowsersServed`): the prover does not reach fairness and ENABLED. `BrowsersServed` is
conditional, as section 3 says, and `TcpProceeds` counts the end of the process as the
end of the command. Every safety and
every action property of a run that holds is a theorem.

## 8. What is not modelled, and what is left

Not modelled for good: wording and layout of replies, the HTML of the page, the
status line and headers of an HTTP response, logging, argument parsing (`main.rs`),
the uptime in STATUS, the sorted order of LIST, `key_values`, which nothing calls.
`run_local` and the local client read a line, execute it and print, with one thread
and no state between two lines: `KVStore`, `Persistence` and `Parser` have all of it
but the loop. `execute_inner` has no path that panics, so mutex poisoning does not
occur in the modelled code; the panics of the web thread happen outside the lock.
Two processes that own one file are not modelled: nothing in the code is meant to
prevent or to survive it, so there is no promise to check.

`Web` leaves the log out and `Server` the web thread. What ties them together is the
mutex: the web thread takes it once, as an arriving connection does in `Server`, runs
at most one command through the same `execute`, and looks at the store.

## 9. Running it

    tlc -workers 2 -config KVStore.cfg MCKVStore
    tlc -workers 2 -config LogLife.cfg MCLogLife
    tlc -workers 2 -config Server.cfg MCServer        # and the other Server*.cfg
    tlc -workers 2 -config Session.cfg MCSession
    tlc -workers 2 -config Parser.cfg MCParser        # and LineEnd.cfg
    tlc -workers 2 -config Web.cfg MCWeb              # and WebPanic.cfg
    tlapm DurabilityProofs.tla                         # and the other *Proofs.tla

`PROJECT.json` lists the components, the runs, the source lines each definition
stands for, the findings, the hazards with the properties that cover them, and
the theorems. The check of a property's strength is also there: for each
property of each run that holds, the variant of one definition under which it
fails.
