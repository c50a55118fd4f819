------------------------------ MODULE WebProofs ------------------------------
(***************************************************************************)
(* What Web.tla promises of the page, for any browsers, requests, keys and *)
(* values, and whatever a TCP client does beside it.                       *)
(***************************************************************************)
EXTENDS Web, FiniteSetTheorems, TLAPS

Times == Nat \cup {Never}

(* The store: finitely many legal keys, each with a value and a deadline.  *)
Good(d) ==
  /\ IsFiniteSet(DOMAIN d) /\ DOMAIN d \subseteq Keys
  /\ \A k \in DOMAIN d : d[k].value \in Values /\ d[k].exp \in Times

LEMMA EmptyIsGood == Good(EmptyMap)
  BY FS_EmptySet DEF Good, EmptyMap

LEMMA SetStaysGood ==
  ASSUME NEW d, Good(d), NEW k \in Keys, NEW v \in Values,
         NEW ttl \in Times, NEW t1 \in Nat, NEW t2 \in Nat
  PROVE  Good(SetEntry(d, k, v, ttl, t1, t2))
<1> DEFINE s == SweepExpired(d, t1)
<1>1. DOMAIN s \subseteq DOMAIN d /\ \A x \in DOMAIN s : s[x] = d[x]
  BY DEF SweepExpired, Restrict, LiveKeys
<1>2. IsFiniteSet(DOMAIN s \cup {k})
  BY <1>1, FS_Subset, FS_AddElement DEF Good
<1>3. Deadline(ttl, t2) \in Times
  BY DEF Deadline, Times
<1> DEFINE n == SetEntry(d, k, v, ttl, t1, t2)
<1>4. /\ DOMAIN n = DOMAIN s \cup {k}
      /\ \A x \in DOMAIN n : n[x] = IF x = k THEN [value |-> v, exp |-> Deadline(ttl, t2)]
                                             ELSE s[x]
  BY DEF SetEntry, Insert
<1> HIDE DEF s, n
<1> QED
  <2>1. Good(n)
    BY <1>1, <1>2, <1>3, <1>4 DEF Good
  <2> QED
    BY <2>1 DEF n

LEMMA DeleteStaysGood ==
  ASSUME NEW d, Good(d), NEW k, NEW t
  PROVE  Good(DeleteEntry(d, k, t))
<1>1. IsFiniteSet(DOMAIN d \ {k})
  BY FS_RemoveElement DEF Good
<1> QED
  BY <1>1 DEF DeleteEntry, Restrict, Good

(* Keys only go as the clock moves. *)
LEMMA LiveShrinks ==
  ASSUME NEW d, Good(d), NEW t1 \in Nat, NEW t2 \in Nat, t1 <= t2
  PROVE  /\ LiveKeys(d, t2) \subseteq LiveKeys(d, t1)
         /\ \A k \in DOMAIN d : Expired(d[k].exp, t1) => Expired(d[k].exp, t2)
  BY DEF LiveKeys, Expired, Good, Times

LEMMA LiveCounts ==
  ASSUME NEW d, Good(d), NEW t
  PROVE  /\ IsFiniteSet(LiveKeys(d, t)) /\ Cardinality(LiveKeys(d, t)) \in Nat
         /\ \A S \in SUBSET LiveKeys(d, t) :
              IsFiniteSet(S) /\ Cardinality(S) <= Cardinality(LiveKeys(d, t))
<1>1. IsFiniteSet(LiveKeys(d, t))
  BY FS_Subset DEF Good, LiveKeys
<1> QED
  BY <1>1, FS_Subset, FS_CardinalityType

Results == {"none", "400", "error", "ok", "missing", "refused"}

LEMMA ExecuteKeeps ==
  ASSUME Good(data), now \in 0 .. MaxTime, NEW c \in Commands, NEW reply,
         Execute(c, reply)
  PROVE  Good(data') /\ commands' = commands + 1 /\ now' \in 0 .. MaxTime
<1>1. commands' = commands + 1
  BY DEF Execute
<1>2. CASE c.op = "set"
  <2>1. c.key \in Keys /\ c.value \in Values /\ c.ttl \in Times
    BY <1>2 DEF Commands, Times
  <2>2. \/ /\ now' \in now .. MaxTime
           /\ data' = SetEntry(data, c.key, c.value, c.ttl, now, now')
        \/ UNCHANGED <<now, data>>
    BY <1>2 DEF Execute
  <2>3. now' \in 0 .. MaxTime
    BY <2>2, WebAssumption
  <2> QED
    BY <1>1, <2>1, <2>2, <2>3, SetStaysGood, WebAssumption
<1>3. CASE c.op # "set"
  <2>1. \/ now' \in now .. MaxTime /\ data' = DeleteEntry(data, c.key, now')
        \/ UNCHANGED <<now, data>>
    BY <1>3 DEF Execute, Commands
  <2>2. now' \in 0 .. MaxTime
    BY <2>1, WebAssumption
  <2> QED
    BY <1>1, <2>1, <2>2, DeleteStaysGood
<1> QED
  BY <1>2, <1>3
-----------------------------------------------------------------------------
(* Types, the lock, and which browser is served: inductive together.       *)
ThreadPlaces ==
  {"off", "accept", "reading", "locking", "writing", "dead", "aborted"} \cup Holding
Serving == {"reading", "locking", "writing"} \cup Holding

RowMaps == UNION {[S -> Values \cup {Gone}] : S \in SUBSET Keys}

StoreTyped == now \in 0 .. MaxTime /\ commands \in Nat /\ Good(data)

LockAgrees ==
  /\ lock \in {Free, "web", "tcp"}
  /\ lock = "web" <=> web \in Holding
  /\ lock = "tcp" <=> tcp.at = "holding"

TcpTyped ==
  /\ tcp \in [at : {"idle", "waiting", "holding"}, cmd : Commands \cup {NoLine}]
  /\ tcp.at # "idle" => tcp.cmd \in Commands

NetTyped ==
  /\ conn \in [Browsers -> {"new", "open", "left", "closed"}]
  /\ queue \in Seq(Browsers)

ThreadTyped ==
  /\ web \in ThreadPlaces
  /\ cur \in Browsers <=> web \in Serving
  /\ asks \in AnyRequest /\ job \in AnyRequest /\ got \in 0 .. 3
  /\ ran \subseteq Browsers

(* There is more to read only while the request is not there as a whole.  *)
FedTyped ==
  /\ fed \in BOOLEAN
  /\ fed = FALSE \/ (web = "reading" /\ got < Whole(asks))

PageTyped ==
  page \in [result : Results, count : Nat, todo : SUBSET Keys, rows : RowMaps]

TypeInv ==
  /\ StoreTyped /\ LockAgrees /\ TcpTyped /\ NetTyped /\ ThreadTyped /\ FedTyped
  /\ PageTyped

LEMMA RequestsTyped ==
  /\ NoRequest \in AnyRequest
  /\ \A r \in AnyRequest : CutShort(r) \subseteq AnyRequest
  /\ \A r \in AnyRequest : r.path = "/cmd" => [r EXCEPT !.cmd = NoLine] \in AnyRequest
  /\ Requests \subseteq AnyRequest /\ Calls \subseteq Commands
<1>1. NoRequest \in AnyRequest
  BY DEF NoRequest, AnyRequest
<1>2. ASSUME NEW r \in AnyRequest PROVE CutShort(r) \subseteq AnyRequest
  <2>1. [path |-> r.path, cmd |-> NoLine] \in AnyRequest
    BY DEF AnyRequest
  <2>2. [path |-> "/", cmd |-> NoLine] \in AnyRequest
    BY DEF AnyRequest
  <2>3. [path : {"/get"}, cmd : {Bad} \cup {c \in Commands : c.op = "get"}]
          \subseteq AnyRequest
    BY DEF AnyRequest
  <2> QED
    BY <1>1, <2>1, <2>2, <2>3 DEF CutShort
<1>3. ASSUME NEW r \in AnyRequest, r.path = "/cmd"
      PROVE  [r EXCEPT !.cmd = NoLine] \in AnyRequest
  BY <1>3 DEF AnyRequest
<1> QED
  BY <1>1, <1>2, <1>3, WebAssumption

LEMMA NoPageTyped ==
  NoPage \in [result : Results, count : Nat, todo : SUBSET Keys, rows : RowMaps]
<1>1. EmptyMap \in [{} -> Values \cup {Gone}]
  BY DEF EmptyMap
<1>2. EmptyMap \in RowMaps
  BY <1>1 DEF RowMaps
<1> QED
  BY <1>2 DEF NoPage, Results

LEMMA TypeInvInit == Init => TypeInv
<1> SUFFICES ASSUME Init PROVE TypeInv
  OBVIOUS
<1>1. StoreTyped
  <2>1. PICK m \in Kept : data = [k \in DOMAIN m |-> [value |-> m[k], exp |-> Never]]
    BY DEF Init
  <2>2. Good(data)
    BY <2>1, WebAssumption DEF Good, Times
  <2> QED
    BY <2>2, WebAssumption DEF Init, StoreTyped
<1>2. LockAgrees
  BY WebAssumption DEF Init, LockAgrees, Holding
<1>3. TcpTyped
  BY DEF Init, TcpTyped
<1>4. NetTyped
  BY DEF Init, NetTyped
<1>5. ThreadTyped
  BY WebAssumption, RequestsTyped DEF Init, ThreadTyped, ThreadPlaces, Serving, Holding
<1>6. PageTyped
  BY NoPageTyped DEF Init, PageTyped
<1>7. FedTyped
  BY DEF Init, FedTyped
<1> QED
  BY <1>1, <1>2, <1>3, <1>4, <1>5, <1>6, <1>7 DEF TypeInv

LEMMA RowsGrow ==
  ASSUME PageTyped, NEW k \in Keys, NEW v \in Values \cup {Gone}
  PROVE  Insert(page.rows, k, v) \in RowMaps
<1>1. PICK S \in SUBSET Keys : page.rows \in [S -> Values \cup {Gone}]
  BY DEF PageTyped, RowMaps
<1>2. Insert(page.rows, k, v) \in [S \cup {k} -> Values \cup {Gone}]
  BY <1>1 DEF Insert
<1> QED
  BY <1>2 DEF RowMaps

LEMMA StoreStep == TypeInv /\ [Next]_vars => StoreTyped'
<1> SUFFICES ASSUME TypeInv, [Next]_vars PROVE StoreTyped'
  OBVIOUS
<1> USE DEF TypeInv
<1>1. CASE UNCHANGED storeVars
  BY <1>1 DEF storeVars, StoreTyped, Good
<1>2. CASE RunLine
  <2>1. PICK reply : Execute(job.cmd, reply)
    BY <1>2 DEF RunLine
  <2>2. job.cmd \in Commands
    BY <1>2 DEF RunLine
  <2> QED
    BY <2>1, <2>2, ExecuteKeeps, WebAssumption DEF StoreTyped
<1>3. CASE TcpExecute
  <2>1. PICK reply : Execute(tcp.cmd, reply)
    BY <1>3 DEF TcpExecute
  <2>2. tcp.cmd \in Commands
    BY <1>3 DEF TcpExecute, TcpTyped
  <2> QED
    BY <2>1, <2>2, ExecuteKeeps, WebAssumption DEF StoreTyped
<1>4. CASE Tick
  BY <1>4, WebAssumption DEF Tick, StoreTyped, Good
<1>5. CASE Abort
  BY <1>5, EmptyIsGood DEF Abort, StoreTyped
<1> QED
  <2>1. CASE WebStep
    BY <2>1, <1>1, <1>2, <1>5 DEF WebStep, Accept, AcceptFails, TakePiece, ReadRequest, ReadToEnd,
       Parsed, ReadFails, Panic, Lock, RunNothing, ReadStatus, ReadList, ReadRow,
       Finish, WriteFails, Close
  <2>2. CASE ~WebStep
    BY <2>2, <1>1, <1>3, <1>4 DEF Next, vars, storeVars, PieceComes, Written, Close,
       BrowserStep,
       Connect, Depart, TcpCall, TcpStep, TcpLock
  <2> QED
    BY <2>1, <2>2

LEMMA LockStep == TypeInv /\ [Next]_vars => LockAgrees'
<1> SUFFICES ASSUME TypeInv, [Next]_vars PROVE LockAgrees'
  OBVIOUS
<1> USE WebAssumption DEF TypeInv, LockAgrees, Holding
<1>1. CASE UNCHANGED <<lock, web, tcp>>
  BY <1>1
<1>2. CASE WebStep
  <2>1. CASE \/ Accept \/ ReadRequest \/ ReadToEnd \/ ReadFails \/ Panic \/ WriteFails
    BY <2>1 DEF Accept, ReadRequest, ReadToEnd, Parsed, ReadFails, Panic,
       WriteFails, Close, tcpVars
  <2>2. CASE Lock
    BY <2>2 DEF Lock, Route, tcpVars
  <2>3. CASE RunLine \/ RunNothing \/ ReadStatus \/ ReadList
    BY <2>3 DEF RunLine, RunNothing, AfterCommand, ReadStatus, ReadList, tcpVars
  <2>4. CASE Finish
    BY <2>4 DEF Finish, tcpVars
  <2>5. CASE AcceptFails \/ TakePiece \/ \E k \in Keys : ReadRow(k)
    BY <2>5, <1>1 DEF AcceptFails, TakePiece, ReadRow, webVars, tcpVars
  <2>6. CASE Abort
    BY <2>6 DEF Abort
  <2> QED
    BY <1>2, <2>1, <2>2, <2>3, <2>4, <2>5, <2>6 DEF WebStep
<1>3. CASE Written
  BY <1>3 DEF Written, Close, tcpVars
<1>4. CASE TcpStep
  BY <1>4 DEF TcpStep, TcpLock, TcpExecute, TcpTyped, webVars
<1>5. CASE \E c \in Calls : TcpCall(c)
  BY <1>5 DEF TcpCall, webVars
<1> QED
  BY <1>1, <1>2, <1>3, <1>4, <1>5 DEF Next, vars, tcpVars, webVars, PieceComes,
     BrowserStep, Connect, Depart, Tick

LEMMA TcpTypedStep == TypeInv /\ [Next]_vars => TcpTyped'
<1> SUFFICES ASSUME TypeInv, [Next]_vars PROVE TcpTyped'
  OBVIOUS
<1> USE DEF TypeInv, TcpTyped
<1>1. CASE UNCHANGED tcp
  BY <1>1
<1>2. CASE Abort
  BY <1>2 DEF Abort
<1>3. CASE TcpStep \/ \E c \in Calls : TcpCall(c)
  BY <1>3, WebAssumption DEF TcpStep, TcpLock, TcpExecute, TcpCall
<1> QED
  <2>1. CASE WebStep
    BY <1>1, <1>2, <2>1 DEF WebStep, Accept, AcceptFails, TakePiece, ReadRequest, ReadToEnd,
       Parsed, ReadFails, Panic, Lock, RunLine, RunNothing, ReadStatus, ReadList, ReadRow,
       Finish, WriteFails, Close, tcpVars
  <2>2. CASE ~WebStep
    BY <1>1, <1>3, <2>2 DEF Next, vars, tcpVars, PieceComes, Written, Close,
       BrowserStep, Connect, Depart, Tick
  <2> QED
    BY <2>1, <2>2

LEMMA NetStep == TypeInv /\ [Next]_vars => NetTyped'
<1> SUFFICES ASSUME TypeInv, [Next]_vars PROVE NetTyped'
  OBVIOUS
<1> USE DEF TypeInv, NetTyped
<1>1. CASE UNCHANGED netVars
  BY <1>1 DEF netVars
<1>2. CASE WebStep
  <2>1. CASE Accept \/ AcceptFails
    BY <2>1 DEF Accept, AcceptFails, Drop
  <2>2. CASE Panic \/ Abort
    <3>1. DropAll
      BY <2>2 DEF Panic, Abort
    <3>2. [b \in Browsers |-> IF conn[b] = "new" THEN "new" ELSE "closed"]
            \in [Browsers -> {"new", "open", "left", "closed"}]
      OBVIOUS
    <3> QED
      BY <3>1, <3>2 DEF DropAll
  <2>3. CASE WriteFails
    BY <2>3 DEF WriteFails, Close, Drop
  <2> QED
    BY <1>1, <1>2, <2>1, <2>2, <2>3 DEF WebStep, TakePiece, ReadRequest, ReadToEnd, Parsed,
       ReadFails,
       Lock, RunLine, RunNothing, ReadStatus, ReadList, ReadRow, Finish
<1>3. CASE Written
  BY <1>3 DEF Written, Close, Drop
<1>4. CASE \E b \in Browsers : BrowserStep(b)
  BY <1>4 DEF BrowserStep, Connect, Depart
<1> QED
  BY <1>1, <1>2, <1>3, <1>4 DEF Next, vars, netVars, PieceComes, TcpStep, TcpCall,
     TcpLock, TcpExecute, Tick

LEMMA ThreadStep == TypeInv /\ [Next]_vars => ThreadTyped'
<1> SUFFICES ASSUME TypeInv, [Next]_vars PROVE ThreadTyped'
  OBVIOUS
<1> USE DEF TypeInv, ThreadTyped, ThreadPlaces, Serving, Holding
<1>0. Free \notin Browsers
  BY WebAssumption
<1>1. CASE UNCHANGED <<web, cur, asks, job, got, ran>>
  BY <1>1
<1>2. CASE WebStep
  <2>1. CASE Accept
    <3>1. Head(queue) \in Browsers /\ asks' \in AnyRequest
      BY <2>1, RequestsTyped DEF Accept, NetTyped
    <3> QED
      BY <2>1, <3>1 DEF Accept
  <2>2. CASE ReadRequest
    BY <2>2 DEF ReadRequest, Parsed
  <2>3. CASE ReadToEnd
    <3>1. PICK r \in AnyRequest : Parsed(r)
      BY <2>3, RequestsTyped DEF ReadToEnd
    <3>2. web = "reading"
      BY <2>3 DEF ReadToEnd
    <3> QED
      BY <3>1, <3>2 DEF Parsed
  <2>4. CASE ReadFails
    BY <2>4 DEF ReadFails
  <2>5. CASE Panic
    BY <2>5, <1>0, RequestsTyped DEF Panic, DropAll
  <2>6. CASE Lock
    BY <2>6 DEF Lock, Route, reqVars
  <2>7. CASE \/ RunLine \/ RunNothing
    BY <2>7 DEF RunLine, RunNothing, AfterCommand, reqVars
  <2>8. CASE \/ ReadStatus \/ ReadList \/ Finish
    BY <2>8 DEF ReadStatus, ReadList, Finish, reqVars
  <2>9. CASE WriteFails
    BY <2>9, <1>0, RequestsTyped DEF WriteFails, Close
  <2>10. CASE TakePiece
    <3>1. got < Whole(asks) /\ Whole(asks) \in {2, 3}
      BY <2>10 DEF TakePiece, FedTyped, Whole
    <3> QED
      BY <2>10, <3>1 DEF TakePiece
  <2>11. CASE Abort
    BY <2>11, <1>0, RequestsTyped DEF Abort, DropAll
  <2> QED
    BY <1>1, <1>2, <2>1, <2>2, <2>3, <2>4, <2>5, <2>6, <2>7, <2>8, <2>9, <2>10, <2>11
       DEF WebStep, AcceptFails, ReadRow, webVars, reqVars
<1>3. CASE Written
  BY <1>3, <1>0, RequestsTyped DEF Written, Close
<1>4. CASE PieceComes
  BY <1>1, <1>4 DEF PieceComes
<1> QED
  BY <1>1, <1>2, <1>3, <1>4 DEF Next, vars, webVars, BrowserStep, Connect, Depart,
     TcpStep, TcpCall, TcpLock, TcpExecute, Tick

LEMMA FedStep == TypeInv /\ [Next]_vars => FedTyped'
<1> SUFFICES ASSUME TypeInv, [Next]_vars PROVE FedTyped'
  OBVIOUS
<1> USE DEF FedTyped
<1>0. FedTyped
  BY DEF TypeInv
<1>1. CASE UNCHANGED <<web, asks, got, fed>>
  BY <1>0, <1>1 DEF Whole
<1>2. CASE fed' = FALSE
  BY <1>2
<1>3. CASE UNCHANGED fed /\ web # "reading"
  BY <1>0, <1>3
<1>4. CASE PieceComes
  BY <1>4 DEF PieceComes, Whole
<1> QED
  <2>1. CASE WebStep
    BY <1>1, <1>2, <1>3, <2>1 DEF WebStep, Accept, AcceptFails, TakePiece, ReadRequest,
       ReadToEnd, Parsed, ReadFails, Panic, Abort, DropAll, Lock, RunLine, RunNothing,
       ReadStatus, ReadList, ReadRow, Finish, WriteFails, Close, reqVars, webVars
  <2>2. CASE ~WebStep
    BY <1>1, <1>3, <1>4, <2>2 DEF Next, vars, Written, Close, BrowserStep, Connect, Depart,
       TcpStep, TcpCall, TcpLock, TcpExecute, Tick, webVars
  <2> QED
    BY <2>1, <2>2

LEMMA PageStep == TypeInv /\ [Next]_vars => PageTyped'
<1> SUFFICES ASSUME TypeInv, [Next]_vars PROVE PageTyped'
  OBVIOUS
<1> USE DEF TypeInv, PageTyped
<1>1. CASE UNCHANGED page
  BY <1>1
<1>2. CASE WebStep
  <2>1. CASE \/ ReadFails \/ RunLine \/ RunNothing
    BY <2>1 DEF ReadFails, RunLine, RunNothing, Results
  <2>2. CASE \/ ReadStatus \/ ReadList
    <3>1. Cardinality(LiveKeys(data, now)) \in Nat /\ LiveKeys(data, now) \subseteq Keys
      BY LiveCounts DEF StoreTyped, Good, LiveKeys
    <3> QED
      BY <2>2, <3>1 DEF ReadStatus, ReadList
  <2>3. ASSUME NEW k \in Keys, ReadRow(k) PROVE PageTyped'
    <3> DEFINE v == IF HasLive(data, k, now) THEN data[k].value ELSE Gone
    <3>1. v \in Values \cup {Gone}
      BY DEF HasLive, LiveKeys, StoreTyped, Good
    <3>2. Insert(page.rows, k, v) \in RowMaps
      BY <3>1, RowsGrow
    <3>3. page' = [page EXCEPT !.todo = @ \ {k}, !.rows = Insert(@, k, v)]
      BY <2>3 DEF ReadRow
    <3> HIDE DEF v
    <3> QED
      BY <3>2, <3>3
  <2>4. CASE WriteFails \/ Abort
    BY <2>4, NoPageTyped DEF WriteFails, Close, Abort
  <2> QED
    BY <1>1, <1>2, <2>1, <2>2, <2>3, <2>4 DEF WebStep, Accept, AcceptFails, TakePiece,
       ReadRequest,
       ReadToEnd, Parsed, Panic, Lock, Finish, webVars
<1>3. CASE Written
  BY <1>3, NoPageTyped DEF Written, Close
<1> QED
  BY <1>1, <1>2, <1>3 DEF Next, vars, webVars, PieceComes, BrowserStep, Connect, Depart,
     TcpStep, TcpCall, TcpLock, TcpExecute, Tick

(* Types, the lock, and the browser in service, in every reachable state. *)
THEOREM TypesHold == Spec => []TypeInv
<1>1. TypeInv /\ [Next]_vars => TypeInv'
  BY StoreStep, LockStep, TcpTypedStep, NetStep, ThreadStep, FedStep, PageStep
     DEF TypeInv
<1> QED
  BY <1>1, TypeInvInit, PTL DEF Spec

(* The clock, the store, the lock and the web thread keep to their types:  *)
(* the mutex is the web thread's exactly while it handles a request and    *)
(* the TCP thread's exactly while it executes, and a browser is in service *)
(* exactly while the thread is between its accept and its close.           *)
THEOREM WebTypeCorrect == Spec => []WebTypeOK
<1>1. TypeInv => WebTypeOK
  <2> SUFFICES ASSUME TypeInv PROVE WebTypeOK
    OBVIOUS
  <2>1. tcp.at \in {"idle", "waiting", "holding"}
    BY DEF TypeInv, TcpTyped
  <2>2. page.todo \subseteq Keys /\ DOMAIN page.rows \subseteq Keys
    BY DEF TypeInv, PageTyped, RowMaps
  <2>3. /\ conn \in [Browsers -> {"new", "open", "left", "closed"}]
        /\ asks \in AnyRequest /\ job \in AnyRequest /\ got \in 0 .. 3
        /\ fed \in BOOLEAN /\ ran \subseteq Browsers
    BY DEF TypeInv, NetTyped, ThreadTyped, FedTyped
  <2>4. /\ web \in {"off", "accept", "reading", "locking", "writing", "dead", "aborted"}
                   \cup Holding
        /\ cur \in Browsers <=> web \in {"reading", "locking", "writing"} \cup Holding
    BY DEF TypeInv, ThreadTyped, ThreadPlaces, Serving
  <2>5. /\ now \in 0 .. MaxTime /\ commands \in Nat
        /\ \A k \in DOMAIN data : k \in Keys /\ data[k].value \in Values
    BY DEF TypeInv, StoreTyped, Good
  <2> QED
    BY <2>1, <2>2, <2>3, <2>4, <2>5 DEF WebTypeOK, TypeInv, LockAgrees
<1> QED
  BY <1>1, TypesHold, PTL
-----------------------------------------------------------------------------
(* The page.  While the thread holds the mutex the store is the one the    *)
(* page started from, and the clock can only take keys away from it.       *)
SeenInv ==
  /\ Good(seen.data) /\ seen.now \in Nat /\ seen.now <= now
  /\ web \in Holding => data = seen.data

(* Rows are there only while they are read, or written. *)
BlankInv ==
  /\ web \notin {"rows", "writing"} => page.rows = EmptyMap /\ page.todo = {}
  /\ web = "writing" => page.todo = {}

(* Only these two routes have a command. *)
RouteInv == web = "command" => job.path \in {"/cmd", "/get"}

(* What STATUS has counted covers what LIST will name. *)
CountInv ==
  web = "list" /\ job.path # "/data" => Cardinality(LiveKeys(data, now)) <= page.count

(* The keys LIST has named, read already or not. *)
Named == page.todo \cup DOMAIN page.rows

HasTable ==
  /\ web = "rows" \/ (web = "writing" /\ page.result # "400")
  /\ job.path \in {"/", "/data", "/cmd"}

RowsRight ==
  /\ Named \subseteq LiveKeys(seen.data, seen.now)
  /\ LiveKeys(seen.data, now) \subseteq Named
  /\ \A k \in DOMAIN page.rows :
       \/ page.rows[k] = seen.data[k].value
       \/ page.rows[k] = Gone /\ Expired(seen.data[k].exp, now)
  /\ job.path # "/data" => Cardinality(Named) <= page.count

PageInv == SeenInv /\ BlankInv /\ RouteInv /\ CountInv /\ (HasTable => RowsRight)

LEMMA PageInvInit == Init => PageInv
<1> SUFFICES ASSUME Init PROVE PageInv
  OBVIOUS
<1>1. SeenInv
  BY EmptyIsGood DEF Init, SeenInv, Nothing, Holding
<1>2. BlankInv /\ RouteInv /\ CountInv /\ ~HasTable
  BY DEF Init, BlankInv, RouteInv, CountInv, HasTable, NoPage
<1> QED
  BY <1>1, <1>2 DEF PageInv

(* The clock never goes back. *)
LEMMA ClockMoves == TypeInv /\ [Next]_vars => now' \in Nat /\ now <= now'
<1> SUFFICES ASSUME TypeInv, [Next]_vars PROVE now' \in Nat /\ now <= now'
  OBVIOUS
<1>1. now \in Nat /\ now' \in Nat
  BY StoreStep, WebAssumption DEF TypeInv, StoreTyped
<1>2. ASSUME NEW c, NEW reply, Execute(c, reply)
      PROVE  UNCHANGED now \/ now' \in now .. MaxTime
  BY <1>2 DEF Execute
<1>3. CASE Tick
  BY <1>1, <1>3 DEF Tick
<1>4. CASE RunLine
  BY <1>1, <1>2, <1>4, WebAssumption DEF RunLine
<1>5. CASE TcpExecute
  BY <1>1, <1>2, <1>5, WebAssumption DEF TcpExecute
<1>6. CASE UNCHANGED now
  BY <1>1, <1>6
<1> QED
  <2>1. CASE WebStep
    BY <1>4, <1>6, <2>1 DEF WebStep, Accept, AcceptFails, TakePiece, ReadRequest, ReadToEnd,
       Parsed, ReadFails, Panic, Abort, Lock, RunNothing, ReadStatus, ReadList, ReadRow,
       Finish, WriteFails, Close, storeVars
  <2>2. CASE ~WebStep
    BY <1>3, <1>5, <1>6, <2>2 DEF Next, vars, storeVars, PieceComes, Written, Close,
       BrowserStep, Connect, Depart, TcpStep, TcpCall, TcpLock
  <2> QED
    BY <2>1, <2>2

LEMMA SeenStep == TypeInv /\ PageInv /\ [Next]_vars => SeenInv'
<1> SUFFICES ASSUME TypeInv, PageInv, [Next]_vars PROVE SeenInv'
  OBVIOUS
<1> USE DEF SeenInv, Holding
<1>0. /\ now \in Nat /\ now' \in Nat /\ now <= now' /\ Good(data) /\ Good(data')
      /\ SeenInv
  BY ClockMoves, StoreStep, WebAssumption DEF TypeInv, StoreTyped, PageInv
<1>1. CASE UNCHANGED <<data, web, seen>>
  BY <1>0, <1>1
<1>2. CASE WebStep
  <2>1. CASE \/ Accept \/ ReadRequest \/ ReadToEnd \/ ReadFails \/ Panic
    BY <1>0, <2>1 DEF Accept, ReadRequest, ReadToEnd, Parsed, ReadFails, Panic
  <2>2. CASE Lock
    BY <1>0, <2>2 DEF Lock, Route, storeVars
  <2>3. CASE RunLine
    BY <1>0, <2>3 DEF RunLine
  <2>4. CASE \/ RunNothing \/ ReadStatus \/ ReadList \/ Finish
    BY <1>0, <2>4 DEF RunNothing, ReadStatus, ReadList, Finish, storeVars
  <2>5. CASE WriteFails \/ Abort
    BY <1>0, <2>5, EmptyIsGood DEF WriteFails, Close, Abort, Nothing
  <2> QED
    BY <1>1, <1>2, <2>1, <2>2, <2>3, <2>4, <2>5 DEF WebStep, AcceptFails, TakePiece,
       ReadRow, webVars, storeVars
<1>3. CASE Written
  BY <1>0, <1>3, EmptyIsGood DEF Written, Close, Nothing
<1>4. CASE TcpExecute
  <2>1. web \notin Holding
    BY <1>4 DEF TcpExecute, TypeInv, LockAgrees
  <2>2. UNCHANGED <<web, seen>>
    BY <1>4 DEF TcpExecute, webVars
  <2> QED
    BY <1>0, <2>1, <2>2
<1> QED
  BY <1>1, <1>2, <1>3, <1>4 DEF Next, vars, webVars, storeVars, PieceComes, BrowserStep,
     Connect, Depart, TcpStep, TcpCall, TcpLock, Tick

LEMMA BlankStep == TypeInv /\ PageInv /\ [Next]_vars => BlankInv'
<1> SUFFICES ASSUME TypeInv, PageInv, [Next]_vars PROVE BlankInv'
  OBVIOUS
<1> USE DEF PageInv, BlankInv
<1>0. page \in [result : Results, count : Nat, todo : SUBSET Keys, rows : RowMaps]
  BY DEF TypeInv, PageTyped
<1>1. CASE UNCHANGED <<web, page>>
  BY <1>1
<1>2. CASE WebStep
  <2>1. CASE \/ Accept \/ ReadRequest \/ ReadToEnd \/ ReadFails \/ Panic
    BY <1>0, <2>1 DEF Accept, ReadRequest, ReadToEnd, Parsed, ReadFails, Panic
  <2>2. CASE Lock
    BY <2>2 DEF Lock, Route
  <2>3. CASE \/ RunLine \/ RunNothing \/ ReadStatus \/ ReadList
    BY <1>0, <2>3 DEF RunLine, RunNothing, AfterCommand, ReadStatus, ReadList
  <2>4. ASSUME NEW k \in Keys, ReadRow(k) PROVE BlankInv'
    BY <2>4 DEF ReadRow
  <2>5. CASE \/ Finish \/ WriteFails \/ Abort
    BY <2>5 DEF Finish, WriteFails, Close, Abort, NoPage
  <2> QED
    BY <1>1, <1>2, <2>1, <2>2, <2>3, <2>4, <2>5 DEF WebStep, AcceptFails, TakePiece, webVars
<1>3. CASE Written
  BY <1>3 DEF Written, Close, NoPage
<1> QED
  BY <1>1, <1>2, <1>3 DEF Next, vars, webVars, PieceComes, BrowserStep,
     Connect, Depart, TcpStep, TcpCall, TcpLock, TcpExecute, Tick

LEMMA RouteStep == TypeInv /\ PageInv /\ [Next]_vars => RouteInv'
<1> SUFFICES ASSUME TypeInv, PageInv, [Next]_vars PROVE RouteInv'
  OBVIOUS
<1> USE DEF PageInv, RouteInv
<1>1. CASE UNCHANGED <<web, job>>
  BY <1>1
<1>2. CASE WebStep
  <2>1. CASE \/ Accept \/ ReadRequest \/ ReadToEnd \/ ReadFails \/ Panic \/ Abort
    BY <2>1 DEF Accept, ReadRequest, ReadToEnd, Parsed, ReadFails, Panic, Abort
  <2>2. CASE Lock
    BY <2>2 DEF Lock, Route
  <2>3. CASE \/ RunLine \/ RunNothing \/ ReadStatus \/ ReadList \/ Finish \/ WriteFails
    BY <2>3 DEF RunLine, RunNothing, AfterCommand, ReadStatus, ReadList, Finish,
       WriteFails, Close
  <2>4. ASSUME NEW k \in Keys, ReadRow(k) PROVE RouteInv'
    BY <2>4 DEF ReadRow
  <2> QED
    BY <1>1, <1>2, <2>1, <2>2, <2>3, <2>4 DEF WebStep, AcceptFails, TakePiece, webVars
<1>3. CASE Written
  BY <1>3 DEF Written, Close
<1> QED
  BY <1>1, <1>2, <1>3 DEF Next, vars, webVars, PieceComes, BrowserStep,
     Connect, Depart, TcpStep, TcpCall, TcpLock, TcpExecute, Tick

LEMMA CountStep == TypeInv /\ PageInv /\ [Next]_vars => CountInv'
<1> SUFFICES ASSUME TypeInv, PageInv, [Next]_vars PROVE CountInv'
  OBVIOUS
<1> USE DEF CountInv
<1>0. /\ now \in Nat /\ now' \in Nat /\ now <= now' /\ Good(data) /\ CountInv
      /\ page \in [result : Results, count : Nat, todo : SUBSET Keys, rows : RowMaps]
  BY ClockMoves, WebAssumption DEF TypeInv, StoreTyped, PageTyped, PageInv
<1>1. CASE UNCHANGED <<data, now, web, job, page>>
  BY <1>0, <1>1
<1>2. CASE WebStep
  <2>1. CASE \/ Accept \/ ReadRequest \/ ReadToEnd \/ ReadFails \/ Panic \/ Abort
    BY <2>1 DEF Accept, ReadRequest, ReadToEnd, Parsed, ReadFails, Panic, Abort
  <2>2. CASE Lock
    BY <2>2 DEF Lock, Route
  <2>3. CASE \/ RunLine \/ RunNothing \/ ReadList \/ Finish \/ WriteFails
    BY <2>3 DEF RunLine, RunNothing, AfterCommand, ReadList, Finish, WriteFails, Close
  <2>4. CASE ReadStatus
    BY <1>0, <2>4, LiveCounts DEF ReadStatus, storeVars
  <2>5. ASSUME NEW k \in Keys, ReadRow(k) PROVE CountInv'
    BY <2>5 DEF ReadRow
  <2> QED
    BY <1>1, <1>2, <2>1, <2>2, <2>3, <2>4, <2>5 DEF WebStep, AcceptFails, TakePiece, webVars,
       storeVars
<1>3. CASE Written
  BY <1>3 DEF Written, Close
<1>4. CASE TcpExecute
  BY <1>4 DEF TcpExecute, TypeInv, LockAgrees, Holding, webVars
<1>5. CASE Tick
  <2>1. LiveKeys(data, now') \subseteq LiveKeys(data, now)
    BY <1>0, LiveShrinks
  <2>2. Cardinality(LiveKeys(data, now')) <= Cardinality(LiveKeys(data, now))
    BY <1>0, <2>1, LiveCounts
  <2>3. Cardinality(LiveKeys(data, now')) \in Nat /\ Cardinality(LiveKeys(data, now)) \in Nat
    BY <1>0, LiveCounts
  <2>4. UNCHANGED <<data, web, job, page>>
    BY <1>5 DEF Tick, webVars
  <2> QED
    BY <1>0, <2>2, <2>3, <2>4
<1> QED
  BY <1>1, <1>2, <1>3, <1>4, <1>5 DEF Next, vars, webVars, storeVars, PieceComes,
     BrowserStep,
     Connect, Depart, TcpStep, TcpCall, TcpLock

LEMMA RowsStep == TypeInv /\ PageInv /\ [Next]_vars => (HasTable => RowsRight)'
<1> SUFFICES ASSUME TypeInv, PageInv, [Next]_vars, HasTable' PROVE RowsRight'
  OBVIOUS
<1>0. /\ now \in Nat /\ now' \in Nat /\ now <= now' /\ Good(data)
      /\ page \in [result : Results, count : Nat, todo : SUBSET Keys, rows : RowMaps]
      /\ Good(seen.data) /\ seen.now \in Nat /\ seen.now <= now
      /\ HasTable => RowsRight
  BY ClockMoves, WebAssumption DEF TypeInv, StoreTyped, PageTyped, PageInv, SeenInv
<1>1. CASE UNCHANGED <<seen, web, job, page>>
  <2>1. RowsRight
    BY <1>0, <1>1 DEF HasTable
  <2>2. /\ LiveKeys(seen.data, now') \subseteq LiveKeys(seen.data, now)
        /\ \A k \in DOMAIN seen.data :
             Expired(seen.data[k].exp, now) => Expired(seen.data[k].exp, now')
    BY <1>0, LiveShrinks
  <2>3. DOMAIN page.rows \subseteq DOMAIN seen.data
    BY <2>1 DEF RowsRight, Named, LiveKeys
  <2> QED
    BY <1>1, <2>1, <2>2, <2>3 DEF RowsRight, Named
<1>2. CASE WebStep
  <2>1. CASE \/ Accept \/ ReadRequest \/ ReadToEnd \/ Panic \/ Abort \/ ReadStatus
             \/ WriteFails
    BY <2>1 DEF Accept, ReadRequest, ReadToEnd, Parsed, Panic, Abort, ReadStatus,
       WriteFails, Close, HasTable
  <2>2. CASE ReadFails
    BY <1>0, <2>2 DEF ReadFails, HasTable
  <2>3. CASE Lock
    BY <2>3 DEF Lock, Route, HasTable
  <2>4. CASE \/ RunLine \/ RunNothing
    BY <2>4 DEF RunLine, RunNothing, AfterCommand, HasTable, PageInv, RouteInv
  <2>5. CASE ReadList
    <3>1. /\ page.rows = EmptyMap /\ data = seen.data
          /\ job.path # "/data" => Cardinality(LiveKeys(data, now)) <= page.count
      BY <2>5 DEF ReadList, PageInv, BlankInv, SeenInv, CountInv, Holding
    <3>2. /\ page'.todo = LiveKeys(data, now) /\ page'.rows = page.rows
          /\ page'.count = page.count /\ UNCHANGED <<seen, job, now>>
      BY <1>0, <2>5 DEF ReadList, storeVars
    <3>3. Named' = LiveKeys(seen.data, now) /\ DOMAIN page'.rows = {}
      BY <3>1, <3>2 DEF Named, EmptyMap
    <3>4. LiveKeys(seen.data, now) \subseteq LiveKeys(seen.data, seen.now)
      BY <1>0, LiveShrinks
    <3> QED
      BY <3>1, <3>2, <3>3, <3>4 DEF RowsRight
  <2>6. ASSUME NEW k \in Keys, ReadRow(k) PROVE RowsRight'
    <3> DEFINE v == IF HasLive(data, k, now) THEN data[k].value ELSE Gone
    <3>1. /\ web = "rows" /\ k \in page.todo /\ UNCHANGED <<seen, job, web, now>>
          /\ page' = [page EXCEPT !.todo = @ \ {k}, !.rows = Insert(@, k, v)]
      BY <2>6 DEF ReadRow, storeVars
    <3>2. RowsRight /\ data = seen.data
      BY <1>0, <2>6, <3>1 DEF HasTable, PageInv, SeenInv, Holding
    <3>3. k \in DOMAIN seen.data
      BY <3>1, <3>2 DEF RowsRight, Named, LiveKeys
    <3>4. v = seen.data[k].value \/ (v = Gone /\ Expired(seen.data[k].exp, now))
      BY <3>2, <3>3 DEF HasLive, LiveKeys
    <3> HIDE DEF v
    <3>5. /\ page'.todo = page.todo \ {k} /\ page'.rows = Insert(page.rows, k, v)
          /\ page'.count = page.count
      BY <1>0, <3>1
    <3>6. /\ DOMAIN page'.rows = DOMAIN page.rows \cup {k}
          /\ \A x \in DOMAIN page'.rows :
               page'.rows[x] = IF x = k THEN v ELSE page.rows[x]
      BY <3>5 DEF Insert
    <3>7. Named' = Named
      BY <3>1, <3>5, <3>6 DEF Named
    <3> QED
      BY <3>1, <3>2, <3>4, <3>5, <3>6, <3>7 DEF RowsRight
  <2>7. CASE Finish
    <3>1. HasTable /\ UNCHANGED <<page, seen, now, job>>
      BY <2>7 DEF Finish, HasTable, storeVars
    <3> QED
      BY <1>0, <3>1 DEF RowsRight, Named
  <2> QED
    BY <1>1, <1>2, <2>1, <2>2, <2>3, <2>4, <2>5, <2>6, <2>7
       DEF WebStep, AcceptFails, TakePiece, webVars
<1>3. CASE Written
  BY <1>3 DEF Written, Close, HasTable
<1> QED
  BY <1>1, <1>2, <1>3 DEF Next, vars, webVars, PieceComes, BrowserStep,
     Connect, Depart, TcpStep, TcpCall, TcpLock, TcpExecute, Tick

(* What the pages promise, and what it takes to keep it, holds always.     *)
THEOREM PagesHold == Spec => [](TypeInv /\ PageInv)
<1>1. TypeInv /\ PageInv /\ [Next]_vars => PageInv'
  BY SeenStep, BlankStep, RouteStep, CountStep, RowsStep DEF PageInv
<1> QED
  BY <1>1, PageInvInit, TypesHold, PTL DEF Spec

(* Every page with a table shows the store of one moment.  The argument:   *)
(* from Lock or the user's command on, the mutex keeps the store as the    *)
(* page has seen it, so that only the clock can take away a key LIST would *)
(* name, or one it has named.                                              *)
THEOREM PageOfOneMoment == Spec => []PageIsOneMoment
<1>1. TypeInv /\ PageInv => PageIsOneMoment
  <2> SUFFICES ASSUME TypeInv, PageInv, ShowsTable PROVE PageIsOneMoment
    BY DEF PageIsOneMoment
  <2>1. RowsRight /\ page.todo = {}
    BY DEF ShowsTable, PageInv, HasTable, BlankInv
  <2>2. Named = DOMAIN page.rows
    BY <2>1 DEF Named
  <2> QED
    BY <2>1, <2>2 DEF RowsRight, PageIsOneMoment
<1> QED
  BY <1>1, PagesHold, PTL
-----------------------------------------------------------------------------
(* What the reply to a command says of the store the page starts from.     *)
Answered ==
  /\ web \in {"status", "list", "rows", "writing"} /\ page.result # "400"
  /\ job.path = "/cmd"

AnswerRight ==
  /\ job.cmd.op = "set" /\ page.result = "ok" =>
       /\ job.cmd.key \in DOMAIN seen.data
       /\ seen.data[job.cmd.key].value = job.cmd.value
       /\ seen.data[job.cmd.key].exp = Deadline(job.cmd.ttl, seen.now)
  /\ job.cmd.op = "del" /\ page.result \in {"ok", "missing"} =>
       job.cmd.key \notin LiveKeys(seen.data, seen.now)

LEMMA ExecuteAnswers ==
  ASSUME NEW c \in Commands, NEW reply, Execute(c, reply)
  PROVE  /\ c.op = "set" /\ reply = "ok" =>
              /\ c.key \in DOMAIN data'
              /\ data'[c.key].value = c.value
              /\ data'[c.key].exp = Deadline(c.ttl, now')
         /\ c.op = "del" /\ reply \in {"ok", "missing"} => c.key \notin LiveKeys(data', now')
<1>1. CASE c.op = "set" /\ reply = "ok"
  <2>1. data' = SetEntry(data, c.key, c.value, c.ttl, now, now')
    BY <1>1 DEF Execute
  <2> QED
    BY <1>1, <2>1 DEF SetEntry, Insert
<1>2. CASE c.op = "del" /\ data' = DeleteEntry(data, c.key, now')
  BY <1>2 DEF DeleteEntry, Restrict, LiveKeys
<1>3. CASE c.op = "del" /\ data' # DeleteEntry(data, c.key, now') /\ reply \in {"ok", "missing"}
  <2>1. UNCHANGED <<now, data>> /\ ~HasLive(data, c.key, now)
    BY <1>3 DEF Execute
  <2> QED
    BY <1>3, <2>1 DEF HasLive
<1> QED
  BY <1>1, <1>2, <1>3

LEMMA AnswerInit == Init => ~Answered
  BY DEF Init, Answered

LEMMA AnswerStep ==
  TypeInv /\ (Answered => AnswerRight) /\ [Next]_vars => (Answered => AnswerRight)'
<1> SUFFICES ASSUME TypeInv, Answered => AnswerRight, [Next]_vars, Answered'
             PROVE AnswerRight'
  OBVIOUS
<1>0. page \in [result : Results, count : Nat, todo : SUBSET Keys, rows : RowMaps]
  BY DEF TypeInv, PageTyped
<1>1. CASE Answered /\ UNCHANGED <<seen, job>> /\ page'.result = page.result
  BY <1>1 DEF AnswerRight
<1>2. CASE WebStep
  <2>1. CASE \/ Accept \/ ReadRequest \/ ReadToEnd \/ Panic \/ Abort \/ WriteFails
    BY <2>1 DEF Accept, ReadRequest, ReadToEnd, Parsed, Panic, Abort, WriteFails, Close,
       Answered
  <2>2. CASE ReadFails
    BY <1>0, <2>2 DEF ReadFails, Answered
  <2>3. CASE Lock
    BY <2>3 DEF Lock, Route, Answered
  <2>4. CASE RunLine
    <3>1. PICK reply : /\ Execute(job.cmd, reply)
                       /\ page' = [page EXCEPT !.result = reply]
      BY <2>4 DEF RunLine
    <3>2. /\ job.cmd \in Commands /\ job' = job
          /\ seen'.data = data' /\ seen'.now = now' /\ page'.result = reply
      BY <1>0, <2>4, <3>1 DEF RunLine
    <3> QED
      BY <3>1, <3>2, ExecuteAnswers DEF AnswerRight
  <2>5. CASE RunNothing
    BY <1>0, <2>5 DEF RunNothing, AnswerRight
  <2>6. CASE \/ ReadStatus \/ ReadList \/ Finish
    BY <1>0, <1>1, <2>6 DEF ReadStatus, ReadList, Finish, Answered
  <2>7. ASSUME NEW k \in Keys, ReadRow(k) PROVE AnswerRight'
    BY <1>0, <1>1, <2>7 DEF ReadRow, Answered
  <2>8. CASE AcceptFails \/ TakePiece
    BY <1>1, <2>8 DEF AcceptFails, TakePiece, webVars, Answered
  <2> QED
    BY <1>2, <2>1, <2>2, <2>3, <2>4, <2>5, <2>6, <2>7, <2>8 DEF WebStep
<1>3. CASE Written
  BY <1>3 DEF Written, Close, Answered
<1>4. CASE UNCHANGED <<web, page, job, seen>>
  BY <1>1, <1>4 DEF Answered
<1> QED
  BY <1>2, <1>3, <1>4 DEF Next, vars, webVars, PieceComes, BrowserStep,
     Connect, Depart, TcpStep, TcpCall, TcpLock, TcpExecute, Tick

(* The result of a command and the table below it agree: the reply tells   *)
(* what the store has become, the table shows that store.                  *)
THEOREM ResultAndTableAgree == Spec => []ResultOnPage
<1>1. Spec => [](Answered => AnswerRight)
  <2>1. Init => (Answered => AnswerRight)
    BY AnswerInit
  <2> QED
    BY <2>1, AnswerStep, TypesHold, PTL DEF Spec
<1>2. TypeInv /\ PageInv /\ (Answered => AnswerRight) => ResultOnPage
  <2> SUFFICES ASSUME TypeInv, PageInv, Answered => AnswerRight,
                      ShowsTable, job.path = "/cmd"
               PROVE ResultOnPage
    BY DEF ResultOnPage
  <2>1. AnswerRight
    BY DEF ShowsTable, Answered
  <2>2. RowsRight /\ Named = DOMAIN page.rows
    BY DEF ShowsTable, PageInv, HasTable, BlankInv, Named
  <2>3. ASSUME job.cmd.op = "set", page.result = "ok"
        PROVE  \/ job.cmd.key \in DOMAIN page.rows
                  /\ page.rows[job.cmd.key] = job.cmd.value
               \/ Expired(Deadline(job.cmd.ttl, seen.now), now)
    BY <2>1, <2>2, <2>3 DEF AnswerRight, RowsRight, LiveKeys
  <2>4. ASSUME job.cmd.op = "del", page.result \in {"ok", "missing"}
        PROVE  job.cmd.key \notin DOMAIN page.rows
    BY <2>1, <2>2, <2>4 DEF AnswerRight, RowsRight
  <2> QED
    BY <2>3, <2>4 DEF ResultOnPage
<1> QED
  BY <1>1, <1>2, PagesHold, PTL
-----------------------------------------------------------------------------
(* A request that would write is the browser's, and has come whole. *)
Writing(r) == r.cmd.op \in {"set", "del"}

WholeInv == web \in {"locking", "command"} /\ Writing(job) => got = Whole(asks) /\ asks = job

LEMMA OnlyFormsWrite ==
  /\ \A r \in AnyRequest : Writing(r) => r.path = "/cmd"
  /\ \A r \in AnyRequest : ~Writing([r EXCEPT !.cmd = NoLine])
  /\ \A r \in AnyRequest : \A c \in CutShort(r) : ~Writing(c)
<1>1. ASSUME NEW r \in AnyRequest, Writing(r) PROVE r.path = "/cmd"
  BY <1>1 DEF AnyRequest, Writing, NoLine, Bad, Garbled
<1>2. ASSUME NEW r \in AnyRequest PROVE ~Writing([r EXCEPT !.cmd = NoLine])
  BY DEF AnyRequest, Writing, NoLine
<1>3. ASSUME NEW r \in AnyRequest, NEW c \in CutShort(r) PROVE ~Writing(c)
  BY DEF CutShort, Writing, NoRequest, NoLine, Bad
<1> QED
  BY <1>1, <1>2, <1>3

LEMMA WholeStep == TypeInv /\ WholeInv /\ [Next]_vars => WholeInv'
<1> SUFFICES ASSUME TypeInv, WholeInv, [Next]_vars,
                    web' \in {"locking", "command"}, Writing(job)'
             PROVE  (got = Whole(asks) /\ asks = job)'
  BY DEF WholeInv
<1>1. CASE UNCHANGED <<web, job, asks, got>>
  BY <1>1 DEF WholeInv, Writing, Whole
<1>2. CASE WebStep
  <2>1. CASE ReadRequest
    BY <2>1 DEF ReadRequest, Parsed, Whole
  <2>2. CASE ReadToEnd
    <3>1. PICK r : Parsed(r) /\ ~Writing(r)
      BY <2>2, OnlyFormsWrite DEF ReadToEnd, TypeInv, ThreadTyped
    <3> QED
      BY <3>1 DEF Parsed, Writing
  <2>3. CASE Lock
    BY <2>3 DEF Lock, reqVars, WholeInv, Writing, Whole
  <2>4. CASE \/ Accept \/ TakePiece \/ ReadFails \/ Panic \/ Abort \/ RunLine
             \/ RunNothing \/ ReadStatus \/ ReadList \/ Finish \/ WriteFails
    BY <2>4 DEF Accept, TakePiece, ReadFails, Panic, Abort, RunLine, RunNothing, AfterCommand,
       ReadStatus, ReadList, Finish, WriteFails, Close
  <2>5. CASE AcceptFails \/ \E k \in Keys : ReadRow(k)
    BY <1>1, <2>5 DEF AcceptFails, ReadRow, webVars, reqVars
  <2> QED
    BY <1>2, <2>1, <2>2, <2>3, <2>4, <2>5 DEF WebStep
<1>3. CASE \/ Written \/ PieceComes
  BY <1>3 DEF Written, Close, PieceComes
<1> QED
  BY <1>1, <1>2, <1>3 DEF Next, vars, webVars, BrowserStep,
     Connect, Depart, TcpStep, TcpCall, TcpLock, TcpExecute, Tick

(* A browser that stops sending, or goes away, has written nothing: every  *)
(* change the page makes to the store is by a command that has come whole. *)
THEOREM WritesAreWhole == Spec => OnlyWholeWrites
<1>1. Spec => []WholeInv
  <2>1. Init => WholeInv
    BY DEF Init, WholeInv
  <2> QED
    BY <2>1, WholeStep, TypesHold, PTL DEF Spec
<1>2. TypeInv /\ WholeInv /\ [Next]_vars =>
        [data' # data /\ web = "command" /\ web' # web => got = Whole(asks) /\ asks = job]_vars
  <2> SUFFICES ASSUME TypeInv, WholeInv, [Next]_vars,
                      data' # data, web = "command", web' # web
               PROVE  got = Whole(asks) /\ asks = job
    OBVIOUS
  <2>1. RunLine
    BY DEF Next, vars, WebStep, Accept, AcceptFails, TakePiece, ReadRequest, ReadToEnd,
       Parsed, ReadFails, Panic, Abort, Lock, RunNothing, ReadStatus, ReadList, ReadRow,
       Finish, WriteFails, Written, PieceComes,
       BrowserStep, Connect, Depart, TcpStep, TcpCall, TcpLock, TcpExecute, Tick,
       storeVars, webVars
  <2>2. PICK reply : Execute(job.cmd, reply)
    BY <2>1 DEF RunLine
  <2>3. job.cmd \in Commands
    BY <2>1 DEF RunLine
  <2>4. Writing(job)
    BY <2>2, <2>3 DEF Execute, Commands, Writing
  <2> QED
    BY <2>4 DEF WholeInv
<1> QED
  BY <1>1, <1>2, TypesHold, PTL DEF Spec, OnlyWholeWrites
-----------------------------------------------------------------------------
(* A connection is in one place only: waiting, in service, or closed; and  *)
(* only finitely many have been made, however many browsers there are.     *)
Known == {b \in Browsers : conn[b] # "new"}

QueueInv ==
  /\ IsFiniteSet(Known)
  /\ \A i \in 1 .. Len(queue) : conn[queue[i]] \in {"open", "left"} /\ queue[i] # cur
  /\ \A i, j \in 1 .. Len(queue) : queue[i] = queue[j] => i = j
  /\ cur \in Browsers => conn[cur] \in {"open", "left"}

LEMMA QueueInvInit == Init => QueueInv
<1> SUFFICES ASSUME Init PROVE QueueInv
  OBVIOUS
<1>1. Known = {}
  BY DEF Init, Known
<1> QED
  BY <1>1, FS_EmptySet, WebAssumption DEF Init, QueueInv

LEMMA CloseLeaves ==
  ASSUME TypeInv, QueueInv, Close, cur \in Browsers
  PROVE  QueueInv'
<1>1. /\ conn' = [conn EXCEPT ![cur] = "closed"] /\ cur' = Free /\ queue' = queue
      /\ conn \in [Browsers -> {"new", "open", "left", "closed"}] /\ queue \in Seq(Browsers)
      /\ Free \notin Browsers /\ conn[cur] \in {"open", "left"}
  BY WebAssumption DEF Close, Drop, TypeInv, NetTyped, QueueInv
<1>2. Known' = Known
  BY <1>1 DEF Known
<1> QED
  BY <1>1, <1>2 DEF QueueInv

LEMMA QueueStep == TypeInv /\ QueueInv /\ [Next]_vars => QueueInv'
<1> SUFFICES ASSUME TypeInv, QueueInv, [Next]_vars PROVE QueueInv'
  OBVIOUS
<1>0. /\ conn \in [Browsers -> {"new", "open", "left", "closed"}] /\ queue \in Seq(Browsers)
      /\ Free \notin Browsers /\ (cur \in Browsers <=> web \in Serving)
  BY WebAssumption DEF TypeInv, NetTyped, ThreadTyped
<1>1. CASE UNCHANGED <<conn, queue, cur>>
  BY <1>1 DEF QueueInv, Known
<1>2. CASE WebStep
  <2>1. CASE Accept
    <3>1. /\ Len(queue') = Len(queue) - 1 /\ Len(queue) > 0 /\ Len(queue) \in Nat
          /\ \A i \in 1 .. Len(queue') : queue'[i] = queue[i + 1]
          /\ cur' = queue[1] /\ conn' = conn
      BY <1>0, <2>1 DEF Accept
    <3>2. Known' = Known /\ conn[cur'] \in {"open", "left"}
      BY <3>1 DEF QueueInv, Known
    <3>3. ASSUME NEW i \in 1 .. Len(queue')
          PROVE  conn'[queue'[i]] \in {"open", "left"} /\ queue'[i] # cur'
      <4>1. i + 1 \in 1 .. Len(queue) /\ 1 \in 1 .. Len(queue) /\ i + 1 # 1
        BY <3>1
      <4> QED
        BY <3>1, <4>1 DEF QueueInv
    <3>4. \A i, j \in 1 .. Len(queue') : queue'[i] = queue'[j] => i = j
      BY <3>1 DEF QueueInv
    <3> QED
      BY <3>1, <3>2, <3>3, <3>4 DEF QueueInv
  <2>2. CASE AcceptFails
    <3>1. /\ Len(queue') = Len(queue) - 1 /\ Len(queue) > 0 /\ Len(queue) \in Nat
          /\ \A i \in 1 .. Len(queue') : queue'[i] = queue[i + 1]
          /\ queue[1] \in Browsers /\ conn' = [conn EXCEPT ![queue[1]] = "closed"]
          /\ cur' = cur /\ cur \notin Browsers
      BY <1>0, <2>2 DEF AcceptFails, Drop, webVars, Serving, Holding
    <3>2. conn[queue[1]] \in {"open", "left"}
      BY <3>1 DEF QueueInv
    <3>3. Known' = Known
      BY <1>0, <3>1, <3>2 DEF Known
    <3>4. ASSUME NEW i \in 1 .. Len(queue')
          PROVE  conn'[queue'[i]] \in {"open", "left"} /\ queue'[i] # cur'
      <4>1. i + 1 \in 1 .. Len(queue) /\ 1 \in 1 .. Len(queue) /\ i + 1 # 1
        BY <3>1
      <4>2. queue[i + 1] \in Browsers /\ queue[i + 1] # queue[1]
        BY <1>0, <4>1 DEF QueueInv
      <4> QED
        BY <1>0, <3>1, <4>1, <4>2 DEF QueueInv
    <3>5. \A i, j \in 1 .. Len(queue') : queue'[i] = queue'[j] => i = j
      BY <3>1 DEF QueueInv
    <3> QED
      BY <3>1, <3>3, <3>4, <3>5 DEF QueueInv
  <2>3. CASE Panic \/ Abort
    <3>1. /\ conn' = [b \in Browsers |-> IF conn[b] = "new" THEN "new" ELSE "closed"]
          /\ queue' = <<>> /\ cur' = Free
      BY <2>3 DEF Panic, Abort, DropAll
    <3>2. Known' = Known
      BY <1>0, <3>1 DEF Known
    <3> QED
      BY <1>0, <3>1, <3>2 DEF QueueInv
  <2>4. CASE WriteFails
    BY <1>0, <2>4, CloseLeaves DEF WriteFails, Serving
  <2> QED
    BY <1>1, <1>2, <2>1, <2>2, <2>3, <2>4 DEF WebStep, TakePiece, ReadRequest,
       ReadToEnd, Parsed, ReadFails, Lock, RunLine, RunNothing, ReadStatus, ReadList, ReadRow,
       Finish, netVars
<1>3. CASE Written
  BY <1>0, <1>3, CloseLeaves DEF Written, Serving
<1>4. ASSUME NEW b \in Browsers, Connect(b) PROVE QueueInv'
  <2>1. /\ conn[b] = "new" /\ conn' = [conn EXCEPT ![b] = "open"] /\ cur' = cur
        /\ Len(queue') = Len(queue) + 1 /\ Len(queue) \in Nat
        /\ \A i \in 1 .. Len(queue') :
             queue'[i] = IF i = Len(queue) + 1 THEN b ELSE queue[i]
    BY <1>0, <1>4 DEF Connect, webVars
  <2>2. Known' = Known \cup {b}
    BY <1>0, <2>1 DEF Known
  <2>3. IsFiniteSet(Known')
    BY <2>2, FS_AddElement DEF QueueInv
  <2>4. \A i \in 1 .. Len(queue) : queue[i] \in Browsers /\ queue[i] # b
    BY <1>0, <2>1 DEF QueueInv
  <2> QED
    BY <1>0, <2>1, <2>3, <2>4 DEF QueueInv
<1>5. ASSUME NEW b \in Browsers, Depart(b) PROVE QueueInv'
  <2>1. /\ conn[b] = "open" /\ conn' = [conn EXCEPT ![b] = "left"]
        /\ UNCHANGED <<queue, cur>>
    BY <1>5 DEF Depart, webVars
  <2>2. Known' = Known
    BY <1>0, <2>1 DEF Known
  <2>3. \A i \in 1 .. Len(queue) : queue[i] \in Browsers
    BY <1>0
  <2> QED
    BY <1>0, <2>1, <2>2, <2>3 DEF QueueInv
<1> QED
  BY <1>1, <1>2, <1>3, <1>4, <1>5 DEF Next, vars, netVars, webVars, PieceComes, BrowserStep,
     TcpStep, TcpCall, TcpLock, TcpExecute, Tick

(* The browser whose request is parsed and has not been run, if any; and   *)
(* the TCP command that is called and not counted yet.                     *)
Pending == IF web \in {"locking", "command"} THEN {cur} ELSE {}
Due == IF tcp.at = "idle" THEN 0 ELSE 1

(* Whose request held a command is served no second time.                  *)
RanInv ==
  /\ IsFiniteSet(ran)
  /\ \A b \in ran : conn[b] = "closed" \/ b = cur
  /\ web = "reading" => cur \notin ran
  /\ web \in {"locking", "command"} => (cur \in ran <=> job.cmd \in Commands)

CountedInv == calls \in Nat /\ commands + Due = calls + Cardinality(ran \ Pending)

LEMMA NotCommands ==
  /\ NoLine \notin Commands /\ Bad \notin Commands
  /\ \A r \in AnyRequest : r.cmd \in Commands => r.path \in {"/cmd", "/get"}
<1>1. NoLine \notin Commands /\ Bad \notin Commands /\ Garbled \notin Commands
  <2>1. \A c \in Commands : c.op \in {"set", "get", "del", "list", "status", "ping", "exit"}
    BY DEF Commands
  <2> QED
    BY <2>1 DEF NoLine, Bad, Garbled
<1>2. ASSUME NEW r \in AnyRequest, r.path \notin {"/cmd", "/get"}
      PROVE  r.cmd \in {NoLine, Garbled}
  BY <1>2 DEF AnyRequest
<1> QED
  BY <1>1, <1>2

LEMMA ParsedRan ==
  ASSUME TypeInv, QueueInv, RanInv, web = "reading", NEW r, Parsed(r)
  PROVE  RanInv' /\ ran' \ Pending' = ran \ Pending
<1>1. /\ ran' = (IF r.cmd \in Commands THEN ran \cup {cur} ELSE ran)
      /\ web' = "locking" /\ job' = r /\ UNCHANGED <<cur, conn>>
  BY DEF Parsed, netVars
<1>2. IsFiniteSet(ran')
  BY <1>1, FS_AddElement DEF RanInv
<1> QED
  BY <1>1, <1>2 DEF RanInv, Pending

(* The steps that leave ran as it is. *)
LEMMA RanStays ==
  ASSUME TypeInv, RanInv, UNCHANGED <<ran, conn, cur>>,
         web' # "reading" \/ web = "reading",
         web' \in {"locking", "command"} => web \in {"locking", "command"} /\ job' = job
  PROVE  RanInv'
  BY DEF RanInv

LEMMA RanStep == TypeInv /\ QueueInv /\ RanInv /\ [Next]_vars => RanInv'
<1> SUFFICES ASSUME TypeInv, QueueInv, RanInv, [Next]_vars PROVE RanInv'
  OBVIOUS
<1>0. /\ conn \in [Browsers -> {"new", "open", "left", "closed"}] /\ queue \in Seq(Browsers)
      /\ ran \subseteq Browsers /\ Free \notin Browsers /\ (cur \in Browsers <=> web \in Serving)
  BY WebAssumption DEF TypeInv, NetTyped, ThreadTyped
<1>1. CASE UNCHANGED <<ran, conn, cur, web, job>>
  BY <1>1, RanStays
<1>2. CASE Accept
  <2>1. /\ Len(queue) \in Nat /\ Len(queue) > 0 /\ cur' = queue[1]
        /\ UNCHANGED <<conn, ran>> /\ web' = "reading" /\ cur \notin Browsers
    BY <1>0, <1>2 DEF Accept, Serving, Holding
  <2>2. conn[cur'] # "closed"
    BY <2>1 DEF QueueInv
  <2> QED
    BY <1>0, <2>1, <2>2 DEF RanInv
<1>3. CASE AcceptFails
  <2>1. /\ Len(queue) > 0 /\ queue[1] \in Browsers
        /\ conn' = [conn EXCEPT ![queue[1]] = "closed"] /\ UNCHANGED <<ran, cur, web, job>>
    BY <1>0, <1>3 DEF AcceptFails, Drop, webVars
  <2> QED
    BY <1>0, <2>1 DEF RanInv
<1>4. CASE \/ ReadRequest \/ ReadToEnd
  BY <1>4, ParsedRan DEF ReadRequest, ReadToEnd
<1>5. CASE \/ TakePiece \/ ReadFails \/ Lock \/ RunLine \/ RunNothing \/ ReadStatus
           \/ ReadList \/ Finish \/ PieceComes \/ \E k \in Keys : ReadRow(k)
  <2>1. UNCHANGED <<ran, conn, cur>>
    BY <1>5 DEF TakePiece, ReadFails, Lock, RunLine, RunNothing, ReadStatus, ReadList, Finish,
       PieceComes, ReadRow, reqVars, netVars
  <2>2. /\ web' # "reading" \/ web = "reading"
        /\ web' \in {"locking", "command"} =>
             web \in {"locking", "command"} /\ job' = job
    BY <1>5 DEF TakePiece, ReadFails, Lock, Route, RunLine, RunNothing, AfterCommand,
       ReadStatus, ReadList, Finish, PieceComes, ReadRow
  <2> QED
    BY <2>1, <2>2, RanStays
<1>6. CASE Panic
  BY <1>0, <1>6 DEF Panic, DropAll, RanInv, QueueInv, Serving
<1>7. CASE Abort
  BY <1>7, FS_EmptySet DEF Abort, RanInv
<1>8. CASE \/ Written \/ WriteFails
  <2>1. /\ cur \in Browsers /\ conn' = [conn EXCEPT ![cur] = "closed"]
        /\ web' = "accept" /\ ran' = ran
    BY <1>0, <1>8 DEF Written, WriteFails, Close, Drop, Serving
  <2> QED
    BY <1>0, <2>1 DEF RanInv
<1>9. CASE \E b \in Browsers : BrowserStep(b)
  <2>1. UNCHANGED <<ran, cur, web, job>>
    BY <1>9 DEF BrowserStep, Connect, Depart, webVars
  <2>2. \A b \in ran : conn[b] = "closed" => conn'[b] = "closed"
    BY <1>0, <1>9 DEF BrowserStep, Connect, Depart
  <2> QED
    BY <2>1, <2>2 DEF RanInv
<1> QED
  BY <1>1, <1>2, <1>3, <1>4, <1>5, <1>6, <1>7, <1>8, <1>9 DEF Next, WebStep, vars, netVars,
     webVars, TcpStep, TcpCall, TcpLock, TcpExecute, Tick

(* Nothing of what the counter is compared with changes. *)
LEMMA CountStays ==
  ASSUME CountedInv, UNCHANGED <<commands, calls, tcp>>, ran' \ Pending' = ran \ Pending
  PROVE  CountedInv'
  BY DEF CountedInv, Due

LEMMA CountedStep == TypeInv /\ QueueInv /\ RanInv /\ CountedInv /\ [Next]_vars => CountedInv'
<1> SUFFICES ASSUME TypeInv, QueueInv, RanInv, CountedInv, [Next]_vars PROVE CountedInv'
  OBVIOUS
<1>0. /\ commands \in Nat /\ calls \in Nat
      /\ IsFiniteSet(ran \ Pending) /\ Cardinality(ran \ Pending) \in Nat
      /\ commands + Due = calls + Cardinality(ran \ Pending)
  <2>1. IsFiniteSet(ran \ Pending)
    BY FS_Subset DEF RanInv
  <2> QED
    BY <2>1, FS_CardinalityType DEF TypeInv, StoreTyped, CountedInv
<1>1. ASSUME NEW c, NEW reply, Execute(c, reply) PROVE commands' = commands + 1
  BY <1>1 DEF Execute
<1>2. ASSUME UNCHANGED <<ran, web, cur>> PROVE ran' \ Pending' = ran \ Pending
  BY <1>2 DEF Pending
<1>3. CASE \/ Accept \/ TakePiece \/ ReadFails \/ ReadStatus \/ ReadList \/ Finish
           \/ Panic \/ Written \/ WriteFails \/ \E k \in Keys : ReadRow(k)
  <2>1. UNCHANGED <<commands, calls, tcp, ran>>
    BY <1>3 DEF Accept, TakePiece, ReadFails, ReadStatus, ReadList, Finish, Panic, Written,
       WriteFails, Close, ReadRow, storeVars, tcpVars, reqVars
  <2>2. Pending = {} /\ Pending' = {}
    BY <1>3 DEF Accept, TakePiece, ReadFails, ReadStatus, ReadList, Finish, Panic, Written,
       WriteFails, Close, ReadRow, Pending
  <2> QED
    BY <2>1, <2>2, CountStays
<1>4. CASE \/ ReadRequest \/ ReadToEnd
  <2>1. PICK r : Parsed(r) /\ web = "reading"
    BY <1>4 DEF ReadRequest, ReadToEnd
  <2>2. UNCHANGED <<commands, calls, tcp>>
    BY <2>1 DEF Parsed, storeVars, tcpVars
  <2> QED
    BY <2>1, <2>2, ParsedRan, CountStays
<1>5. CASE Lock
  <2>1. /\ web = "locking" /\ web' = Route(job)
        /\ UNCHANGED <<commands, calls, tcp, ran, cur>>
    BY <1>5 DEF Lock, storeVars, tcpVars, reqVars
  <2>2. CASE job.path \in {"/cmd", "/get"}
    <3>1. Pending' = Pending
      BY <2>1, <2>2 DEF Route, Pending
    <3> QED
      BY <2>1, <3>1, CountStays
  <2>3. CASE job.path \notin {"/cmd", "/get"}
    <3>1. cur \notin ran
      BY <2>1, <2>3, NotCommands DEF RanInv, TypeInv, ThreadTyped
    <3>2. Pending = {cur} /\ Pending' = {}
      BY <2>1, <2>3 DEF Route, Pending
    <3> QED
      BY <2>1, <3>1, <3>2, CountStays
  <2> QED
    BY <2>2, <2>3
<1>6. CASE RunLine
  <2>1. commands' = commands + 1 /\ UNCHANGED <<calls, tcp, ran>>
    BY <1>1, <1>6 DEF RunLine, tcpVars, reqVars
  <2>2. Pending = {cur} /\ Pending' = {} /\ cur \in ran
    BY <1>6 DEF RunLine, AfterCommand, Pending, RanInv
  <2>3. ran = (ran \ Pending) \cup {cur} /\ cur \notin ran \ Pending
    BY <2>2
  <2>4. Cardinality(ran) = Cardinality(ran \ Pending) + 1
    BY <1>0, <2>3, FS_AddElement
  <2>5. ran' \ Pending' = ran
    BY <2>1, <2>2
  <2>6. Due' = Due /\ Due \in {0, 1}
    BY <2>1 DEF Due
  <2> QED
    BY <1>0, <2>1, <2>4, <2>5, <2>6 DEF CountedInv
<1>7. CASE RunNothing
  <2>1. UNCHANGED <<commands, calls, tcp, ran>>
    BY <1>7 DEF RunNothing, storeVars, tcpVars, reqVars
  <2>2. Pending = {cur} /\ Pending' = {} /\ cur \notin ran
    BY <1>7, NotCommands DEF RunNothing, AfterCommand, Pending, RanInv
  <2> QED
    BY <2>1, <2>2, CountStays
<1>8. CASE Abort
  <2>1. commands' = 0 /\ calls' = 0 /\ ran' \ Pending' = {} /\ Due' = 0
    BY <1>8 DEF Abort, Due
  <2> QED
    BY <2>1, FS_EmptySet DEF CountedInv
<1>9. CASE \/ AcceptFails \/ PieceComes \/ Tick \/ UNCHANGED vars
           \/ \E b \in Browsers : BrowserStep(b)
  <2>1. UNCHANGED <<commands, calls, tcp, ran, web, cur>>
    BY <1>9 DEF AcceptFails, PieceComes, Tick, BrowserStep, Connect, Depart, vars, storeVars,
       tcpVars, webVars
  <2> QED
    BY <1>2, <2>1, CountStays
<1>10. CASE \E c \in Calls : TcpCall(c)
  <2>1. UNCHANGED <<commands, ran, web, cur>> /\ calls' = calls + 1 /\ Due = 0 /\ Due' = 1
    BY <1>10 DEF TcpCall, TypeInv, TcpTyped, storeVars, webVars, Due
  <2> QED
    BY <1>0, <1>2, <2>1 DEF CountedInv
<1>11. CASE TcpLock
  <2>1. UNCHANGED <<commands, calls, ran, web, cur>> /\ Due = 1 /\ Due' = 1
    BY <1>11 DEF TcpLock, TypeInv, TcpTyped, storeVars, webVars, Due
  <2> QED
    BY <1>0, <1>2, <2>1 DEF CountedInv
<1>12. CASE TcpExecute
  <2>1. UNCHANGED <<calls, ran, web, cur>> /\ commands' = commands + 1 /\ Due = 1 /\ Due' = 0
    BY <1>1, <1>12 DEF TcpExecute, webVars, Due
  <2> QED
    BY <1>0, <1>2, <2>1 DEF CountedInv
<1> QED
  BY <1>3, <1>4, <1>5, <1>6, <1>7, <1>8, <1>9, <1>10, <1>11, <1>12 DEF Next, WebStep, TcpStep

(* The counter of commands is exactly the number of TCP commands done and  *)
(* of visits whose request held a command that has been run: one each, and *)
(* none for a visit without a command, whatever queries the pages make.    *)
THEOREM VisitsCountOnce == Spec => []UserCommandsCounted
<1>1. Init => QueueInv /\ RanInv /\ CountedInv
  <2> SUFFICES ASSUME Init PROVE RanInv /\ CountedInv
    BY QueueInvInit
  <2>1. ran = {} /\ ran \ Pending = {} /\ Due = 0
    BY DEF Init, Due
  <2> QED
    BY <2>1, FS_EmptySet DEF Init, RanInv, CountedInv
<1>2. CountedInv => UserCommandsCounted
  BY DEF CountedInv, UserCommandsCounted, Pending, Due
<1> QED
  BY <1>1, <1>2, QueueStep, RanStep, CountedStep, TypesHold, PTL DEF Spec
=============================================================================
