----------------------------- MODULE DurableKV ------------------------------
(***************************************************************************)
(* What the server promises its clients: one map, on which every command   *)
(* takes effect at a single instant between its arrival and its answer,    *)
(* and which outlives the process.  A key set with a TTL fades at a moment *)
(* the client does not choose; a crash takes the unanswered calls away and *)
(* brings the faded keys back for good, since the log has no TTL.          *)
(*                                                                         *)
(* No lock, no log and no clock appear here: Server.tla implements this    *)
(* map with one mutex, one append-only file and lazy expiry.               *)
(***************************************************************************)
EXTENDS Integers, FiniteSets, Functions

CONSTANTS Conns, Requests, Never

VARIABLES table,    \* key -> value, faded keys included
          mortal,   \* keys of the table that have a TTL running
          gone,     \* mortal keys that have faded
          call      \* per client: idle, the request, or how it ends

vars == <<table, mortal, gone, call>>

Idle == [op |-> "idle"]
Ok == [op |-> "ok"]
NotFound == [op |-> "missing"]
Error == [op |-> "error"]

(* A write that has taken effect; the client hears one of `answers`. *)
Settling(answers) == [op |-> "settling", answers |-> answers]

Visible == DOMAIN table \ gone

Init ==
  /\ table = [k \in {} |-> Never]
  /\ mortal = {} /\ gone = {}
  /\ call = [c \in Conns |-> Idle]

Becomes(c, x) == call' = [call EXCEPT ![c] = x]

(* A line that is no command is answered at once. *)
Invoke(c) ==
  /\ call[c] = Idle
  /\ \E r \in Requests \cup {Error} : Becomes(c, r)
  /\ UNCHANGED <<table, mortal, gone>>

(* A command may be refused, and then it has changed nothing. *)
Refuse(c) ==
  /\ call[c] \in Requests
  /\ Becomes(c, Error)
  /\ UNCHANGED <<table, mortal, gone>>

Set(c) ==
  /\ call[c].op = "set"
  /\ LET r == call[c]
     IN  /\ table' = [k \in DOMAIN table \cup {r.key} |->
                        IF k = r.key THEN r.value ELSE table[k]]
         /\ mortal' = IF r.ttl = Never THEN mortal \ {r.key}
                                       ELSE mortal \cup {r.key}
         /\ gone' = gone \ {r.key}
  /\ Becomes(c, Settling({Ok}))

(* A key that fades while it is being deleted is deleted all the same, and *)
(* may be reported missing.                                                *)
Delete(c) ==
  /\ call[c].op = "del"
  /\ LET k == call[c].key
     IN  /\ k \in DOMAIN table
         /\ table' = Restrict(table, DOMAIN table \ {k})
         /\ mortal' = mortal \ {k} /\ gone' = gone \ {k}
         /\ Becomes(c, Settling(IF k \in mortal THEN {Ok, NotFound} ELSE {Ok}))

Fading == gone' \in SUBSET mortal /\ gone \subseteq gone'

Settle(c) ==
  /\ call[c].op = "settling"
  /\ \E a \in call[c].answers : Becomes(c, a)
  /\ Fading
  /\ UNCHANGED <<table, mortal>>

Answer(c) ==
  LET r == call[c]
  IN  CASE r.op = "get"  -> IF r.key \in Visible
                              THEN [op |-> "value", key |-> r.key,
                                    value |-> table[r.key]]
                              ELSE NotFound
        [] r.op = "list" -> [op |-> "keys", keys |-> Visible]
        [] r.op = "status" -> [op |-> "status", count |-> Cardinality(Visible)]
        [] r.op = "ping" -> [op |-> "pong"]

(* Commands that only look, and the deletion of a key that is not there. *)
Look(c) ==
  /\ \/ /\ call[c].op \in {"get", "list", "status", "ping"}
        /\ Becomes(c, Answer(c))
     \/ /\ call[c].op = "del" /\ call[c].key \notin Visible
        /\ Becomes(c, NotFound)
  /\ UNCHANGED <<table, mortal, gone>>

(* The answer is heard, or the client is no longer there to hear it. *)
Finish(c) ==
  /\ call[c].op \in {"ok", "missing", "error", "value", "keys", "status",
                     "pong", "exit"}
  /\ Becomes(c, Idle)
  /\ UNCHANGED <<table, mortal, gone>>

Fade == UNCHANGED <<call, table, mortal>> /\ Fading

Crash ==
  /\ call' = [c \in Conns |-> Idle]
  /\ mortal' = {} /\ gone' = {}
  /\ UNCHANGED table

Next ==
  \/ Fade
  \/ Crash
  \/ \E c \in Conns : Invoke(c) \/ Refuse(c) \/ Set(c) \/ Delete(c)
                        \/ Settle(c) \/ Look(c) \/ Finish(c)

Spec == Init /\ [][Next]_vars
=============================================================================
