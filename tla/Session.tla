------------------------------ MODULE Session -------------------------------
(***************************************************************************)
(* One session: the prompt of src/client.rs and the connection thread of   *)
(* src/server.rs that serves it, with the two byte streams between them.   *)
(* Requests are numbered; a stream is a sequence of texts and line ends,   *)
(* since both sides write a line with two calls of write_all.              *)
(*                                                                         *)
(* cl is where run_tcp_repl stands, sv where handle_connection stands:     *)
(*   prompt, typed, texted (no line end yet), waiting, done                *)
(*   reading, running, replying, texted, leaving, closed                   *)
(* What happens inside `running`, the wait for the mutex included, is      *)
(* Server.tla's subject.                                                   *)
(***************************************************************************)
EXTENDS Integers, Sequences

CONSTANTS Asks,         \* the commands that are asked: "call" (it has an
                        \* answer) and "exit"
          ReplyLines,   \* the numbers of lines a reply may take
          Faults,       \* the failures that may happen
          MaxRequests   \* bound on the requests of a session

ASSUME SessionAssumption ==
  /\ Asks \subseteq {"call", "exit"}
  /\ ReplyLines \subseteq Nat \ {0}
  /\ Faults \subseteq {"timeout", "kill_client", "crash"}
  /\ MaxRequests \in Nat

VARIABLES cl, sv,
          up,      \* client to server, not read yet
          down,    \* server to client, not read yet
          asked,   \* the commands asked, in order
          job,     \* the number of the request the thread works on
          done,    \* the requests executed, by number
          heard    \* the numbers that the printed replies belong to

vars == <<cl, sv, up, down, asked, job, done, heard>>
clientVars == <<cl, asked, heard>>
threadVars == <<sv, job, done>>

End == 0           \* the line end; the text of request or reply n is n

(* The thread never takes for a request what is none: it works on one that *)
(* was asked, whatever the two ends have written and lost so far.          *)
SessionTypeOK ==
  /\ cl \in {"prompt", "typed", "texted", "waiting", "done"}
  /\ sv \in {"reading", "running", "replying", "texted", "leaving", "closed"}
  /\ up \in Seq(Nat) /\ down \in Seq(Nat)
  /\ asked \in Seq(Asks)
  /\ job \in Nat /\ (sv \in {"running", "replying", "texted"} => job \in 1 .. Len(asked))
  /\ done \in Seq(Nat) /\ heard \in Seq(Nat)

(* Connected, and the thread has counted the connection. *)
Init ==
  /\ cl = "prompt" /\ sv = "reading"
  /\ up = <<>> /\ down = <<>>
  /\ asked = <<>> /\ job = 0 /\ done = <<>> /\ heard = <<>>

-----------------------------------------------------------------------------
(* A line is typed that parse_command accepts; one that it rejects is      *)
(* answered on the spot and never sent.                                    *)
Type(a) ==
  /\ cl = "prompt" /\ Len(asked) < MaxRequests
  /\ asked' = Append(asked, a)
  /\ cl' = "typed"
  /\ UNCHANGED <<threadVars, up, down, heard>>

(* End of input, or an error on it. *)
Quit ==
  /\ cl = "prompt" /\ cl' = "done"
  /\ UNCHANGED <<threadVars, up, down, asked, heard>>

WriteText ==
  /\ cl = "typed" /\ cl' = "texted"
  /\ up' = Append(up, Len(asked))
  /\ UNCHANGED <<threadVars, down, asked, heard>>

\* Variant: the line end is forgotten.
WriteNoEnd ==
  /\ cl = "texted" /\ cl' = "waiting"
  /\ UNCHANGED <<threadVars, up, down, asked, heard>>

WriteEnd ==
  /\ cl = "texted" /\ cl' = "waiting"
  /\ up' = Append(up, End)
  /\ UNCHANGED <<threadVars, down, asked, heard>>

(* A write to a connection the server has closed may fail, and may not. *)
WriteFails ==
  /\ cl \in {"typed", "texted"} /\ sv = "closed"
  /\ cl' = "done"
  /\ UNCHANGED <<threadVars, up, down, asked, heard>>

(* read_line returns a line, or what is left when the server is gone.      *)
Hear ==
  /\ cl = "waiting"
  /\ Len(down) >= 2 \/ (Len(down) = 1 /\ sv = "closed")
  /\ heard' = Append(heard, Head(down))
  /\ down' = SubSeq(down, 3, Len(down))
  /\ cl' = IF asked[Len(asked)] = "exit" THEN "done" ELSE "prompt"
  /\ UNCHANGED <<threadVars, up, asked>>

(* read_line returns 0: the server has closed the connection. *)
HearEof ==
  /\ cl = "waiting" /\ down = <<>> /\ sv = "closed"
  /\ cl' = "done"
  /\ UNCHANGED <<threadVars, up, down, asked, heard>>

\* Variant: after a timeout the prompt comes back.
TimeoutGoesOn ==
  /\ "timeout" \in Faults
  /\ cl = "waiting" /\ cl' = "prompt"
  /\ UNCHANGED <<threadVars, up, down, asked, heard>>

(* Ten seconds without an answer, which may be on its way: the client      *)
(* gives the whole session up.                                             *)
TimesOut ==
  /\ "timeout" \in Faults
  /\ cl = "waiting" /\ cl' = "done"
  /\ UNCHANGED <<threadVars, up, down, asked, heard>>

KillClient ==
  /\ "kill_client" \in Faults
  /\ cl # "done" /\ cl' = "done"
  /\ UNCHANGED <<threadVars, up, down, asked, heard>>

-----------------------------------------------------------------------------
\* Variant: the line end is left in the stream.
TakeLeavesEnd ==
  /\ sv = "reading"
  /\ Len(up) >= 2 \/ (Len(up) = 1 /\ cl = "done")
  /\ job' = Head(up)
  /\ up' = Tail(up)
  /\ sv' = "running"
  /\ UNCHANGED <<clientVars, down, done>>

(* read_line returns a line, or what is left when the client is gone.  Its *)
(* parse succeeds, since the client's own parse did: a text arrives whole  *)
(* or not at all.                                                          *)
Take ==
  /\ sv = "reading"
  /\ Len(up) >= 2 \/ (Len(up) = 1 /\ cl = "done")
  /\ job' = Head(up)
  /\ up' = SubSeq(up, 3, Len(up))
  /\ sv' = "running"
  /\ UNCHANGED <<clientVars, down, done>>

\* Variant: end of file is taken for an empty line.
TakeEofSkipped ==
  /\ sv = "reading" /\ up = <<>> /\ cl = "done"
  /\ UNCHANGED vars

(* read_line returns 0. *)
TakeEof ==
  /\ sv = "reading" /\ up = <<>> /\ cl = "done"
  /\ sv' = "leaving"
  /\ UNCHANGED <<clientVars, up, down, job, done>>

(* read_line fails: the client left with answers unread, and what it had   *)
(* sent may go with it.                                                    *)
TakeFails ==
  /\ sv = "reading" /\ cl = "done" /\ down # <<>>
  /\ sv' = "leaving"
  /\ UNCHANGED <<clientVars, up, down, job, done>>

\* Variant: a command is executed again when its reply could not be sent.
SendRetries ==
  /\ sv \in {"replying", "texted"} /\ cl = "done"
  /\ sv' = "running"
  /\ UNCHANGED <<clientVars, up, down, job, done>>

\* Variant: EXIT is passed over, and the thread reads on.
ExecuteIgnoresExit ==
  /\ sv = "running"
  /\ done' = Append(done, job)
  /\ sv' = IF asked[job] = "exit" THEN "reading" ELSE "replying"
  /\ UNCHANGED <<clientVars, up, down, job>>

(* execute; for EXIT it returns None, and the loop ends without a reply.   *)
Execute ==
  /\ sv = "running"
  /\ done' = Append(done, job)
  /\ sv' = IF asked[job] = "exit" THEN "leaving" ELSE "replying"
  /\ UNCHANGED <<clientVars, up, down, job>>

(* A reply with a value that holds line ends (FormRecordsReplay in         *)
(* WebText.tla) is more than one line.                                     *)
ReplyText(r, n) == [i \in 1 .. 2 * n - 1 |-> IF i % 2 = 1 THEN r ELSE End]

(* send_line, its first write. *)
SendText ==
  /\ sv = "replying" /\ sv' = "texted"
  /\ \E n \in ReplyLines : down' = down \o ReplyText(job, n)
  /\ UNCHANGED <<clientVars, up, job, done>>

SendEnd ==
  /\ sv = "texted" /\ sv' = "reading"
  /\ down' = Append(down, End)
  /\ UNCHANGED <<clientVars, up, job, done>>

SendFails ==
  /\ sv \in {"replying", "texted"} /\ cl = "done"
  /\ sv' = "leaving"
  /\ UNCHANGED <<clientVars, up, down, job, done>>

(* The connection is uncounted, and closed when the function returns. *)
Leave ==
  /\ sv = "leaving" /\ sv' = "closed"
  /\ UNCHANGED <<clientVars, up, down, job, done>>

(* The server's process dies; an answer on its way may be lost with it.    *)
Crash ==
  /\ "crash" \in Faults
  /\ sv # "closed" /\ sv' = "closed"
  /\ \E n \in 0 .. Len(down) : down' = SubSeq(down, 1, n)
  /\ UNCHANGED <<clientVars, up, job, done>>

-----------------------------------------------------------------------------
(* The session is over on both sides. *)
Over == cl = "done" /\ sv = "closed" /\ UNCHANGED vars

Client ==
  \/ \E a \in Asks : Type(a)
  \/ Quit \/ WriteText \/ WriteEnd \/ WriteFails
  \/ Hear \/ HearEof \/ TimesOut \/ KillClient

Thread ==
  \/ Take \/ TakeEof \/ TakeFails \/ Execute
  \/ SendText \/ SendEnd \/ SendFails \/ Leave

Next == Client \/ Thread \/ Crash \/ Over

Spec == Init /\ [][Next]_vars

(* The thread runs, and so does the client once it has a line to send or   *)
(* an answer to read; nobody has to type, and nothing has to fail.         *)
FairSpec ==
  /\ Spec
  /\ WF_vars(Thread)
  /\ WF_vars(WriteText \/ WriteEnd \/ WriteFails \/ Hear \/ HearEof)

-----------------------------------------------------------------------------
(* The reply that run_tcp_repl prints is the reply to the request just     *)
(* asked, never one left over from an earlier one (one reply line per      *)
(* request; after a timeout run_tcp_repl does not go on).                  *)
RepliesMatch == [][heard' # heard => heard'[Len(heard')] = Len(asked)]_vars

(* Seen from the prompt: requests are executed at most once, in order, and *)
(* when the session breaks only the last one is in doubt.                  *)
Call == INSTANCE AtMostOnce WITH asked <- Len(asked), over <- cl = "done"

ImplementsAtMostOnce == Call!Spec

(* A client that waits is answered, or learns that the server is gone: no  *)
(* state in which each side waits for the other's line end.                *)
WaitEnds == cl = "waiting" ~> cl # "waiting"

(* The thread of a client that has left ends, so its connection leaves the *)
(* counter, wherever in a request the client left.                         *)
ThreadEnds == cl = "done" ~> sv = "closed"

(* EXIT has no reply, although src/PROTOCOL.md:16 promises BYE: the client *)
(* is to learn from the closed connection that its EXIT was taken, and the *)
(* session is to end on both sides, with timeouts and deaths on the way.   *)
ExitEnds ==
  asked # <<>> /\ asked[Len(asked)] = "exit" ~> cl = "done" /\ sv = "closed"
=============================================================================
