----------------------------- MODULE AtMostOnce -----------------------------
(***************************************************************************)
(* What a session promises the person at the prompt: requests are carried  *)
(* out at most once and in order, the answer that is shown is the answer   *)
(* to the request just asked, and when the session ends at most the last   *)
(* request is in doubt.  No stream, no line end and no timeout appear      *)
(* here; Session.tla implements this.                                      *)
(***************************************************************************)
EXTENDS Naturals, Sequences

VARIABLES asked,   \* number of requests asked
          done,    \* the requests carried out, by number
          heard,   \* the requests whose answers were shown
          over     \* the client has left

vars == <<asked, done, heard, over>>

Init == asked = 0 /\ done = <<>> /\ heard = <<>> /\ over = FALSE

(* The next question waits for the last answer. *)
Ask ==
  /\ ~over /\ asked = Len(heard)
  /\ asked' = asked + 1
  /\ UNCHANGED <<done, heard, over>>

(* Possibly after the client has left. *)
Do ==
  /\ Len(done) < asked
  /\ done' = Append(done, Len(done) + 1)
  /\ UNCHANGED <<asked, heard, over>>

Hear ==
  /\ ~over /\ Len(heard) < Len(done)
  /\ heard' = Append(heard, done[Len(heard) + 1])
  /\ UNCHANGED <<asked, done, over>>

GiveUp == over' = TRUE /\ UNCHANGED <<asked, done, heard>>

Next == Ask \/ Do \/ Hear \/ GiveUp

Spec == Init /\ [][Next]_vars
=============================================================================
