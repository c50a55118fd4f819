----------------------------- MODULE MCSession ------------------------------
(* Four requests: an answer that comes late could be taken for the next    *)
(* one's, and the one after that.                                           *)
EXTENDS Session

MCAllFaults == {"timeout", "kill_client", "crash"}
=============================================================================
