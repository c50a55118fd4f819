------------------------------ MODULE LogLife -------------------------------
(***************************************************************************)
(* The log file on its own: an owner that appends records one after the    *)
(* other, fails or is killed in between, and is started again.  What the   *)
(* owner does to its store between two restarts is left to Server.tla.     *)
(***************************************************************************)
EXTENDS Persistence

CONSTANTS MaxLines,   \* bound on the lines of the file
          MaxTail     \* bound on the text after the last line end

ASSUME LifeAssumption == MaxLines \in Nat /\ MaxTail \in Nat

Room == Len(lines) < MaxLines /\ Len(tail) < MaxTail

Appending ==
  /\ Room
  /\ \/ \E r \in Records : AppendBody(r) \/ TornBody(r)
     \/ NewlineFails
  /\ UNCHANGED <<phase, pos, data, now>>

Ending == AppendNewline /\ UNCHANGED <<phase, pos, data, now>>

LifeNext == Appending \/ Ending \/ Kill \/ PowerLoss \/ Restart \/ Recovering

LifeSpec == LogInit /\ [][LifeNext]_logVars

-----------------------------------------------------------------------------
(* Line by line, recover keeps the store equal to what the last record     *)
(* naming each key says, whatever order sets, overwrites and deletions     *)
(* come in and wherever an earlier crash cut the file.                     *)
ReplayFollowsLog == phase = "recovering" => data = Lasting(Left[ReadBack(File, pos)])

(* A recovery that comes up has read every line, the unended one at the    *)
(* end included, and kept nothing from one it could not read: recover      *)
(* never returns Ok with part of the file behind it ("绝不静默清空",       *)
(* src/persistence.rs:101).                                                *)
RecoversAllOrNothing ==
  [][phase = "recovering" /\ phase' = "up" =>
       Readable(File) /\ data' = Lasting(Left[ReadBack(File, Len(File))])]_logVars

(* The line end that completes a record on a clean tail makes a line which *)
(* reads back as that record, blanks of its value included (to_line and    *)
(* from_line are inverses on what the parser lets through).                *)
AppendReadsBack ==
  [][Len(lines') > Len(lines) /\ tail = ToLine(writing) =>
       FromLine[lines'[Len(lines')]] = writing]_logVars

(* "A truncated file makes recover return an error" (src/persistence.rs:10 *)
(* and :101): a start succeeds only if what follows the last line end is   *)
(* nothing, or the whole text of a record.  The code accepts a text that   *)
(* was cut short whenever what is left of it parses: "SET a " gives a the  *)
(* empty value.  ("DEL a" left of "DEL ab" deletes another key as well,    *)
(* but is the text of a record, which this formula lets pass.)             *)
TruncationDetected ==
  [][phase = "recovering" /\ phase' = "up" =>
       tail = <<>> \/ \E r \in Records : tail = ToLine(r)]_logVars
=============================================================================
