---------------------------- MODULE Persistence -----------------------------
(***************************************************************************)
(* The log file of src/persistence.rs and the life of the process that     *)
(* owns it: append, restart, and the replay that rebuilds the store.       *)
(*                                                                         *)
(* `append` formats its line with writeln!, which hands the file the text  *)
(* of the record and the line end as two writes, and never syncs: flush on *)
(* a File does nothing.  So a process can stop between the two writes, a   *)
(* full disk can take part of a text, and a power failure can cut the file *)
(* anywhere.  FAULTS names the failures an instance admits.                *)
(***************************************************************************)
EXTENDS LogFormat

CONSTANTS Keys,        \* keys the parser accepts
          Values,      \* values the parser accepts
          Faults,      \* the failures that may happen
          NoRecord     \* no append is under way

FaultKinds == {"kill", "kill_in_append", "open_error", "read_error",
               "torn_write", "power_loss"}

Clean(s) == \A i \in 1 .. Len(s) : s[i] # BL

Records == {SetRecord(k, v) : k \in Keys, v \in Values}
             \cup {DelRecord(k) : k \in Keys}

(* validate_key of src/parser.rs: a key is not empty and holds no blank.   *)
(* parse_value_and_ttl: a value is not empty, and may hold blanks.         *)
ASSUME LogAssumption ==
  /\ \A k \in Keys : k \in Text /\ k # <<>> /\ Clean(k)
  /\ \A v \in Values : v \in Text /\ v # <<>>
  /\ Faults \subseteq FaultKinds
  /\ NoRecord \notin Records

VARIABLES lines,    \* the lines of the file, each with its line end
          tail,     \* the text after the last line end
          phase,    \* "down", "recovering", "up", or "failed" (exit code 1)
          pos,      \* lines recover has replayed
          data,     \* the store in memory
          now,      \* Instant::now()
          writing   \* the record append has written without its line end

fileVars == <<lines, tail>>
logVars == <<lines, tail, phase, pos, data, now, writing>>

File == LinesOf(lines, tail)

LogTypeOK ==
  /\ lines \in Seq(Text)
  /\ tail \in Text
  /\ phase \in {"down", "recovering", "up", "failed"}
  /\ pos \in Nat
  /\ now \in Nat
  /\ writing \in Records \cup {NoRecord}
  /\ writing # NoRecord => phase = "up"

(* First start: there is no file. *)
LogInit ==
  /\ lines = <<>> /\ tail = <<>>
  /\ phase = "down" /\ pos = 0
  /\ data = EmptyMap /\ now = 0 /\ writing = NoRecord

\* Variant: the file is created anew for every record.
AppendBodyTruncates(r) ==
  /\ phase = "up" /\ writing = NoRecord
  /\ lines' = <<>>
  /\ tail' = ToLine(r)
  /\ writing' = r

(* append, its first write: the record's text, after whatever the file     *)
(* ends with.                                                              *)
AppendBody(r) ==
  /\ phase = "up" /\ writing = NoRecord
  /\ tail' = tail \o ToLine(r)
  /\ writing' = r
  /\ UNCHANGED lines

(* append, its second write: the line end.                                 *)
AppendNewline ==
  /\ writing # NoRecord
  /\ lines' = Append(lines, tail)
  /\ tail' = <<>>
  /\ writing' = NoRecord

(* The second write fails: append returns Err, the text stays.             *)
NewlineFails ==
  /\ "torn_write" \in Faults
  /\ writing # NoRecord
  /\ writing' = NoRecord
  /\ UNCHANGED fileVars

(* The first write is cut short by an error: append returns Err, the part  *)
(* that was written stays.                                                 *)
TornBody(r) ==
  /\ "torn_write" \in Faults
  /\ phase = "up" /\ writing = NoRecord
  /\ \E n \in 1 .. Len(ToLine(r)) - 1 : tail' = tail \o SubSeq(ToLine(r), 1, n)
  /\ UNCHANGED <<lines, writing>>

\* Variant: an append outlives the process it was running in.
LoseMemoryNotWriting ==
  /\ phase' = "down" /\ pos' = 0
  /\ data' = EmptyMap /\ UNCHANGED writing

(* Everything the process held in memory is gone. *)
LoseMemory ==
  /\ phase' = "down" /\ pos' = 0
  /\ data' = EmptyMap /\ writing' = NoRecord

(* The process is killed: what its writes handed to the system stays.      *)
Kill ==
  /\ phase \in {"recovering", "up"}
  /\ IF writing = NoRecord THEN "kill" \in Faults ELSE "kill_in_append" \in Faults
  /\ LoseMemory
  /\ UNCHANGED <<lines, tail, now>>

(* Power fails: nothing was synced, and the file comes back cut anywhere.  *)
PowerLoss ==
  /\ "power_loss" \in Faults
  /\ phase \in {"recovering", "up"}
  /\ LoseMemory
  /\ UNCHANGED now
  /\ \E n \in 0 .. Len(lines) :
       /\ lines' = SubSeq(lines, 1, n)
       /\ LET next == IF n < Len(lines) THEN lines[n + 1] ELSE tail
          IN  \E m \in 0 .. Len(next) : tail' = SubSeq(next, 1, m)

(* run_network, up to its call of recover. *)
Restart ==
  /\ phase \in {"down", "failed"}
  /\ phase' = "recovering" /\ pos' = 0 /\ data' = EmptyMap
  /\ UNCHANGED <<lines, tail, now, writing>>

\* Variant: an unreadable line is skipped.
RecoverSkipsBadLine ==
  /\ phase = "recovering"
  /\ pos < Len(File)
  /\ pos' = pos + 1
  /\ LET r == FromLine[File[pos + 1]]
     IN  data' = IF r = Unreadable THEN data ELSE Replay(data, r, now)
  /\ UNCHANGED <<lines, tail, phase, now, writing>>

(* recover, one turn of its loop: a readable line is replayed. *)
RecoverLine ==
  /\ phase = "recovering"
  /\ pos < Len(File)
  /\ FromLine[File[pos + 1]] # Unreadable
  /\ pos' = pos + 1
  /\ data' = Replay(data, FromLine[File[pos + 1]], now)
  /\ UNCHANGED <<lines, tail, phase, now, writing>>

\* Variant: an unreadable line makes recover begin again.
RecoverStartsOver ==
  /\ phase = "recovering"
  /\ pos < Len(File)
  /\ FromLine[File[pos + 1]] = Unreadable
  /\ pos' = 0 /\ data' = EmptyMap
  /\ UNCHANGED <<lines, tail, phase, now, writing>>

(* recover returns Err at the first line it cannot read, and the process   *)
(* exits with the file as it is.                                           *)
RecoverFails ==
  /\ phase = "recovering"
  /\ pos < Len(File)
  /\ FromLine[File[pos + 1]] = Unreadable
  /\ phase' = "failed"
  /\ UNCHANGED <<lines, tail, pos, data, now, writing>>

(* The file cannot be opened, though it is there, or a line of it cannot   *)
(* be read (an error of the disk, a character cut in two).                 *)
ReadFails ==
  /\ "read_error" \in Faults
  /\ phase = "recovering"
  /\ phase' = "failed"
  /\ UNCHANGED <<lines, tail, pos, data, now, writing>>

RecoverDone ==
  /\ phase = "recovering"
  /\ pos = Len(File)
  /\ phase' = "up"
  /\ UNCHANGED <<lines, tail, pos, data, now, writing>>

Recovering == RecoverLine \/ RecoverFails \/ ReadFails \/ RecoverDone
=============================================================================
