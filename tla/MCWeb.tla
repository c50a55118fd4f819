-------------------------------- MODULE MCWeb --------------------------------
(* Two browsers, so that one can wait behind the other; one TCP command,    *)
(* which may fall between any two steps of a page; two keys, so that a page *)
(* has two rows to read.                                                    *)
EXTENDS Web

SetCmd(k, v, t) == [op |-> "set", key |-> k, value |-> v, ttl |-> t]
Asks(p, c) == [path |-> p, cmd |-> c]

MCKeys == {"k1", "k2"}
MCRequests ==
  {Asks("/", NoLine), Asks("/data", NoLine), Asks("other", NoLine), Asks("broken", NoLine)}
  \cup {Asks("/get", [op |-> "get", key |-> "k1"]), Asks("/get", Garbled)}
  \cup {Asks("/cmd", c) :
          c \in {SetCmd("k1", "v", 1), [op |-> "del", key |-> "k1"], [op |-> "exit"],
                 Bad, Garbled, Huge}}
MCCalls == {SetCmd("k1", "w", Never), SetCmd("k2", "w", 1), [op |-> "del", key |-> "k1"]}
MCKept == {EmptyMap, [k \in MCKeys |-> "v"]}
MCValues == {"v", "w"}
=============================================================================
