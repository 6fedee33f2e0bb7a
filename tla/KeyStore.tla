------------------------------- MODULE KeyStore -------------------------------
(* What apue_db.h promises to the processes that share a database: a map     *)
(* from keys to data on which each call acts at once.                        *)
EXTENDS Integers

CONSTANTS Procs, Keys, Calls, Data(_), Absent

VARIABLES
  map,   \* the data of each key
  ret    \* the last call of each process, and what it returned

vars == <<map, ret>>

(* What a call returns: a code, and the data where it returns some. *)
Code(n) == <<n, Absent>>
Datum(d) == <<0, d>>

Return(p, r) == ret' = [ret EXCEPT ![p] = r]

Init ==
  /\ DOMAIN map = Keys
  /\ \A k \in Keys : map[k] \in Data(k) \cup {Absent}
  /\ ret = [p \in Procs |-> <<>>]

Fetch(p, c) ==
  /\ c.op = "fetch"
  /\ Return(p, <<c, Datum(map[c.key])>>)
  /\ UNCHANGED map

(* A call that finds no record to delete or to replace, or one where it was  *)
(* to insert the first.                                                      *)
Refuse(p, c) ==
  /\ \/ c.op \in {"delete", "replace"} /\ map[c.key] = Absent
     \/ c.op = "insert" /\ map[c.key] # Absent
  /\ Return(p, <<c, Code(IF c.op = "insert" THEN 1 ELSE -1)>>)
  /\ UNCHANGED map

(* A call that changes the map; data is Absent in a deletion. *)
Update(p, c) ==
  /\ \/ c.op \in {"delete", "replace"} /\ map[c.key] # Absent
     \/ c.op = "insert" /\ map[c.key] = Absent
     \/ c.op = "store"
  /\ Return(p, <<c, Code(0)>>)
  /\ map' = [map EXCEPT ![c.key] = c.data]

(* A store that finds the index file full ends its process; the record it    *)
(* was to replace with one of another length is gone by then.                *)
FileFull(p, c) ==
  /\ c.op \in {"insert", "replace", "store"}
  /\ Return(p, <<c>>)
  /\ map' = map \/ map' = [map EXCEPT ![c.key] = Absent]

(* A scan runs beside the updates: it returns data of the key it names, at   *)
(* the end nothing.                                                          *)
NextRec(p) ==
  /\ \/ Return(p, <<[op |-> "eof", key |-> Absent, data |-> Absent]>>)
     \/ \E k \in Keys : \E d \in Data(k) :
          Return(p, <<[op |-> "next", key |-> k, data |-> d]>>)
  /\ UNCHANGED map

Next ==
  \E p \in Procs :
    \/ \E c \in Calls : Fetch(p, c) \/ Refuse(p, c) \/ Update(p, c) \/ FileFull(p, c)
    \/ NextRec(p)

Spec == Init /\ [][Next]_vars
===============================================================================
