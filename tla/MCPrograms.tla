------------------------------ MODULE MCPrograms ------------------------------
(*****************************************************************************)
(* The small instances of six programs and functions that do not interact:   *)
(* Traceroute, AcceptServers, Database, JobQueue, Readline and Checksum.     *)
(* The one that runs is chosen in Init; the variables of the others keep one *)
(* of their initial values.                                                  *)
(*****************************************************************************)
EXTENDS Database

CONSTANTS
  Running,                                                  \* those to choose from
  c1, c2,                                                   \* Database
  HopsMax, Tries, TtlSize, Distances,                       \* Traceroute
  Kinds, NPool, Ordinary, Unruly, NoConn, NoOne,            \* AcceptServers
  Addrs, NULL,                                              \* JobQueue
  Chars, Streams, MaxStream, MaxLen, RlSize, NL,            \* Readline
  Base, Bytes, MaxSize                                      \* Checksum

ASSUME TraceAssumption ==
  /\ HopsMax \in Nat /\ Tries \in Nat \ {0} /\ TtlSize \in Nat \ {0, 1}
  /\ Distances \subseteq Nat \ {0}

ASSUME AcceptAssumption == NoConn \notin Ordinary \cup Unruly

(* What the callers of readline and readline_r pass, and what peers send.    *)
ASSUME ReadlineAssumption ==
  /\ MaxLen \in Nat /\ MaxLen > 1 /\ RlSize \in Nat
  /\ \A s \in Streams : s \in Seq(Chars)

VARIABLES
  which,
  dist, t_pc, hops, curtime, gotalarm, timer, shown, net, sock, done,
  kind, client, backlog, a_pc, conn, a_lock, sigchld, sigterm, handler, blame,
  front, rear, len, prev, held, clearing, order, got, due,
  reader, stream, sent, closed, taken, rl_buf, line, lines, state,
  message, next, cksum, answer

traceVars == <<dist, t_pc, hops, curtime, gotalarm, timer, shown, net, sock, done>>
acceptVars ==
  <<kind, client, backlog, a_pc, conn, a_lock, sigchld, sigterm, handler, blame>>
queueVars == <<front, rear, len, prev, held, clearing, order, got, due>>
readlineVars == <<reader, stream, sent, closed, taken, rl_buf, line, lines, state>>
checksumVars == <<message, next, cksum, answer>>
functionVars == <<readlineVars, checksumVars>>
allVars == <<which, vars, traceVars, acceptVars, queueVars, functionVars>>
-------------------------------------------------------------------------------
(* The databases to start from: two keys on chains of their own, one of them *)
(* present and a deleted record to use again; and two keys on one chain.     *)
DbKeys    == {"k1", "k2"}
DbChains  == {c1, c2}
DbKeyLen(k) == 1

Index(key, ptr, n) == [key |-> key, klen |-> 1, ptr |-> ptr, dat |-> n, len |-> 1]

DbFiles ==
  {[hash |-> [k1 |-> c1, k2 |-> c2],
    idx  |-> <<Index("k1", 0, 1), Index(Blank, 0, 2)>>,
    dat  |-> << <<"k1", 1, 0>>, <<Blank, 1, 0>> >>,
    head |-> [l \in DbChains \cup {FREE} |-> IF l = FREE THEN 2 ELSE IF l = c1 THEN 1 ELSE 0]],
   [hash |-> [k1 |-> c1, k2 |-> c1],
    idx  |-> <<Index("k1", 0, 1), Index("k2", 1, 2)>>,
    dat  |-> << <<"k1", 1, 0>>, <<"k2", 1, 0>> >>,
    head |-> [l \in DbChains \cup {FREE} |-> IF l = c1 THEN 2 ELSE 0]]}

(* Data of the old length and of another one. *)
DbCalls ==
  {[op |-> o, key |-> k, data |-> Absent] : o \in {"fetch", "delete"}, k \in DbKeys} \cup
  {[op |-> o, key |-> k, data |-> <<k, 1, 1>>] : o \in {"insert", "store"}, k \in DbKeys} \cup
  {[op |-> o, key |-> k, data |-> <<k, 2, 1>>] : o \in {"replace", "store"}, k \in DbKeys}

(* Every stream of up to MaxStream bytes. *)
ShortStreams == UNION {[1 .. n -> Chars] : n \in 0 .. MaxStream}
-------------------------------------------------------------------------------
Trace  == INSTANCE Traceroute WITH pc <- t_pc
Accept == INSTANCE AcceptServers WITH pc <- a_pc, lock <- a_lock
Queue  == INSTANCE JobQueue
Lines  == INSTANCE Readline
Sum    == INSTANCE Checksum

(* Properties of a program whose first state is a final one hold of it while *)
(* another program runs.                                                     *)
MCInit ==
  /\ which \in Running
  /\ which = "traceroute" \/ dist = 1
  /\ which = "accept" \/ kind = "pool"
  /\ which = "database" \/ hash = [k1 |-> c1, k2 |-> c2]
  /\ which = "queue" \/ prev = [a \in Addrs |-> NULL]
  /\ which = "readline" \/ (reader = "readline" /\ stream = <<>>)
  /\ which = "checksum" \/ message = <<0, 0>>
  /\ Init /\ Trace!Init /\ Accept!Init /\ Queue!Init /\ Lines!Init /\ Sum!Init

DatabaseNext == Next    /\ UNCHANGED <<traceVars, acceptVars, queueVars, functionVars>>
TraceNext  == Trace!Next  /\ UNCHANGED <<vars, acceptVars, queueVars, functionVars>>
AcceptNext == Accept!Next /\ UNCHANGED <<vars, traceVars, queueVars, functionVars>>
QueueNext  == Queue!Next  /\ UNCHANGED <<vars, traceVars, acceptVars, functionVars>>
ReadlineNext ==
  Lines!Next /\ UNCHANGED <<vars, traceVars, acceptVars, queueVars, checksumVars>>
ChecksumNext ==
  Sum!Next /\ UNCHANGED <<vars, traceVars, acceptVars, queueVars, readlineVars>>

MCNext ==
  /\ \/ which = "traceroute" /\ TraceNext
     \/ which = "accept" /\ AcceptNext
     \/ which = "database" /\ DatabaseNext
     \/ which = "queue" /\ QueueNext
     \/ which = "readline" /\ ReadlineNext
     \/ which = "checksum" /\ ChecksumNext
  /\ UNCHANGED which

(* The fairness of each program. *)
FairTraceroute ==
  /\ WF_traceVars(which = "traceroute" /\ Trace!Program)
  /\ WF_traceVars(which = "traceroute" /\ Trace!SigAlrm)
FairAccept ==
  /\ \A w \in Accept!Workers :
       /\ WF_acceptVars(which = "accept" /\ Accept!Worker(w))
       /\ WF_acceptVars(which = "accept" /\ Accept!Terminate(w))
  /\ WF_acceptVars(which = "accept" /\ Accept!MainStep)
  /\ WF_acceptVars(which = "accept" /\ Accept!Handler)
  /\ WF_acceptVars(which = "accept" /\ Accept!Shutdown)
  /\ \A c \in Accept!Conns :
       /\ WF_acceptVars(which = "accept" /\ Accept!Request(c))
       /\ WF_acceptVars(which = "accept" /\ Accept!Broken(c))
FairDatabase ==
  \A p \in Procs : WF_vars(which = "database" /\ Step(p))

MCSpec ==
  /\ MCInit /\ [][MCNext]_allVars
  /\ FairTraceroute /\ FairAccept /\ FairDatabase
-------------------------------------------------------------------------------
(* The properties of the components, under the names they have there. *)

(* No fault of another process takes an accepted connection from its client. *)
FaultsContained == Accept!FaultsContained

(* Only where nobody can accept any more does a client wait for ever.        *)
ConnAnswered == Accept!ConnAnswered

(* serv01.c collects every child that has ended, merged SIGCHLDs or not. *)
Reaped == Accept!Reaped

(* After SIGINT the server ends, and none of its children stays behind. *)
ShutdownCompletes == Accept!ShutdownCompletes

(* A late answer of the network is never credited to an earlier hop. *)
NeverTooFar == Trace!NeverTooFar

(* front, rear, prev and len of jobqueue hold the queue of the jobs pushed.  *)
ListIsQueue == Queue!ListIsQueue

(* readline and readline_r return the bytes that were sent, once, in order.  *)
LinesKept == Lines!LinesKept

(* in_checknum computes the sum that in_cksum verifies. *)
ChecksumVerifies == Sum!ChecksumVerifies

(* Database implements KeyStore; the step of the abstract specification is   *)
(* looked for only where it is the database that runs.                       *)
ImplementsKeyStore ==
  /\ Abstract!Init
  /\ [][which = "database" => Abstract!Next]_(Abstract!vars)

(* Every variable of Database, Traceroute, AcceptServers and JobQueue keeps  *)
(* its type.                                                                 *)
TypesOK == TypeOK /\ Trace!TypeOK /\ Accept!TypeOK /\ Queue!TypeOK

(* TraceEnds, where it is traceroute that runs: the loop comes to its end.   *)
TraceEndsHere == <>(which = "traceroute" => t_pc = "end" \/ Trace!AlarmMissed)
===============================================================================
