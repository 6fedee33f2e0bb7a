----------------------------- MODULE ProgramsProof ----------------------------
(*****************************************************************************)
(* The safety properties of Traceroute, JobQueue, Readline and AcceptServers,*)
(* for every value of their constants.  Each theorem states the property of  *)
(* the component by itself and of MCSpec, of which the component is a part:  *)
(* a step of MCSpec is a step of the component or leaves it alone.           *)
(*****************************************************************************)
EXTENDS MCPrograms, TLAPS

(* A step of MCSpec is a step of each program or leaves its variables alone. *)
LEMMA StepsOfPrograms ==
  ASSUME [MCNext]_allVars
  PROVE  /\ [Trace!Next]_(Trace!vars)
         /\ [Queue!Next]_(Queue!vars)
         /\ [Lines!Next]_(Lines!vars)
         /\ [Accept!Next]_(Accept!vars)
  <1>1. /\ Trace!Next \/ UNCHANGED traceVars
        /\ Queue!Next \/ UNCHANGED queueVars
        /\ Lines!Next \/ UNCHANGED readlineVars
        /\ Accept!Next \/ UNCHANGED acceptVars
    BY Zenon
       DEF MCNext, TraceNext, AcceptNext, DatabaseNext, QueueNext, ReadlineNext,
       ChecksumNext, allVars, functionVars
  <1>2. /\ UNCHANGED traceVars => UNCHANGED Trace!vars
        /\ UNCHANGED queueVars => UNCHANGED Queue!vars
        /\ UNCHANGED readlineVars => UNCHANGED Lines!vars
        /\ UNCHANGED acceptVars => UNCHANGED Accept!vars
    BY Zenon
       DEF traceVars, queueVars, readlineVars, acceptVars, Trace!vars, Queue!vars,
       Lines!vars, Accept!vars
  <1> QED
    BY Zenon, <1>1, <1>2
-------------------------------------------------------------------------------
(* Sequences. *)

(* What an element at the end leaves as it was. *)
LEMMA AppendFacts ==
  ASSUME NEW S, NEW s \in Seq(S), NEW e \in S
  PROVE  /\ Append(s, e) \in Seq(S) /\ Append(s, e) # <<>>
         /\ Len(Append(s, e)) = Len(s) + 1
         /\ Append(s, e)[Len(s) + 1] = e
         /\ \A i \in 1 .. Len(s) : Append(s, e)[i] = s[i]
  OBVIOUS

(* Only the empty sequence has length 0. *)
LEMMA EmptySeq ==
  ASSUME NEW S, NEW s \in Seq(S)
  PROVE  Len(s) \in Nat /\ DOMAIN s = 1 .. Len(s) /\ (s = <<>> <=> Len(s) = 0)
  OBVIOUS

(* A piece of a sequence. *)
LEMMA SubSeqFacts ==
  ASSUME NEW S, NEW s \in Seq(S), NEW a \in Nat, NEW n \in Nat, a + n <= Len(s)
  PROVE  /\ SubSeq(s, a + 1, a + n) \in Seq(S)
         /\ Len(SubSeq(s, a + 1, a + n)) = n
         /\ \A j \in 1 .. n : SubSeq(s, a + 1, a + n)[j] = s[a + j]
  OBVIOUS
-------------------------------------------------------------------------------
(* AcceptServers. *)

(* p owes the connection c an answer: it has accepted c, or was given c, and *)
(* has not come to the end of web_child.  The parent in serv01 owes nothing  *)
(* once it has forked.                                                       *)
Owing == {"unlock", "fork", "create", "born", "serve"}
Holds(p, c) == a_pc[p] \in Owing /\ conn[p] = c

(* The reasons for which a client may lose a connection that was accepted.   *)
Excused(c) ==
  \/ blame[c] = "sigint"
  \/ Accept!Threaded /\ blame[c] \notin {"none", "exit"}
  \/ kind = "fork" /\ blame[c] = "fork"
  \/ kind = "fcntl" /\ blame[c] = "unlock"

(* An ordinary client waits in the backlog, is owed an answer, or has lost   *)
(* its connection for one of these reasons; once it has noticed, no process  *)
(* has the connection any more.                                              *)
InFlight ==
  \A c \in Ordinary :
    /\ client[c] \in {"connected", "waiting"} =>
         c \in backlog \/ (\E p \in Accept!Processes : Holds(p, c)) \/ Excused(c)
    /\ client[c] \notin {"reset", "badsize"}
    /\ client[c] = "failed" =>
         Excused(c) /\ c \notin backlog /\ \A p \in Accept!Processes : conn[p] # c

(* Only one process has a connection to answer, and none has one that is not *)
(* yet accepted, let alone one that was never made.                          *)
ServedOnce ==
  /\ \A p, q \in Accept!Processes, c \in Accept!Conns : Holds(p, c) /\ Holds(q, c) => p = q
  /\ \A c \in backlog : client[c] # "new" /\ \A p \in Accept!Processes : ~Holds(p, c)
  /\ \A p \in Accept!Processes : a_pc[p] \in Owing => conn[p] \in Accept!Conns /\ client[conn[p]] # "new"

(* Nobody holds a connection where a call can fail, main excepted that       *)
(* cannot fork or create a thread; what a worker closes was answered.        *)
Unladen == {"none", "make", "accept", "lock", "select", "pause", "kill", "wait"}
EmptyHands ==
  /\ \A p \in Accept!Processes : a_pc[p] \in Unladen => conn[p] = NoConn
  /\ \A w \in Accept!Workers : a_pc[w] = "close" =>
       conn[w] \in Accept!Conns /\ client[conn[w]] = "done"
  /\ a_pc[Accept!Main] = "accept" => kind \in {"iterative", "fork", "thread"}
  /\ a_pc[Accept!Main] = "fork" => kind = "fork"
  /\ a_pc[Accept!Main] = "create" => kind = "thread"

AcceptInv == Accept!TypeOK /\ InFlight /\ ServedOnce /\ EmptyHands
-------------------------------------------------------------------------------
(* Main is no worker; the workers of a server are among all the workers. *)
LEMMA ProcessFacts ==
  /\ Accept!Main \in Accept!Processes /\ Accept!Main \notin Accept!Workers /\ Accept!Workers \subseteq Accept!Processes
  /\ Accept!Crew \subseteq Accept!Workers
  /\ \A p \in Accept!Processes : p = Accept!Main \/ p \in Accept!Workers
  BY DEF Accept!Main, Accept!Processes, Accept!Workers, Accept!Crew

(* Every server starts without connections. *)
LEMMA AcceptInit == Accept!Init => AcceptInv
  <1> SUFFICES ASSUME Accept!Init PROVE AcceptInv
    BY Zenon
  <1>1. Accept!TypeOK
    BY Zenon, ProcessFacts
       DEF Accept!Init, Accept!TypeOK, Accept!Labels, Accept!Gone, Accept!Progress
  <1>2. /\ \A p \in Accept!Processes :
             a_pc[p] \notin Owing /\ a_pc[p] \in {"none", "accept", "make"}
        /\ a_pc[Accept!Main] = "accept" => kind \in {"iterative", "fork", "thread"}
    BY Zenon, ProcessFacts DEF Accept!Init, Owing, Accept!PerConn
  <1> QED
    BY Zenon, <1>1, <1>2, ProcessFacts
       DEF Accept!Init, AcceptInv, InFlight, ServedOnce, EmptyHands, Holds, Accept!Conns

USE DEF Holds, Excused, Owing, Unladen, Accept!Labels, Accept!Gone, Accept!Conns,
    Accept!Progress, Accept!Reasons, Accept!Threaded, Accept!netVars,
    Accept!sigVars, Accept!Goto, Accept!At

(* A step that only delivers a signal. *)
LEMMA QuietStep ==
  ASSUME AcceptInv, Accept!TypeOK',
         UNCHANGED <<kind, client, backlog, a_pc, conn, blame>>
  PROVE  AcceptInv'
  <1>1. InFlight'
    BY Zenon DEF AcceptInv, InFlight
  <1>2. ServedOnce'
    BY Zenon DEF AcceptInv, ServedOnce
  <1>3. EmptyHands'
    BY Zenon DEF AcceptInv, EmptyHands
  <1> QED
    BY Zenon, <1>1, <1>2, <1>3 DEF AcceptInv

(* The end of the main process: with all its threads, by SIGINT, with no     *)
(* connection of an ordinary client in hand, or when it cannot fork (or,     *)
(* main being no worker, release the file lock).                             *)
LEMMA EndMainInv ==
  ASSUME AcceptInv, NEW why \in Accept!Reasons \ {"exit"}, Accept!EndMain(why),
         \/ Accept!Threaded \/ why = "sigint"
         \/ conn[Accept!Main] \notin Ordinary \/ (kind = "fork" /\ why = "fork")
         \/ (kind = "fcntl" /\ why = "unlock"),
         UNCHANGED <<kind, client>>, backlog' \subseteq backlog,
         \A c \in Ordinary : c \in backlog => c \in backlog'
  PROVE  AcceptInv'
  <1>1. /\ a_pc \in [Accept!Processes -> Accept!Labels] /\ conn \in [Accept!Processes -> Accept!Conns \cup {NoConn}]
        /\ \A p \in Accept!Processes :
             \/ a_pc'[p] = "ended" /\ conn'[p] = NoConn
             \/ a_pc'[p] \in {a_pc[p], "reaped"} /\ conn'[p] = conn[p] /\ p # Accept!Main /\ ~Accept!Threaded
        /\ \A p \in Accept!Processes : a_pc'[p] \in Owing \cup Unladen \cup {"close"} =>
             a_pc'[p] = a_pc[p] /\ conn'[p] = conn[p]
        /\ a_pc'[Accept!Main] = "ended"
    BY Zenon, ProcessFacts DEF AcceptInv, Accept!TypeOK, Accept!EndMain
  <1>2. Accept!TypeOK'
    BY Zenon, <1>1 DEF AcceptInv, Accept!TypeOK, Accept!EndMain, Accept!Blame
  <1>3. ServedOnce'
    BY <1>1 DEF AcceptInv, Accept!TypeOK, ServedOnce, Holds
  <1>4. EmptyHands'
    <2>1. \A p \in Accept!Processes : a_pc'[p] \in Unladen => conn'[p] = NoConn
      BY Zenon, <1>1 DEF AcceptInv, EmptyHands
    <2>2. ASSUME NEW w \in Accept!Workers, a_pc'[w] = "close"
          PROVE  conn'[w] \in Accept!Conns /\ client'[conn'[w]] = "done"
      <3>1. a_pc[w] = "close" /\ conn'[w] = conn[w]
        BY Zenon, <1>1, <2>2, ProcessFacts
      <3>2. conn[w] \in Accept!Conns /\ client[conn[w]] = "done"
        BY Zenon, <3>1 DEF AcceptInv, EmptyHands
      <3> QED
        BY Zenon, <3>1, <3>2
    <2> QED
      BY Zenon, <1>1, <2>1, <2>2 DEF EmptyHands
  <1>5. \A c \in Ordinary : Excused(c) \/ (\E p \in Accept!Processes : Holds(p, c)) =>
          Excused(c)' \/ (\E p \in Accept!Processes : Holds(p, c))'
    <2> TAKE c \in Ordinary
    <2>1. blame'[c] = blame[c] \/ (blame'[c] = why /\ (Accept!Threaded \/ conn[Accept!Main] = c))
      BY Zenon DEF Accept!EndMain, Accept!Blame
    <2>2. Excused(c) => Excused(c)'
      BY Zenon, <2>1
    <2>3. ASSUME NEW p \in Accept!Processes, Holds(p, c) PROVE Excused(c)' \/ Holds(p, c)'
      <3>1. CASE p = Accept!Main \/ Accept!Threaded
        <4>1. blame'[c] = why
          BY Zenon, <2>3, <3>1, ProcessFacts DEF Accept!EndMain, Accept!Blame
        <4> QED
          BY Zenon, <2>3, <3>1, <4>1
      <3>2. CASE ~(p = Accept!Main \/ Accept!Threaded)
        BY Zenon, <2>3, <3>2, <1>1 DEF Accept!EndMain
      <3> QED
        BY Zenon, <3>1, <3>2
    <2> QED
      BY Zenon, <2>2, <2>3
  <1>6. InFlight'
    <2> SUFFICES ASSUME NEW c \in Ordinary
                 PROVE  /\ client'[c] \in {"connected", "waiting"} =>
                             c \in backlog' \/ (\E p \in Accept!Processes : Holds(p, c))' \/ Excused(c)'
                        /\ client'[c] \notin {"reset", "badsize"}
                        /\ client'[c] = "failed" =>
                             Excused(c)' /\ c \notin backlog' /\ \A p \in Accept!Processes : conn'[p] # c
      BY Zenon DEF InFlight
    <2>1. client[c] \in {"connected", "waiting"} =>
            c \in backlog \/ (\E p \in Accept!Processes : Holds(p, c)) \/ Excused(c)
      BY Zenon DEF AcceptInv, InFlight
    <2>2. /\ client[c] \notin {"reset", "badsize"}
          /\ client[c] = "failed" =>
               Excused(c) /\ c \notin backlog /\ \A p \in Accept!Processes : conn[p] # c
      BY Zenon DEF AcceptInv, InFlight
    <2>3. NoConn # c
      BY Zenon, AcceptAssumption
    <2>4. client[c] = "failed" => \A p \in Accept!Processes : conn'[p] # c
      BY Zenon, <1>1, <2>2, <2>3
    <2>5. client[c] = "failed" => Excused(c)'
      BY Zenon, <1>5, <2>2, <2>4
    <2>6. client[c] \in {"connected", "waiting"} =>
            c \in backlog' \/ (\E p \in Accept!Processes : Holds(p, c))' \/ Excused(c)'
      BY Zenon, <1>5, <2>1
    <2>7. client' = client /\ backlog' \subseteq backlog
      BY Zenon
    <2> HIDE DEF Holds, Excused
    <2> QED
      BY Zenon, <2>2, <2>4, <2>5, <2>6, <2>7
  <1> QED
    BY Zenon, <1>2, <1>3, <1>4, <1>6 DEF AcceptInv

(* The end of a child by SIGTERM, with no unanswered connection of an        *)
(* ordinary client in hand, or when it cannot release the file lock.         *)
LEMMA EndChildInv ==
  ASSUME AcceptInv, NEW w \in Accept!Workers, NEW why \in Accept!Reasons,
         Accept!EndChild(w, why), UNCHANGED <<kind, client>>, backlog' \subseteq backlog,
         \A c \in Ordinary : c \in backlog => c \in backlog',
         \/ why = "sigint" \/ conn[w] \notin Ordinary \/ a_pc[w] = "close"
         \/ (kind = "fcntl" /\ why = "unlock")
  PROVE  AcceptInv'
  <1>1. /\ Accept!TypeOK' /\ ServedOnce' /\ EmptyHands'
    BY ProcessFacts
       DEF Accept!EndChild, Accept!Blame, AcceptInv, Accept!TypeOK, ServedOnce, EmptyHands
  <1>2. \A c \in Ordinary : blame'[c] = IF conn[w] = c THEN why ELSE blame[c]
    BY Zenon DEF Accept!EndChild, Accept!Blame
  <1>3. \A p \in Accept!Processes :
          /\ p # w => a_pc'[p] = a_pc[p] /\ conn'[p] = conn[p]
          /\ conn'[w] = NoConn
    BY Zenon, ProcessFacts DEF Accept!EndChild, AcceptInv, Accept!TypeOK
  <1>4. a_pc[w] = "close" => conn[w] \in Accept!Conns /\ client[conn[w]] = "done"
    BY Zenon DEF AcceptInv, EmptyHands
  <1>5. InFlight'
    <2> SUFFICES ASSUME NEW c \in Ordinary
                 PROVE  /\ client[c] \in {"connected", "waiting"} =>
                             c \in backlog' \/ (\E p \in Accept!Processes : Holds(p, c))' \/ Excused(c)'
                        /\ client[c] \notin {"reset", "badsize"}
                        /\ client[c] = "failed" =>
                             Excused(c)' /\ c \notin backlog' /\ \A p \in Accept!Processes : conn'[p] # c
      BY Zenon DEF InFlight
    <2>1. /\ client[c] \in {"connected", "waiting"} =>
               c \in backlog \/ (\E p \in Accept!Processes : Holds(p, c)) \/ Excused(c)
          /\ client[c] \notin {"reset", "badsize"}
          /\ client[c] = "failed" =>
               Excused(c) /\ c \notin backlog /\ \A p \in Accept!Processes : conn[p] # c
      BY Zenon DEF AcceptInv, InFlight
    <2>2. NoConn # c /\ w \in Accept!Processes
      BY Zenon, AcceptAssumption, ProcessFacts
    <2>3. CASE conn[w] = c
      <3>1. client[c] \in {"connected", "waiting"} => Excused(c)'
        BY Zenon, <1>2, <1>4, <2>3
      <3> QED
        BY Zenon, <2>1, <2>2, <2>3, <3>1
    <2>4. CASE conn[w] # c
      <3>1. blame'[c] = blame[c]
        BY Zenon, <1>2, <2>4
      <3>2. \A p \in Accept!Processes : Holds(p, c) => Holds(p, c)'
        BY Zenon, <1>3, <2>4
      <3>3. \A p \in Accept!Processes : conn'[p] = c => conn[p] = c
        BY Zenon, <1>3, <2>2
      <3>4. Excused(c) => Excused(c)'
        BY Zenon, <3>1
      <3> HIDE DEF Holds, Excused
      <3> QED
        BY Zenon, <2>1, <3>2, <3>3, <3>4
    <2> QED
      BY Zenon, <2>3, <2>4
  <1> QED
    BY Zenon, <1>1, <1>5 DEF AcceptInv

(* AcceptInv is inductive. *)
LEMMA AcceptStep == AcceptInv /\ [Accept!Next]_(Accept!vars) => AcceptInv'
  <1> SUFFICES ASSUME AcceptInv, [Accept!Next]_(Accept!vars) PROVE AcceptInv'
    BY Zenon
  <1>1. ASSUME NEW c \in Accept!Conns, Accept!Connect(c) PROVE AcceptInv'
    BY <1>1, ProcessFacts
       DEF Accept!Connect, AcceptInv, Accept!TypeOK, InFlight,
       ServedOnce, EmptyHands
  <1>2. ASSUME NEW c \in Accept!Conns, Accept!Request(c) PROVE AcceptInv'
    BY <1>2, ProcessFacts
       DEF Accept!Request, AcceptInv, Accept!TypeOK, InFlight,
       ServedOnce, EmptyHands
  <1>3. ASSUME NEW c \in Accept!Conns, Accept!Broken(c) PROVE AcceptInv'
    BY <1>3, ProcessFacts
       DEF Accept!Broken, AcceptInv, Accept!TypeOK, InFlight,
       ServedOnce, EmptyHands
  <1>4. ASSUME NEW p \in Accept!Processes, Accept!AcceptAborted(p) PROVE AcceptInv'
    <2>1. CASE kind = "fork"
      <3>1. conn[p] \notin Ordinary /\ Accept!End(p, "accept") /\ UNCHANGED <<kind, client>>
        BY Zenon, <1>4, <2>1, AcceptAssumption DEF Accept!AcceptAborted, AcceptInv, EmptyHands
      <3>2. /\ backlog' \subseteq backlog
            /\ \A c \in Ordinary : c \in backlog => c \in backlog'
        BY Zenon, <1>4 DEF Accept!AcceptAborted, AcceptInv, InFlight
      <3>3. CASE p = Accept!Main \/ Accept!Threaded
        BY Zenon, <3>1, <3>2, <3>3, EndMainInv DEF Accept!End
      <3>4. CASE ~(p = Accept!Main \/ Accept!Threaded)
        BY Zenon, <3>1, <3>2, <3>4, ProcessFacts, EndChildInv DEF Accept!End
      <3> QED
        BY Zenon, <3>3, <3>4
    <2>2. CASE kind # "fork"
      BY <1>4, <2>2, ProcessFacts
         DEF Accept!AcceptAborted, AcceptInv, Accept!TypeOK, InFlight,
       ServedOnce, EmptyHands
    <2> QED
      BY Zenon, <2>1, <2>2
  <1>28. ASSUME NEW p \in Accept!Processes, Accept!CallFails(p) PROVE AcceptInv'
    <2>1. PICK l \in Accept!Fallible : a_pc[p] = l /\ Accept!End(p, l)
      BY Zenon, <1>28 DEF Accept!CallFails
    <2>2. l \in Accept!Reasons \ {"exit"} /\ (conn[p] = NoConn \/ (kind = "fcntl" /\ l = "unlock"))
      BY Zenon, <2>1 DEF Accept!Fallible, AcceptInv, EmptyHands
    <2>3. conn[p] \notin Ordinary \/ (kind = "fcntl" /\ l = "unlock")
      BY Zenon, <2>2, AcceptAssumption
    <2>4. CASE p = Accept!Main \/ Accept!Threaded
      BY Zenon, <1>28, <2>1, <2>2, <2>3, <2>4, EndMainInv DEF Accept!CallFails, Accept!End
    <2>5. CASE ~(p = Accept!Main \/ Accept!Threaded)
      BY Zenon, <1>28, <2>1, <2>2, <2>3, <2>5, ProcessFacts, EndChildInv
         DEF Accept!CallFails, Accept!End
    <2> QED
      BY Zenon, <2>4, <2>5
  <1>5. ASSUME NEW w \in Accept!Workers, Accept!ChildStart(w) PROVE AcceptInv'
    BY <1>5, ProcessFacts
       DEF Accept!ChildStart, AcceptInv, Accept!TypeOK, InFlight,
       ServedOnce, EmptyHands
  <1>6. ASSUME NEW w \in Accept!Workers, Accept!LockWait(w) PROVE AcceptInv'
    BY <1>6, ProcessFacts
       DEF Accept!LockWait, AcceptInv, Accept!TypeOK, InFlight,
       ServedOnce, EmptyHands
  <1>7. ASSUME NEW w \in Accept!Workers, Accept!Select(w) PROVE AcceptInv'
    BY <1>7, ProcessFacts
       DEF Accept!Select, AcceptInv, Accept!TypeOK, InFlight,
       ServedOnce, EmptyHands
  <1>8. ASSUME NEW w \in Accept!Workers, Accept!WorkerAccept(w) PROVE AcceptInv'
    BY <1>8, ProcessFacts
       DEF Accept!WorkerAccept, Accept!Take, AcceptInv, Accept!TypeOK, InFlight,
       ServedOnce, EmptyHands
  <1>9. ASSUME NEW w \in Accept!Workers, Accept!LockRelease(w) PROVE AcceptInv'
    BY <1>9, ProcessFacts
       DEF Accept!LockRelease, AcceptInv, Accept!TypeOK, InFlight,
       ServedOnce, EmptyHands
  <1>10. ASSUME NEW p \in Accept!Processes, Accept!Reply(p) PROVE AcceptInv'
    BY <1>10, ProcessFacts
       DEF Accept!Reply, AcceptInv, Accept!TypeOK, InFlight,
       ServedOnce, EmptyHands
  <1>11. ASSUME NEW p \in Accept!Processes, Accept!Return(p) PROVE AcceptInv'
    BY <1>11, ProcessFacts
       DEF Accept!Return, AcceptInv, Accept!TypeOK, InFlight,
       ServedOnce, EmptyHands
  <1>12. ASSUME NEW p \in Accept!Processes, Accept!RequestFails(p) PROVE AcceptInv'
    <2>1. conn[p] \notin Ordinary /\ Accept!End(p, "serve") /\ UNCHANGED <<kind, client, backlog>>
      BY Zenon, <1>12 DEF Accept!RequestFails, AcceptInv, InFlight
    <2>2. CASE p = Accept!Main \/ Accept!Threaded
      BY Zenon, <2>1, <2>2, EndMainInv DEF Accept!End
    <2>3. CASE ~(p = Accept!Main \/ Accept!Threaded)
      BY Zenon, <2>1, <2>3, ProcessFacts, EndChildInv DEF Accept!End
    <2> QED
      BY Zenon, <2>2, <2>3
  <1>13. ASSUME NEW w \in Accept!Workers, Accept!WorkerClose(w) PROVE AcceptInv'
    <2>1. CASE kind = "fork"
      BY Zenon, <1>13, <2>1, EndChildInv DEF Accept!WorkerClose
    <2>2. CASE kind # "fork"
      <3>1. Accept!LoopTop \in {"lock", "select", "accept"}
        BY Zenon DEF Accept!LoopTop
      <3> QED
        BY <1>13, <2>2, <3>1, ProcessFacts, AcceptAssumption
           DEF Accept!WorkerClose, AcceptInv, Accept!TypeOK, InFlight,
       ServedOnce, EmptyHands
    <2> QED
      BY Zenon, <2>1, <2>2
  <1>14. ASSUME NEW w \in Accept!Workers, Accept!Terminate(w) PROVE AcceptInv'
    BY Zenon, <1>14, EndChildInv DEF Accept!Terminate
  <1>15. CASE Accept!MainAccept
    BY <1>15, ProcessFacts
       DEF Accept!MainAccept, Accept!Take, AcceptInv, Accept!TypeOK, InFlight,
       ServedOnce, EmptyHands
  <1>16. CASE Accept!IterativeClose
    BY <1>16, ProcessFacts, AcceptAssumption
       DEF Accept!IterativeClose, AcceptInv, Accept!TypeOK, InFlight,
       ServedOnce, EmptyHands
  <1>17. CASE Accept!ForkChild
    BY <1>17, ProcessFacts
       DEF Accept!ForkChild, Accept!Fresh, Accept!Unused, AcceptInv, Accept!TypeOK, InFlight,
       ServedOnce, EmptyHands
  <1>18. CASE Accept!ForkClose
    BY <1>18, ProcessFacts, AcceptAssumption
       DEF Accept!ForkClose, AcceptInv, Accept!TypeOK, InFlight,
       ServedOnce, EmptyHands
  <1>19. CASE Accept!CreateThread
    BY <1>19, ProcessFacts
       DEF Accept!CreateThread, Accept!Fresh, Accept!Unused, AcceptInv, Accept!TypeOK, InFlight,
       ServedOnce, EmptyHands
  <1>20. CASE Accept!MakeWorker
    <2>1. Accept!LoopTop \in {"lock", "select", "accept"}
      BY Zenon DEF Accept!LoopTop
    <2> QED
      BY <1>20, <2>1, ProcessFacts
         DEF Accept!MakeWorker, Accept!Fresh, Accept!Unused, AcceptInv,
         Accept!TypeOK, InFlight, ServedOnce, EmptyHands
  <1>21. CASE Accept!NoResources
    <2>1. /\ a_pc[Accept!Main] \in {"fork", "create", "make"} /\ UNCHANGED <<kind, client, backlog>>
          /\ Accept!EndMain(a_pc[Accept!Main])
      BY Zenon, <1>21 DEF Accept!NoResources
    <2>2. \/ Accept!Threaded \/ (kind = "fork" /\ a_pc[Accept!Main] = "fork")
          \/ conn[Accept!Main] \notin Ordinary
      BY Zenon, <2>1, ProcessFacts, AcceptAssumption DEF AcceptInv, EmptyHands
    <2> QED
      BY Zenon, <2>1, <2>2, EndMainInv
  <1>22. CASE Accept!SigChld
    <2>1. Accept!TypeOK'
      BY Zenon, <1>22 DEF Accept!SigChld, AcceptInv, Accept!TypeOK
    <2> QED
      BY Zenon, <1>22, <2>1, QuietStep DEF Accept!SigChld
  <1>23. CASE Accept!WaitPid
    <2>1. CASE Accept!Zombies = {} /\ handler' = FALSE /\ UNCHANGED a_pc
      <3>1. Accept!TypeOK'
        BY Zenon, <1>23, <2>1 DEF Accept!WaitPid, AcceptInv, Accept!TypeOK
      <3> QED
        BY Zenon, <1>23, <2>1, <3>1, QuietStep DEF Accept!WaitPid
    <2>2. CASE \E w \in Accept!Zombies : Accept!Goto(w, "reaped") /\ UNCHANGED handler
      BY <1>23, <2>2, ProcessFacts
         DEF Accept!WaitPid, Accept!Zombies, AcceptInv, Accept!TypeOK, InFlight, ServedOnce, EmptyHands
    <2> QED
      BY Zenon, <1>23, <2>1, <2>2 DEF Accept!WaitPid
  <1>24. CASE Accept!SigInt
    <2>1. CASE Accept!Preforked /\ a_pc[Accept!Main] = "pause"
      BY <1>24, <2>1, ProcessFacts
         DEF Accept!SigInt, AcceptInv, Accept!TypeOK, InFlight, ServedOnce, EmptyHands
    <2>2. CASE ~(Accept!Preforked /\ a_pc[Accept!Main] = "pause")
      BY Zenon, <1>24, <2>2, EndMainInv DEF Accept!SigInt
    <2> QED
      BY Zenon, <2>1, <2>2
  <1>25. CASE Accept!KillAll
    BY <1>25, ProcessFacts
       DEF Accept!KillAll, AcceptInv, Accept!TypeOK, InFlight, ServedOnce, EmptyHands
  <1>26. CASE Accept!WaitAll
    <2>1. CASE Accept!EndMain("sigint")
      BY Zenon, <1>26, <2>1, EndMainInv DEF Accept!WaitAll
    <2>2. CASE \E w \in Accept!Zombies : Accept!Goto(w, "reaped") /\ UNCHANGED <<conn, a_lock,
    Accept!sigVars>>
      BY <1>26, <2>2, ProcessFacts
         DEF Accept!WaitAll, Accept!Zombies, AcceptInv, Accept!TypeOK, InFlight, ServedOnce, EmptyHands
    <2> QED
      BY Zenon, <1>26, <2>1, <2>2 DEF Accept!WaitAll
  <1>27. CASE UNCHANGED Accept!vars
    BY <1>27, ProcessFacts
       DEF Accept!vars, AcceptInv, Accept!TypeOK, InFlight, ServedOnce, EmptyHands
  <1> QED
    BY ONLY Zenon, AcceptInv, [Accept!Next]_(Accept!vars), ProcessFacts, <1>1, <1>2,
       <1>3, <1>4, <1>5,
       <1>6, <1>7, <1>8, <1>9, <1>10, <1>11, <1>12, <1>13, <1>14, <1>15, <1>16,
       <1>17, <1>18, <1>19, <1>20, <1>21, <1>22, <1>23, <1>24, <1>25, <1>26,
       <1>27, <1>28 DEF Accept!Next, Accept!Worker, Accept!Serve, Accept!MainStep, Accept!Handler, Accept!Shutdown
-------------------------------------------------------------------------------
(* What the lock around accept is for: the worker that is in accept, or just *)
(* behind it, owns the lock, also when another one has died with it.         *)
AcceptLocked ==
  Accept!Locked => \A w \in Accept!Workers :
    a_pc[w] # "select" /\ (a_pc[w] \in {"accept", "unlock"} => a_lock = w)

(* At most one worker at a time waits in accept. *)
AcceptAlone ==
  Accept!Locked => \A u, w \in Accept!Workers : a_pc[u] = "accept" /\ a_pc[w] = "accept" => u = w
(* The lock is taken before accept and released behind it, by its owner only;*)
(* what ends with the lock, or puts a worker elsewhere, lets no other in.    *)
LEMMA LockStep ==
  ASSUME NoOne \notin Accept!Workers, Accept!TypeOK, AcceptLocked, [Accept!Next]_(Accept!vars)
  PROVE  AcceptLocked'
  <1> USE ProcessFacts DEF Accept!TypeOK, AcceptLocked, Accept!Locked
  <1>1. ASSUME NEW c \in Accept!Conns,
  Accept!Connect(c) \/ Accept!Request(c) \/ Accept!Broken(c) PROVE AcceptLocked'
    BY Zenon, <1>1 DEF Accept!Connect, Accept!Request, Accept!Broken
  <1>2. ASSUME NEW p \in Accept!Processes, Accept!AcceptAborted(p) PROVE AcceptLocked'
    BY Zenon, <1>2 DEF Accept!AcceptAborted
  <1>20. ASSUME NEW p \in Accept!Processes, Accept!CallFails(p) PROVE AcceptLocked'
    BY <1>20 DEF Accept!CallFails, Accept!End, Accept!EndMain, Accept!EndChild
  <1>3. ASSUME NEW w \in Accept!Workers, Accept!ChildStart(w) \/ Accept!Select(w) PROVE AcceptLocked'
    BY Zenon, <1>3 DEF Accept!ChildStart, Accept!Select
  <1>4. ASSUME NEW w \in Accept!Workers, Accept!LockWait(w) PROVE AcceptLocked'
    BY Zenon, <1>4 DEF Accept!LockWait
  <1>5. ASSUME NEW w \in Accept!Workers, Accept!WorkerAccept(w) PROVE AcceptLocked'
    BY <1>5 DEF Accept!WorkerAccept, Accept!Take
  <1>6. ASSUME NEW w \in Accept!Workers, Accept!LockRelease(w) PROVE AcceptLocked'
    BY Zenon, <1>6 DEF Accept!LockRelease
  <1>7. ASSUME NEW p \in Accept!Processes, Accept!Reply(p) \/ Accept!Return(p) PROVE AcceptLocked'
    BY Zenon, <1>7 DEF Accept!Reply, Accept!Return
  <1>8. ASSUME NEW p \in Accept!Processes, Accept!RequestFails(p) PROVE AcceptLocked'
    BY <1>8 DEF Accept!RequestFails, Accept!End, Accept!EndMain, Accept!EndChild
  <1>9. ASSUME NEW w \in Accept!Workers, Accept!WorkerClose(w) PROVE AcceptLocked'
    BY Zenon, <1>9 DEF Accept!WorkerClose, Accept!EndChild, Accept!LoopTop
  <1>10. ASSUME NEW w \in Accept!Workers, Accept!Terminate(w) PROVE AcceptLocked'
    BY Zenon, <1>10 DEF Accept!Terminate, Accept!EndChild
  <1>11. CASE Accept!MainAccept
    BY <1>11 DEF Accept!MainAccept, Accept!Take
  <1>12. CASE Accept!IterativeClose \/ Accept!ForkClose
    BY Zenon, <1>12 DEF Accept!IterativeClose, Accept!ForkClose
  <1>13. CASE Accept!ForkChild \/ Accept!CreateThread
    BY <1>13 DEF Accept!ForkChild, Accept!CreateThread, Accept!Fresh, Accept!Unused
  <1>14. CASE Accept!MakeWorker
    BY Zenon, <1>14 DEF Accept!MakeWorker, Accept!Fresh, Accept!Unused, Accept!LoopTop
  <1>15. CASE Accept!NoResources
    BY Zenon, <1>15 DEF Accept!NoResources, Accept!EndMain
  <1>16. CASE Accept!SigChld \/ Accept!WaitPid
    BY Zenon, <1>16 DEF Accept!SigChld, Accept!WaitPid, Accept!Zombies
  <1>17. CASE Accept!SigInt
    BY <1>17 DEF Accept!SigInt, Accept!EndMain
  <1>18. CASE Accept!KillAll \/ Accept!WaitAll
    BY <1>18 DEF Accept!KillAll, Accept!WaitAll, Accept!EndMain, Accept!Zombies
  <1>19. CASE UNCHANGED Accept!vars
    BY Zenon, <1>19 DEF Accept!vars
  <1> QED
    BY ONLY Zenon, [Accept!Next]_(Accept!vars), <1>1, <1>2, <1>3, <1>4, <1>5, <1>6,
       <1>7, <1>8,
       <1>9, <1>10, <1>11, <1>12, <1>13, <1>14, <1>15, <1>16, <1>17, <1>18, <1>19,
       <1>20 DEF Accept!Next, Accept!Worker, Accept!Serve, Accept!MainStep, Accept!Handler,
       Accept!Shutdown, Accept!Processes

(* What is invariant of a server by itself and as a part of MCSpec. *)
LEMMA ServersKeepInv ==
  /\ Accept!Spec => []AcceptInv
  /\ MCSpec => []AcceptInv
  <1>1. MCInit => Accept!Init
    BY Zenon DEF MCInit
  <1>2. AcceptInv /\ [Accept!Next]_(Accept!vars) => AcceptInv'
    BY Zenon, AcceptStep
  <1>3. [MCNext]_allVars => [Accept!Next]_(Accept!vars)
    BY Zenon, StepsOfPrograms
  <1> QED
    BY AcceptInit, <1>1, <1>2, <1>3, PTL DEF MCSpec, Accept!Spec

(* No fault of another process takes an accepted connection from an ordinary *)
(* client, and nobody closes one it has not answered: FaultsContained.       *)
THEOREM FaultsAreContained ==
  /\ Accept!Spec => []FaultsContained
  /\ MCSpec => []FaultsContained
  <1>1. AcceptInv => FaultsContained
    BY Zenon DEF AcceptInv, InFlight, FaultsContained, Accept!FaultsContained
  <1> QED
    BY <1>1, ServersKeepInv, PTL

(* Whatever processes accept at the same time, no connection is given to two *)
(* of them, or twice to one: ServedOnce.                                     *)
THEOREM ConnectionsServedOnce == Accept!Spec => []ServedOnce
  <1>1. AcceptInv => ServedOnce
    BY Zenon DEF AcceptInv
  <1> QED
    BY <1>1, ServersKeepInv, PTL

(* The servers with a lock around accept keep all workers but one out of it. *)
THEOREM OneInAccept ==
  ASSUME NoOne \notin Accept!Workers
  PROVE  Accept!Spec => []AcceptAlone
  <1>1. Accept!Init => AcceptLocked
    BY Zenon, ProcessFacts DEF Accept!Init, AcceptLocked
  <1>2. Accept!TypeOK /\ AcceptLocked /\ [Accept!Next]_(Accept!vars) => AcceptLocked'
    BY Zenon, LockStep
  <1>3. AcceptLocked => AcceptAlone
    BY Zenon DEF AcceptLocked, AcceptAlone
  <1>4. AcceptInv => Accept!TypeOK
    BY Zenon DEF AcceptInv
  <1> QED
    BY <1>1, <1>2, <1>3, <1>4, ServersKeepInv, PTL DEF Accept!Spec

HIDE
     DEF Holds, Excused, Owing, Unladen, Accept!Labels, Accept!Gone, Accept!Conns,
     Accept!Progress, Accept!Reasons, Accept!Threaded, Accept!netVars,
     Accept!sigVars, Accept!Goto, Accept!At
-------------------------------------------------------------------------------
(* Readline. *)

(* What a call returns. *)
Results(B) == [n : Nat, text : Seq(B), from : Nat]

(* The variables, for bytes from a set B. *)
Typed(B) ==
  /\ stream \in Seq(B) /\ sent \in 0 .. Len(stream) /\ taken \in 0 .. sent
  /\ rl_buf \in Seq(B) /\ line \in Seq(B)
  /\ lines \in Seq(Results(B))
  /\ closed => sent = Len(stream)

(* A line without a newline that could have been longer. *)
Short(i) ==
  LET text == lines[i].text IN text[Len(text)] # NL /\ Len(text) # MaxLen - 1

(* readline has no buffer; the line in progress has no newline and room for  *)
(* another byte; a short line is returned when there is nothing left.        *)
InProgress ==
  /\ reader = "readline" => rl_buf = <<>>
  /\ Len(line) < MaxLen - 1 /\ \A j \in 1 .. Len(line) : line[j] # NL
  /\ lines # <<>> /\ Short(Len(lines)) =>
       closed /\ taken = sent /\ line = <<>> /\ rl_buf = <<>>

LinesInv(B) == Typed(B) /\ InProgress /\ Lines!LinesKept

(* The sizes the buffers of a caller have. *)
Sizes(B) ==
  MaxLen \in Nat /\ MaxLen > 1 /\ RlSize \in Nat /\ Streams \subseteq Seq(B)
-------------------------------------------------------------------------------
(* The number of bytes returned so far. *)
LEMMA ReturnedFacts ==
  ASSUME NEW B, lines \in Seq(Results(B))
  PROVE  /\ Len(lines) = 0 => Lines!Returned = 0
         /\ Len(lines) # 0 =>
              Lines!Returned = lines[Len(lines)].from + Len(lines[Len(lines)].text)
         /\ Lines!Returned \in Nat
         /\ \A i \in 1 .. Len(lines) :
              /\ lines[i].n \in Nat /\ lines[i].text \in Seq(B)
              /\ lines[i].from \in Nat /\ Len(lines[i].text) \in Nat
  <1>1. Len(lines) \in Nat /\ (lines = <<>> <=> Len(lines) = 0)
    BY Zenon, EmptySeq
  <1>2. ASSUME NEW i \in 1 .. Len(lines)
        PROVE  /\ lines[i].n \in Nat /\ lines[i].text \in Seq(B)
               /\ lines[i].from \in Nat /\ Len(lines[i].text) \in Nat
    <2>1. lines[i] \in Results(B)
      OBVIOUS
    <2> QED
      BY <2>1 DEF Results
  <1> QED
    BY <1>1, <1>2 DEF Lines!Returned

(* A stream at its beginning. *)
LEMMA LinesInit ==
  ASSUME NEW B, Sizes(B), Lines!Init
  PROVE  LinesInv(B)
  <1>1. rl_buf \in Seq(B) /\ line \in Seq(B)
        /\ lines \in Seq(Results(B))
    BY DEF Lines!Init
  <1>2. Len(rl_buf) = 0 /\ Len(line) = 0 /\ Len(lines) = 0 /\ DOMAIN lines = {}
    BY DEF Lines!Init
  <1>3. Typed(B)
    BY <1>1 DEF Lines!Init, Sizes, Typed
  <1> QED
    BY <1>2, <1>3
       DEF Lines!Init, Sizes, LinesInv, InProgress, Lines!LinesKept, Lines!Returned,
       Lines!Piece

(* A line that is the next piece of the stream is appended: n and text are   *)
(* what LineKept says, and nothing but the last line is short.               *)
LEMMA ReturnInv ==
  ASSUME NEW B, Sizes(B), LinesInv(B), NEW n \in Nat, NEW text \in Seq(B),
         Lines!ReturnLine(n, text), UNCHANGED <<stream, closed>>,
         Len(text) \in 1 .. MaxLen - 1, Lines!Piece(Lines!Returned, text),
         \A j \in 1 .. Len(text) - 1 : text[j] # NL,
         text[Len(text)] # NL /\ Len(text) # MaxLen - 1 => closed,
         n = (IF text[Len(text)] = NL THEN Len(text) ELSE Len(text) + 1),
         ~(lines # <<>> /\ Short(Len(lines)))
  PROVE  /\ lines' \in Seq(Results(B))
         /\ Lines!Returned' = Lines!Returned + Len(text)
         /\ \A i \in DOMAIN lines' : Lines!LineKept(i)'
         /\ line' = <<>> /\ lines' # <<>>
         /\ Short(Len(lines))' <=> text[Len(text)] # NL /\ Len(text) # MaxLen - 1
  <1> DEFINE r == [n |-> n, text |-> text, from |-> Lines!Returned]
  <1>1. PICK k \in Nat : /\ k = Len(lines) /\ lines \in Seq(Results(B))
                        /\ DOMAIN lines = 1 .. k /\ (lines = <<>> <=> k = 0)
    BY Zenon, EmptySeq DEF LinesInv, Typed
  <1>2. /\ Lines!Returned \in Nat
        /\ k # 0 => Lines!Returned = lines[k].from + Len(lines[k].text)
        /\ k = 0 => Lines!Returned = 0
        /\ \A i \in 1 .. k : lines[i].from \in Nat /\ Len(lines[i].text) \in Nat
    BY Zenon, <1>1, ReturnedFacts
  <1>3. r \in Results(B) /\ r.from = Lines!Returned /\ r.text = text /\ r.n = n
    BY Zenon, <1>2 DEF Results
  <1>4. /\ lines' \in Seq(Results(B)) /\ lines' # <<>>
        /\ Len(lines') = k + 1 /\ lines'[k + 1] = r
        /\ \A i \in 1 .. k : lines'[i] = lines[i]
        /\ DOMAIN lines' = 1 .. k + 1
    <2>1. lines' = Append(lines, r)
      BY Zenon DEF Lines!ReturnLine
    <2> HIDE DEF r
    <2>2. /\ lines' \in Seq(Results(B)) /\ lines' # <<>>
          /\ Len(lines') = k + 1 /\ lines'[k + 1] = r
          /\ \A i \in 1 .. k : lines'[i] = lines[i]
      BY <1>1, <1>3, <2>1, AppendFacts
    <2> QED
      BY Zenon, <2>2, EmptySeq
  <1> HIDE DEF r
  <1>5. Lines!Returned' = Lines!Returned + Len(text)
    BY Zenon, <1>1, <1>2, <1>3, <1>4 DEF Lines!Returned
  <1>6. ASSUME NEW i \in 1 .. k PROVE Lines!LineKept(i)'
    <2>1. Lines!LineKept(i)
      BY Zenon, <1>1 DEF LinesInv, Lines!LinesKept
    <2>2. i = k => ~Short(i)
      BY <1>1
    <2>3. i \in 1 .. k /\ (i # 1 => i - 1 \in 1 .. k) /\ k \in Nat
      BY <1>1
    <2>4. lines'[i] = lines[i] /\ (i # 1 => lines'[i - 1] = lines[i - 1])
      BY Zenon, <1>4, <2>3
    <2> QED
      BY Zenon, <1>1, <1>4, <2>1, <2>2, <2>3, <2>4
         DEF Lines!LineKept, Short, Lines!Piece
  <1>7. Lines!LineKept(k + 1)'
    <2>1. Lines!Returned = IF k + 1 = 1 THEN 0 ELSE lines'[k].from + Len(lines'[k].text)
      BY <1>1, <1>2, <1>4
    <2>2. k + 1 - 1 = k /\ lines'[k + 1].from = Lines!Returned /\ lines'[k + 1].text = text
          /\ lines'[k + 1].n = n
      BY <1>1, <1>3, <1>4
    <2> QED
      BY <1>1, <1>4, <2>1, <2>2 DEF Lines!LineKept, Lines!Piece
  <1>8. Short(Len(lines))' <=> text[Len(text)] # NL /\ Len(text) # MaxLen - 1
    BY Zenon, <1>3, <1>4 DEF Short
  <1> QED
    BY <1>1, <1>4, <1>5, <1>6, <1>7, <1>8 DEF Lines!ReturnLine

(* The next byte of the stream is stored, from the connection or from the    *)
(* buffer.                                                                   *)
LEMMA StoreInv ==
  ASSUME NEW B, Sizes(B), LinesInv(B), NEW c, Lines!Store(c),
         UNCHANGED <<reader, stream, sent, closed, state>>,
         \/ /\ rl_buf = <<>> /\ UNCHANGED rl_buf
            /\ taken < sent /\ taken' = taken + 1 /\ c = stream[taken + 1]
         \/ /\ rl_buf # <<>> /\ c = Head(rl_buf) /\ rl_buf' = Tail(rl_buf)
            /\ UNCHANGED taken
  PROVE  LinesInv(B)'
  <1>1. PICK k \in Nat, m \in Nat, b \in Nat :
          /\ k = Lines!Returned /\ m = Len(line) /\ b = Len(rl_buf)
          /\ taken = k + m + b /\ (rl_buf = <<>> <=> b = 0)
          /\ stream \in Seq(B) /\ Len(stream) \in Nat
          /\ sent \in 0 .. Len(stream) /\ taken \in 0 .. sent
          /\ line \in Seq(B) /\ rl_buf \in Seq(B) /\ lines \in Seq(Results(B))
    BY Zenon, EmptySeq, ReturnedFacts DEF LinesInv, Typed, Lines!LinesKept
  <1>2. /\ c = stream[k + m + 1] /\ c \in B
        /\ rl_buf' \in Seq(B) /\ taken' \in 0 .. sent
        /\ taken' = k + (m + 1) + Len(rl_buf')
        /\ Len(rl_buf') \in Nat
        /\ \A j \in 1 .. Len(rl_buf') : rl_buf'[j] = stream[k + (m + 1) + j]
        /\ reader = "readline" => rl_buf' = <<>>
    <2>1. CASE rl_buf = <<>>
      BY <1>1, <2>1 DEF LinesInv, InProgress
    <2>2. CASE rl_buf # <<>>
      <3>1. /\ Tail(rl_buf) \in Seq(B) /\ Len(Tail(rl_buf)) = b - 1
            /\ \A j \in 1 .. b - 1 : Tail(rl_buf)[j] = rl_buf[j + 1]
            /\ Head(rl_buf) = rl_buf[1] /\ b \in Nat \ {0}
        BY <1>1, <2>2
      <3>2. \A j \in 1 .. b : rl_buf[j] = stream[k + m + j]
        BY Zenon, <1>1 DEF LinesInv, Lines!LinesKept, Lines!Piece
      <3>3. \A j \in 1 .. b - 1 : j + 1 \in 1 .. b /\ k + m + (j + 1) = k + (m + 1) + j
        BY <1>1
      <3>4. c = stream[k + m + 1] /\ c \in B
        BY <2>2, <3>1, <3>2, <1>1
      <3>5. rl_buf' = Tail(rl_buf) /\ UNCHANGED taken /\ reader # "readline"
        BY Zenon, <2>2 DEF LinesInv, InProgress
      <3>6. \A j \in 1 .. b - 1 : rl_buf'[j] = stream[k + (m + 1) + j]
        BY Zenon, <3>1, <3>2, <3>3, <3>5
      <3>7. taken' \in 0 .. sent /\ taken' = k + (m + 1) + (b - 1)
        BY <1>1, <3>5
      <3> QED
        BY <3>1, <3>4, <3>5, <3>6, <3>7
    <2> QED
      BY Zenon, <2>1, <2>2
  <1> DEFINE text == Append(line, c)
  <1>3. /\ text \in Seq(B) /\ Len(text) = m + 1 /\ text[m + 1] = c
        /\ \A j \in 1 .. m : text[j] = line[j]
    BY <1>1, <1>2, AppendFacts
  <1>4. /\ m < MaxLen - 1 /\ \A j \in 1 .. m : text[j] # NL
        /\ \A j \in 1 .. m + 1 : text[j] = stream[k + j]
    BY <1>1, <1>2, <1>3, SMTT(30) DEF LinesInv, InProgress, Lines!LinesKept, Lines!Piece
  <1>5. ~(lines # <<>> /\ Short(Len(lines)))
    BY <1>1, <1>2 DEF LinesInv, InProgress
  <1> HIDE DEF text
  <1>6. CASE c = NL \/ m + 2 = MaxLen
    <2>1. PICK n \in Nat : /\ n = (IF c = NL THEN m + 1 ELSE m + 2)
                          /\ Lines!ReturnLine(n, text)
      <3>1. CASE c = NL
        BY <1>1, <1>3, <3>1 DEF Lines!Store, text
      <3>2. CASE c # NL
        <4>1. Len(text) + 1 = MaxLen /\ MaxLen = m + 2
          BY <1>1, <1>3, <1>6, <3>2
        <4>2. Lines!ReturnLine(MaxLen, text)
          BY Zenon, <3>2, <4>1 DEF Lines!Store, text
        <4> QED
          BY <1>1, <3>2, <4>1, <4>2
      <3> QED
        BY Zenon, <3>1, <3>2
    <2>2. /\ lines' \in Seq(Results(B)) /\ lines' # <<>>
          /\ Lines!Returned' = k + (m + 1)
          /\ \A i \in DOMAIN lines' : Lines!LineKept(i)'
          /\ line' = <<>>
          /\ ~Short(Len(lines))'
      <3>1. /\ Len(text) \in 1 .. MaxLen - 1 /\ Lines!Piece(Lines!Returned, text)
            /\ \A j \in 1 .. Len(text) - 1 : text[j] # NL
            /\ ~(text[Len(text)] # NL /\ Len(text) # MaxLen - 1)
            /\ n = (IF text[Len(text)] = NL THEN Len(text) ELSE Len(text) + 1)
        BY <1>1, <1>3, <1>4, <1>6, <2>1 DEF Sizes, Lines!Piece
      <3> QED
        BY <1>1, <1>3, <1>5, <2>1, <3>1, ReturnInv, ZenonT(30)
    <2>3. line' \in Seq(B) /\ Len(line') = 0
      BY <2>2
    <2>4. Typed(B)'
      BY Zenon, <1>1, <1>2, <2>2, <2>3 DEF LinesInv, Typed
    <2>5. InProgress'
      BY <1>1, <1>2, <2>2, <2>3 DEF InProgress, Sizes
    <2>6. Lines!LinesKept'
      BY <1>1, <1>2, <2>2, <2>3 DEF Lines!LinesKept, Lines!Piece
    <2> QED
      BY Zenon, <2>4, <2>5, <2>6 DEF LinesInv
  <1>7. CASE c # NL /\ m + 2 # MaxLen
    <2>1. line' = text /\ UNCHANGED lines
      BY <1>1, <1>3, <1>7 DEF Lines!Store, text, Sizes
    <2>2. Typed(B)'
      BY Zenon, <1>1, <1>2, <1>3, <2>1 DEF LinesInv, Typed
    <2>3. InProgress'
      <3>1. ~(lines' # <<>> /\ Short(Len(lines))')
        BY Zenon, <1>5, <2>1 DEF Short
      <3>2. Len(line') < MaxLen - 1 /\ \A j \in 1 .. Len(line') : line'[j] # NL
        BY <1>3, <1>4, <1>7, <2>1 DEF Sizes
      <3> QED
        BY Zenon, <1>2, <3>1, <3>2 DEF InProgress
    <2>4. Lines!LinesKept'
      <3>1. Lines!Returned' = k
        BY Zenon, <1>1, <2>1 DEF Lines!Returned
      <3>2. \A i \in DOMAIN lines' : Lines!LineKept(i)'
        BY SMTT(30), <2>1 DEF LinesInv, Lines!LinesKept, Lines!LineKept, Lines!Piece
      <3> QED
        BY Zenon, <1>1, <1>2, <1>3, <1>4, <2>1, <3>1, <3>2
           DEF Lines!LinesKept, Lines!Piece
    <2> QED
      BY Zenon, <2>2, <2>3, <2>4 DEF LinesInv
  <1> QED
    BY Zenon, <1>6, <1>7

(* Nothing but the state of the call changes. *)
LEMMA LinesQuiet ==
  ASSUME NEW B, LinesInv(B),
         UNCHANGED <<reader, stream, sent, closed, taken, rl_buf, line, lines>>
  PROVE  LinesInv(B)'
  <1>1. Typed(B)'
    BY Zenon DEF LinesInv, Typed
  <1>2. InProgress'
    BY Zenon DEF LinesInv, InProgress, Short
  <1>3. Lines!Returned' = Lines!Returned
    BY Zenon DEF Lines!Returned
  <1>4. \A i \in DOMAIN lines' : Lines!LineKept(i)'
    BY Zenon DEF LinesInv, Lines!LinesKept, Lines!LineKept, Lines!Piece
  <1>5. Lines!LinesKept'
    BY Zenon, <1>3, <1>4 DEF LinesInv, Lines!LinesKept, Lines!Piece
  <1> QED
    BY Zenon, <1>1, <1>2, <1>5 DEF LinesInv

(* IndInv is inductive. *)
LEMMA LinesStep ==
  ASSUME NEW B, Sizes(B), LinesInv(B), [Lines!Next]_(Lines!vars)
  PROVE  LinesInv(B)'
  <1> USE DEF Lines!peer
  <1>1. CASE Lines!Send
    <2>1. Len(stream) \in Nat
      BY Zenon, EmptySeq DEF LinesInv, Typed
    <2>2. Typed(B)'
      BY <1>1, <2>1 DEF Lines!Send, LinesInv, Typed
    <2>3. InProgress'
      BY <1>1, <2>1 DEF Lines!Send, LinesInv, Typed, InProgress, Short
    <2>4. Lines!LinesKept'
      <3>1. UNCHANGED <<stream, closed, taken, rl_buf, line, lines>>
        BY Zenon, <1>1 DEF Lines!Send
      <3>2. Lines!Returned' = Lines!Returned
        BY Zenon, <3>1 DEF Lines!Returned
      <3>3. \A i \in DOMAIN lines' : Lines!LineKept(i)'
        BY Zenon, <3>1 DEF LinesInv, Lines!LinesKept, Lines!LineKept, Lines!Piece
      <3> QED
        BY Zenon, <3>1, <3>2, <3>3 DEF LinesInv, Lines!LinesKept, Lines!Piece
    <2> QED
      BY Zenon, <2>2, <2>3, <2>4 DEF LinesInv
  <1>2. CASE Lines!Close
    <2>1. Typed(B)'
      BY Zenon, <1>2 DEF Lines!Close, LinesInv, Typed
    <2>2. InProgress'
      BY Zenon, <1>2 DEF Lines!Close, LinesInv, InProgress, Short
    <2>3. Lines!LinesKept'
      BY Zenon, <1>2
         DEF Lines!Close, LinesInv, Lines!LinesKept, Lines!LineKept, Lines!Returned,
         Lines!Piece
    <2> QED
      BY Zenon, <2>1, <2>2, <2>3 DEF LinesInv
  <1>3. CASE Lines!ReadByte
    BY Zenon, <1>3, StoreInv DEF Lines!ReadByte, LinesInv, InProgress
  <1>4. CASE Lines!Fill
    <2>1. PICK n \in Nat : /\ n > 0 /\ taken' = taken + n /\ taken + n <= sent
                          /\ rl_buf' = SubSeq(stream, taken + 1, taken + n)
      <3>1. sent \in Nat /\ taken \in 0 .. sent /\ RlSize \in Nat
        BY EmptySeq DEF Sizes, LinesInv, Typed
      <3> DEFINE n == IF sent - taken < RlSize THEN sent - taken ELSE RlSize
      <3>2. n \in Nat /\ taken + n <= sent
        BY <3>1
      <3>3. n > 0 /\ taken' = taken + n /\ rl_buf' = SubSeq(stream, taken + 1,
      taken + n)
        BY Zenon, <1>4 DEF Lines!Fill
      <3> QED
        BY Zenon, <3>2, <3>3
    <2>2. /\ stream \in Seq(B) /\ Len(stream) \in Nat
          /\ sent \in 0 .. Len(stream) /\ taken \in 0 .. sent
          /\ Lines!Returned \in Nat /\ Len(line) \in Nat
          /\ taken = Lines!Returned + Len(line)
      <3>1. Len(rl_buf) = 0
        BY Zenon, <1>4 DEF Lines!Fill
      <3> QED
        BY <3>1, EmptySeq, ReturnedFacts DEF LinesInv, Typed, Lines!LinesKept
    <2>3. /\ rl_buf' \in Seq(B) /\ Len(rl_buf') = n
          /\ \A j \in 1 .. n : rl_buf'[j] = stream[taken + j]
      <3>1. taken \in Nat /\ n \in Nat /\ taken + n <= Len(stream)
        BY <2>1, <2>2
      <3>2. rl_buf' = SubSeq(stream, taken + 1, taken + n)
        BY Zenon, <2>1
      <3> QED
        BY SMT, <2>2, <3>1, <3>2, SubSeqFacts
    <2>4. Typed(B)'
      <3>1. /\ stream' = stream /\ sent' = sent /\ closed' = closed
            /\ line' = line /\ lines' = lines
        BY Zenon, <1>4 DEF Lines!Fill
      <3>2. taken' \in 0 .. sent'
        BY <2>1, <2>2, <3>1
      <3>3. closed' => sent' = Len(stream')
        BY <3>1, Zenon DEF LinesInv, Typed
      <3> QED
        BY Zenon, <2>2, <2>3, <3>1, <3>2, <3>3 DEF LinesInv, Typed
    <2>5. InProgress'
      BY <1>4, <2>1, <2>2 DEF Lines!Fill, LinesInv, InProgress, Short
    <2>6. Lines!LinesKept'
      <3>1. Lines!Returned' = Lines!Returned /\ \A i \in DOMAIN lines' : Lines!LineKept(i)'
        <4>1. UNCHANGED <<stream, closed, lines>>
          BY Zenon, <1>4 DEF Lines!Fill
        <4>2. Lines!Returned' = Lines!Returned
          BY Zenon, <4>1 DEF Lines!Returned
        <4>3. \A i \in DOMAIN lines' : Lines!LineKept(i)'
          BY Zenon, <4>1 DEF LinesInv, Lines!LinesKept, Lines!LineKept, Lines!Piece
        <4> QED
          BY Zenon, <4>2, <4>3
      <3>2. Lines!Piece(Lines!Returned, line)' /\ UNCHANGED <<line, stream>>
        BY Zenon, <1>4, <3>1 DEF Lines!Fill, LinesInv, Lines!LinesKept, Lines!Piece
      <3> QED
        BY Zenon, <2>1, <2>2, <2>3, <3>1, <3>2 DEF Lines!LinesKept, Lines!Piece
    <2> QED
      BY Zenon, <2>4, <2>5, <2>6 DEF LinesInv
  <1>5. CASE Lines!TakeByte
    BY Zenon, <1>5, StoreInv DEF Lines!TakeByte
  <1>6. CASE Lines!Eof
    <2>1. CASE line = <<>>
      BY Zenon, <1>6, <2>1, LinesQuiet DEF Lines!Eof
    <2>2. CASE line # <<>>
      <3>1. PICK m \in Nat : /\ m = Len(line) /\ m # 0 /\ line \in Seq(B)
                            /\ Lines!ReturnLine(m + 1, line) /\ Len(rl_buf) = 0
        BY Zenon, <1>6, <2>2, EmptySeq DEF Lines!Eof, LinesInv, Typed
      <3>2. /\ Len(line) \in 1 .. MaxLen - 1 /\ Lines!Piece(Lines!Returned, line)
            /\ \A j \in 1 .. Len(line) : line[j] # NL
            /\ line[Len(line)] # NL /\ closed /\ Len(line) # MaxLen - 1
            /\ ~(lines # <<>> /\ Short(Len(lines)))
        BY <1>6, <2>2, <3>1 DEF Lines!Eof, Sizes, LinesInv, InProgress, Lines!LinesKept
      <3>3. UNCHANGED <<reader, stream, sent, closed, taken, rl_buf>>
        BY Zenon, <1>6 DEF Lines!Eof
      <3>4. /\ lines' \in Seq(Results(B)) /\ lines' # <<>>
            /\ Lines!Returned' = Lines!Returned + m
            /\ \A i \in DOMAIN lines' : Lines!LineKept(i)'
            /\ line' = <<>>
        BY <3>1, <3>2, <3>3, ReturnInv
      <3>5. line' \in Seq(B) /\ Len(line') = 0 /\ Lines!Returned \in Nat
        BY <3>4, ReturnedFacts DEF LinesInv, Typed
      <3>6. Typed(B)'
        BY Zenon, <3>3, <3>4, <3>5 DEF LinesInv, Typed
      <3>7. InProgress'
        BY <1>6, <3>2, <3>3, <3>4, <3>5 DEF Lines!Eof, InProgress, LinesInv, Sizes
      <3>8. Lines!LinesKept'
        BY <3>1, <3>3, <3>4, <3>5 DEF Lines!LinesKept, Lines!Piece, LinesInv
      <3> QED
        BY Zenon, <3>6, <3>7, <3>8 DEF LinesInv
    <2> QED
      BY Zenon, <2>1, <2>2
  <1>7. CASE Lines!ReadFails
    BY Zenon, <1>7, LinesQuiet DEF Lines!ReadFails
  <1>8. CASE UNCHANGED Lines!vars
    BY Zenon, <1>8, LinesQuiet DEF Lines!vars
  <1> QED
    BY Zenon, <1>1, <1>2, <1>3, <1>4, <1>5, <1>6, <1>7, <1>8 DEF Lines!Next

(* readline and readline_r return what the peer sent, once and in order, in  *)
(* lines that fit: LinesKept, for the sizes that web_child passes.           *)
THEOREM LinesAreKept ==
  /\ Lines!Spec => []LinesKept
  /\ MCSpec => []LinesKept
  <1>s. Sizes(Chars)
    BY Zenon, ReadlineAssumption DEF Sizes
  <1>1. MCInit => Lines!Init
    BY Zenon DEF MCInit
  <1>2. Lines!Init => LinesInv(Chars)
    BY Zenon, LinesInit, <1>s
  <1>3. LinesInv(Chars) /\ [Lines!Next]_(Lines!vars) => LinesInv(Chars)'
    BY Zenon, LinesStep, <1>s
  <1>4. [MCNext]_allVars => [Lines!Next]_(Lines!vars)
    BY Zenon, StepsOfPrograms
  <1>5. LinesInv(Chars) => LinesKept
    BY Zenon DEF LinesInv, LinesKept
  <1> QED
    BY <1>1, <1>2, <1>3, <1>4, <1>5, PTL DEF MCSpec, Lines!Spec
-------------------------------------------------------------------------------
(* Traceroute. *)

(* Between HopLoop and the return of recv_v4 there is a hop to probe. *)
Probing ==
  t_pc \in {"send", "recv", "test", "enter", "blocked"} => hops \in Trace!Hops /\ curtime < Tries

(* No answer is on the way to a probe that was not sent. *)
NoEarlyAnswer == \A h \in Trace!Hops : net[h] > 0 \/ sock[h] > 0 => h <= hops

TraceInv == Trace!TypeOK /\ Probing /\ NoEarlyAnswer /\ Trace!NeverTooFar

(* What is put into ip_ttl never exceeds the number of the hop. *)
LEMMA TtlRange == ASSUME NEW h \in Nat \ {0} PROVE Trace!Ttl(h) \in 1 .. h
  <1>1. h % TtlSize \in 0 .. TtlSize - 1 /\ h \div TtlSize \in Int
        /\ h = (TtlSize * (h \div TtlSize)) + (h % TtlSize)
    BY TraceAssumption
  <1>2. h \div TtlSize >= 0
    BY TraceAssumption
  <1>3. TtlSize * (h \div TtlSize) >= 0
    BY <1>1, <1>2, TraceAssumption
  <1> QED
    BY <1>1, <1>3, TraceAssumption DEF Trace!Ttl

(* The first probe is sent with nothing on the way. *)
LEMMA TraceInit == Trace!Init => TraceInv
  <1> SUFFICES ASSUME Trace!Init PROVE TraceInv
    BY Zenon
  <1>1. HopsMax \in Nat /\ Tries \in Nat /\ dist \in Nat /\ dist > 0 /\ Trace!Hops \subseteq Nat
    BY TraceAssumption DEF Trace!Init, Trace!Hops
  <1>2. Trace!TypeOK /\ Probing
    <2>1. hops \in 1 .. HopsMax + 1 /\ curtime \in 0 .. Tries /\ 0 \in 0 .. HopsMax
      BY <1>1 DEF Trace!Init
    <2>2. timer \in BOOLEAN /\ done \in BOOLEAN
      BY Zenon DEF Trace!Init
    <2>3. /\ shown \in [Trace!Hops -> 0 .. HopsMax]
          /\ net \in [Trace!Hops -> Nat] /\ sock \in [Trace!Hops -> Nat]
      BY Zenon, <2>1 DEF Trace!Init
    <2> QED
      BY Zenon, <2>1, <2>2, <2>3 DEF Trace!Init, Trace!TypeOK, Probing
  <1>3. NoEarlyAnswer
    BY DEF Trace!Init, NoEarlyAnswer
  <1>4. Trace!NeverTooFar
    BY <1>1 DEF Trace!Init, Trace!NeverTooFar, Trace!Hops
  <1> QED
    BY Zenon, <1>2, <1>3, <1>4 DEF TraceInv

(* What the end of a wait does to the counters, whatever the answer: the     *)
(* hop is probed again or the next one is begun.                             *)
LEMMA ProbeOver ==
  ASSUME TraceInv, t_pc \in {"test", "blocked"}, NEW arrived \in BOOLEAN, Trace!NextProbe(arrived)
  PROVE  /\ t_pc' \in {"send", "loop"}
         /\ hops' \in 1 .. HopsMax + 1 /\ hops <= hops'
         /\ curtime' \in 0 .. Tries
         /\ t_pc' = "send" => hops' \in Trace!Hops /\ curtime' < Tries
         /\ done' = arrived
         /\ arrived => hops' = hops + 1
  <1>1. hops \in Trace!Hops /\ curtime \in 0 .. Tries /\ curtime < Tries
    BY Zenon DEF TraceInv, Trace!TypeOK, Probing
  <1>2. CASE curtime + 1 < Tries /\ ~arrived
    BY <1>1, <1>2, TraceAssumption DEF Trace!NextProbe, Trace!Hops
  <1>3. CASE ~(curtime + 1 < Tries /\ ~arrived)
    BY <1>1, <1>3, TraceAssumption DEF Trace!NextProbe, Trace!Hops
  <1> QED
    BY Zenon, <1>2, <1>3

(* Every step of the program, of the kernel and of the network keeps the     *)
(* invariant.                                                                *)
LEMMA TraceStep == TraceInv /\ [Trace!Next]_(Trace!vars) => TraceInv'
  <1> SUFFICES ASSUME TraceInv, [Trace!Next]_(Trace!vars)
               PROVE  TraceInv'
    BY Zenon
  <1>t. /\ HopsMax \in Nat /\ Tries \in Nat /\ Tries > 0 /\ dist \in Nat
        /\ hops \in 1 .. HopsMax + 1 /\ curtime \in 0 .. Tries
    BY TraceAssumption DEF TraceInv, Trace!TypeOK
  <1> USE DEF TraceInv
  <1>1. CASE Trace!HopLoop
    BY <1>1, <1>t
       DEF Trace!HopLoop, Trace!TypeOK, Probing, NoEarlyAnswer, Trace!NeverTooFar,
       Trace!Hops
  <1>2. CASE Trace!SendV4
    <2>1. hops \in Trace!Hops /\ curtime < Tries
      BY Zenon, <1>2 DEF Trace!SendV4, Probing
    <2>t. Trace!Ttl(hops) \in Trace!Hops /\ Trace!Ttl(hops) <= hops
      <3>1. hops \in Nat \ {0} /\ hops <= HopsMax
        BY <2>1, <1>t DEF Trace!Hops
      <3>2. Trace!Ttl(hops) \in 1 .. hops
        BY Zenon, <3>1, TtlRange
      <3> QED
        BY <3>1, <3>2, <1>t DEF Trace!Hops
    <2>2. Trace!TypeOK' /\ Probing'
      <3>1. /\ UNCHANGED <<dist, hops, curtime, gotalarm, timer, shown, sock, done>>
            /\ t_pc' = "recv" /\ net' = [net EXCEPT ![Trace!Ttl(hops)] = @ + 1]
        BY Zenon, <1>2 DEF Trace!SendV4
      <3>2. net' \in [Trace!Hops -> Nat]
        BY <2>t, <3>1 DEF Trace!TypeOK
      <3> QED
        BY Zenon, <2>1, <3>1, <3>2 DEF Trace!TypeOK, Probing
    <2>3. NoEarlyAnswer'
      <3> SUFFICES ASSUME NEW h \in Trace!Hops, net'[h] > 0 \/ sock'[h] > 0
                   PROVE  h <= hops
        BY Zenon, <1>2 DEF Trace!SendV4, NoEarlyAnswer
      <3>1. CASE h = Trace!Ttl(hops)
        BY Zenon, <3>1, <2>t
      <3>2. CASE h # Trace!Ttl(hops)
        BY Zenon, <1>2, <3>2 DEF Trace!SendV4, NoEarlyAnswer, Trace!TypeOK
      <3> QED
        BY Zenon, <3>1, <3>2
    <2>4. Trace!NeverTooFar'
      BY Zenon, <1>2 DEF Trace!SendV4, Trace!NeverTooFar
    <2> QED
      BY Zenon, <2>2, <2>3, <2>4
  <1>3. CASE Trace!RecvStart
    BY Zenon, <1>3, <1>t
       DEF Trace!RecvStart, Trace!TypeOK, Probing, NoEarlyAnswer, Trace!NeverTooFar
  <1>4. CASE Trace!TestAlarm
    <2>1. CASE gotalarm = 1 /\ Trace!NextProbe(FALSE)
      <3>1. /\ t_pc' \in {"send", "loop"} /\ hops' \in 1 .. HopsMax + 1 /\ hops <= hops'
            /\ curtime' \in 0 .. Tries /\ done' = FALSE
            /\ t_pc' = "send" => hops' \in Trace!Hops /\ curtime' < Tries
        BY Zenon, <2>1, <1>4, ProbeOver DEF Trace!TestAlarm
      <3>2. UNCHANGED <<dist, gotalarm, timer, shown, net, sock>>
        BY Zenon, <1>4 DEF Trace!TestAlarm
      <3>3. Trace!TypeOK' /\ Probing' /\ Trace!NeverTooFar'
        BY Zenon, <3>1, <3>2 DEF Trace!TypeOK, Probing, Trace!NeverTooFar
      <3>4. NoEarlyAnswer'
        BY <3>1, <3>2, <1>t DEF NoEarlyAnswer, Trace!Hops
      <3> QED
        BY Zenon, <3>3, <3>4
    <2>2. CASE t_pc' = "enter" /\ UNCHANGED <<hops, curtime, done>>
      BY Zenon, <2>2, <1>4, <1>t
         DEF Trace!TestAlarm, Trace!TypeOK, Probing, NoEarlyAnswer, Trace!NeverTooFar
    <2> QED
      BY Zenon, <1>4, <2>1, <2>2 DEF Trace!TestAlarm
  <1>5. CASE Trace!EnterRecvfrom
    BY Zenon, <1>5, <1>t
       DEF Trace!EnterRecvfrom, Trace!TypeOK, Probing, NoEarlyAnswer, Trace!NeverTooFar
  <1>6. ASSUME NEW h \in Trace!Hops, Trace!Recvfrom(h)
        PROVE  TraceInv'
    <2>1. /\ t_pc = "blocked" /\ h <= hops /\ hops \in Trace!Hops /\ h \in Nat
          /\ UNCHANGED <<dist, gotalarm, net>>
          /\ sock' = [sock EXCEPT ![h] = @ - 1] /\ sock[h] > 0
      BY <1>6, <1>t
         DEF Trace!Recvfrom, Trace!Discard, Probing, NoEarlyAnswer, Trace!Hops
    <2>2. sock' \in [Trace!Hops -> Nat] /\ \A g \in Trace!Hops : sock'[g] > 0 => sock[g] > 0
      BY <2>1 DEF Trace!TypeOK
    <2>3. CASE Trace!Discard(h)
      BY Zenon, <1>6, <2>1, <2>2, <2>3
         DEF Trace!Discard, Trace!TypeOK, Probing, NoEarlyAnswer, Trace!NeverTooFar
    <2>4. CASE /\ timer' = FALSE
               /\ Trace!TimeExceeded(h) \/ Trace!EchoReply(h) \/ Trace!OtherType
      <3>1. PICK arrived \in BOOLEAN :
              /\ Trace!NextProbe(arrived)
              /\ arrived => h >= dist
              /\ shown' = shown \/ (h < dist /\ shown' = [shown EXCEPT ![hops] = h])
        BY Zenon, <2>4 DEF Trace!TimeExceeded, Trace!EchoReply, Trace!OtherType
      <3>2. /\ t_pc' \in {"send", "loop"} /\ hops' \in 1 .. HopsMax + 1 /\ hops <= hops'
            /\ curtime' \in 0 .. Tries /\ done' = arrived
            /\ t_pc' = "send" => hops' \in Trace!Hops /\ curtime' < Tries
            /\ arrived => hops' = hops + 1
        BY Zenon, <2>1, <3>1, ProbeOver
      <3>3. shown' \in [Trace!Hops -> 0 .. HopsMax] /\ \A g \in Trace!Hops : shown'[g] <= g /\ shown'[g] < dist
        <4>1. CASE shown' = shown
          BY Zenon, <4>1 DEF Trace!TypeOK, Trace!NeverTooFar
        <4>2. CASE h < dist /\ shown' = [shown EXCEPT ![hops] = h]
          <5>1. h \in 0 .. HopsMax /\ shown \in [Trace!Hops -> 0 .. HopsMax]
            BY <1>t DEF Trace!Hops, Trace!TypeOK
          <5>2. shown' \in [Trace!Hops -> 0 .. HopsMax] /\ shown'[hops] = h
            BY Zenon, <4>2, <5>1, <2>1
          <5>3. \A g \in Trace!Hops : g # hops => shown'[g] = shown[g]
            BY Zenon, <4>2, <5>1
          <5> QED
            BY Zenon, <4>2, <5>2, <5>3, <2>1 DEF Trace!NeverTooFar
        <4> QED
          BY Zenon, <3>1, <4>1, <4>2
      <3>4. done' => hops' > dist
        BY <2>1, <3>1, <3>2, <1>t
      <3>5. Trace!TypeOK' /\ Probing' /\ Trace!NeverTooFar'
        BY Zenon, <2>1, <2>2, <2>4, <3>2, <3>3, <3>4
           DEF Trace!TypeOK, Probing, Trace!NeverTooFar
      <3>6. NoEarlyAnswer'
        BY <2>1, <2>2, <3>2, <1>t DEF NoEarlyAnswer, Trace!Hops
      <3> QED
        BY Zenon, <3>5, <3>6
    <2> QED
      BY Zenon, <1>6, <2>3, <2>4 DEF Trace!Recvfrom
  <1>7. CASE Trace!SigAlrm
    BY Zenon, <1>7, <1>t
       DEF Trace!SigAlrm, Trace!TypeOK, Probing, NoEarlyAnswer, Trace!NeverTooFar
  <1>8. ASSUME NEW h \in Trace!Hops, Trace!Arrive(h) \/ Trace!Lose(h)
        PROVE  TraceInv'
    <2>1. /\ net[h] > 0 /\ net' = [net EXCEPT ![h] = @ - 1]
          /\ sock' = sock \/ sock' = [sock EXCEPT ![h] = @ + 1]
          /\ UNCHANGED <<dist, t_pc, hops, curtime, gotalarm, timer, shown, done>>
      BY Zenon, <1>8 DEF Trace!Arrive, Trace!Lose
    <2>2. net' \in [Trace!Hops -> Nat] /\ sock' \in [Trace!Hops -> Nat]
      BY <2>1 DEF Trace!TypeOK
    <2>3. \A g \in Trace!Hops : net'[g] > 0 \/ sock'[g] > 0 => net[g] > 0 \/ sock[g] > 0
      BY Zenon, <2>1 DEF Trace!TypeOK
    <2> QED
      BY Zenon, <2>1, <2>2, <2>3
         DEF Trace!TypeOK, Probing, NoEarlyAnswer, Trace!NeverTooFar
  <1>9. CASE Trace!Quit
    BY Zenon, <1>9, <1>t
       DEF Trace!Quit, Trace!TypeOK, Probing, NoEarlyAnswer, Trace!NeverTooFar
  <1>10. CASE UNCHANGED Trace!vars
    BY Zenon, <1>10
       DEF Trace!vars, Trace!TypeOK, Probing, NoEarlyAnswer, Trace!NeverTooFar
  <1> QED
    BY Zenon, <1>1, <1>2, <1>3, <1>4, <1>5, <1>6, <1>7, <1>8, <1>9, <1>10
       DEF Trace!Next, Trace!Program

(* A line of the trace names a router at most that far away, and the         *)
(* destination is announced only once it is in reach: NeverTooFar.           *)
THEOREM TraceIsSound ==
  /\ Trace!Spec => []NeverTooFar
  /\ MCSpec => []NeverTooFar
  <1>1. MCInit => Trace!Init
    BY Zenon DEF MCInit
  <1>2. TraceInv /\ [Trace!Next]_(Trace!vars) => TraceInv'
    BY Zenon, TraceStep
  <1>3. [MCNext]_allVars => [Trace!Next]_(Trace!vars)
    BY Zenon, StepsOfPrograms
  <1>4. TraceInv => NeverTooFar
    BY Zenon DEF TraceInv, NeverTooFar
  <1> QED
    BY TraceInit, <1>1, <1>2, <1>3, <1>4, PTL DEF MCSpec, Trace!Spec
-------------------------------------------------------------------------------
(* JobQueue. *)

(* No job is queued twice: the links of the list do not meet. *)
Distinct == \A i, j \in 1 .. Len(order) : order[i] = order[j] => i = j

QueueInv == Queue!TypeOK /\ Queue!ListIsQueue /\ Distinct

(* A sequence is empty when its length is 0. *)
LEMMA EmptyQueue ==
  ASSUME NEW S, NEW s \in Seq(S)
  PROVE  Len(s) \in Nat /\ (s = <<>> <=> Len(s) = 0)
  OBVIOUS

(* What an element at the end leaves as it was. *)
LEMMA PushFacts ==
  ASSUME NEW S, NEW s \in Seq(S), NEW e \in S
  PROVE  /\ Append(s, e) \in Seq(S) /\ Append(s, e) # <<>>
         /\ Len(Append(s, e)) = Len(s) + 1
         /\ Append(s, e)[Len(s) + 1] = e
         /\ \A i \in 1 .. Len(s) : Append(s, e)[i] = s[i]
  OBVIOUS

(* What is left without the first element. *)
LEMMA TailFacts ==
  ASSUME NEW S, NEW s \in Seq(S), s # <<>>
  PROVE  /\ Tail(s) \in Seq(S)
         /\ Len(Tail(s)) = Len(s) - 1
         /\ \A i \in 1 .. Len(s) - 1 : Tail(s)[i] = s[i + 1]
         /\ Head(s) = s[1]
  OBVIOUS

(* jobqueue_init leaves the empty list. *)
LEMMA QueueInit == Queue!Init => QueueInv
  <1> SUFFICES ASSUME Queue!Init PROVE QueueInv
    BY Zenon
  <1>1. order \in Seq(Addrs) /\ Len(order) = 0
    BY DEF Queue!Init
  <1>2. clearing \in BOOLEAN
    BY Zenon DEF Queue!Init
  <1> QED
    BY <1>1, <1>2 DEF Queue!Init, QueueInv, Queue!TypeOK, Queue!ListIsQueue, Distinct

(* jobqueue_push keeps the list a queue: the new job is at no address of the *)
(* list, so only the link of the old rear changes.                           *)
LEMMA PushInv ==
  ASSUME QueueInv, NEW a \in Addrs, Queue!Push(a)
  PROVE  QueueInv'
  <1> DEFINE n == Len(order)
  <1>1. /\ order \in Seq(Addrs) /\ n \in Nat /\ len = n
        /\ prev \in [Addrs -> Addrs \cup {NULL}]
        /\ order = <<>> <=> n = 0
    BY Zenon, EmptyQueue DEF QueueInv, Queue!TypeOK, Queue!ListIsQueue
  <1>2. /\ order' \in Seq(Addrs) /\ order' # <<>> /\ Len(order') = n + 1
        /\ order'[n + 1] = a
        /\ \A i \in 1 .. n : order'[i] = order[i]
    BY <1>1, PushFacts DEF Queue!Push
  <1>3. \A i \in 1 .. n : order[i] \in Addrs /\ order[i] # a
    BY <1>1 DEF Queue!Push, Queue!Queued
  <1>4. Distinct'
    <2> SUFFICES ASSUME NEW i \in 1 .. n + 1, NEW j \in 1 .. n + 1, order'[i] = order'[j]
                 PROVE  i = j
      BY Zenon, <1>2 DEF Distinct
    <2> QED
      BY <1>1, <1>2, <1>3 DEF QueueInv, Distinct
  <1>5. rear' = a /\ len' = n + 1 /\ held' = held /\ clearing' = clearing /\ got' = got /\ due' = due
    BY Zenon, <1>1 DEF Queue!Push
  <1>6. CASE n = 0
    <2>1. front' = a /\ prev' \in [Addrs -> Addrs \cup {NULL}]
      BY Zenon, <1>1, <1>6 DEF Queue!Push
    <2>2. Queue!ListIsQueue'
      BY <1>2, <1>5, <1>6, <2>1 DEF QueueInv, Queue!ListIsQueue
    <2> QED
      BY <1>2, <1>4, <1>5, <1>6, <2>1, <2>2 DEF QueueInv, Queue!TypeOK
  <1>7. CASE n > 0
    <2>1. front = order[1] /\ rear = order[n] /\ front' = front
      BY <1>1, <1>7 DEF Queue!Push, QueueInv, Queue!ListIsQueue
    <2>2. prev' = [prev EXCEPT ![a] = NULL, ![rear] = a] /\ rear \in Addrs
      BY <1>1, <1>3, <1>7, <2>1 DEF Queue!Push
    <2>3. prev' \in [Addrs -> Addrs \cup {NULL}] /\ prev'[order[n]] = a
      BY Zenon, <1>1, <2>1, <2>2
    <2>4. \A i \in 1 .. n - 1 : prev'[order[i]] = order[i + 1]
      <3> SUFFICES ASSUME NEW i \in 1 .. n - 1
                   PROVE  prev'[order[i]] = order[i + 1]
        BY Zenon
      <3>1. i \in 1 .. n /\ n \in 1 .. n /\ i # n
        BY <1>1, <1>7
      <3>2. order[i] # a /\ order[i] # rear /\ order[i] \in Addrs
        BY Zenon, <1>3, <2>1, <3>1 DEF QueueInv, Distinct
      <3>3. prev[order[i]] = order[i + 1]
        BY Zenon DEF QueueInv, Queue!ListIsQueue
      <3> QED
        BY Zenon, <1>1, <2>2, <3>2, <3>3
    <2>5. \A i \in 1 .. n : prev'[order'[i]] = order'[i + 1]
      <3> SUFFICES ASSUME NEW i \in 1 .. n
                   PROVE  prev'[order'[i]] = order'[i + 1]
        BY Zenon
      <3>1. CASE i = n
        BY Zenon, <1>1, <1>2, <2>3, <3>1
      <3>2. CASE i # n
        BY <1>1, <1>2, <2>4, <3>2
      <3> QED
        BY Zenon, <3>1, <3>2
    <2>6. order'[1] = order[1]
      BY <1>1, <1>2, <1>7
    <2>7. Queue!ListIsQueue'
      BY <1>1, <1>2, <1>5, <2>1, <2>5, <2>6 DEF QueueInv, Queue!ListIsQueue
    <2>8. Queue!TypeOK'
      BY <1>1, <1>2, <1>5, <2>1, <2>3 DEF QueueInv, Queue!TypeOK
    <2> QED
      BY Zenon, <1>4, <2>7, <2>8 DEF QueueInv
  <1> QED
    BY <1>1, <1>6, <1>7

(* jobqueue_pull keeps the list a queue, and returns the oldest job. *)
LEMMA UnlinkInv ==
  ASSUME QueueInv, Queue!Unlink, clearing' \in BOOLEAN, held' \subseteq Addrs
  PROVE  QueueInv'
  <1> DEFINE n == Len(order)
  <1>1. /\ order \in Seq(Addrs) /\ n \in Nat /\ len = n
        /\ prev \in [Addrs -> Addrs \cup {NULL}] /\ prev' = prev
        /\ order = <<>> <=> n = 0
    BY Zenon, EmptyQueue DEF QueueInv, Queue!TypeOK, Queue!ListIsQueue, Queue!Unlink
  <1>2. CASE n = 0
    <2>1. UNCHANGED <<front, rear, len, prev, order>> /\ got' = front /\ due' = NULL
      BY <1>1, <1>2 DEF Queue!Unlink
    <2> QED
      BY <1>1, <1>2, <2>1 DEF QueueInv, Queue!TypeOK, Queue!ListIsQueue, Distinct
  <1>3. CASE n > 0
    <2>1. /\ order' \in Seq(Addrs) /\ Len(order') = n - 1
          /\ \A i \in 1 .. n - 1 : order'[i] = order[i + 1]
          /\ due' = order[1]
      BY <1>1, <1>3, TailFacts DEF Queue!Unlink
    <2>2. order' = <<>> <=> n = 1
      BY <1>1, <2>1, EmptyQueue
    <2>3. front = order[1] /\ rear = order[n] /\ got' = front
      BY <1>1, <1>3 DEF Queue!Unlink, QueueInv, Queue!ListIsQueue
    <2>4. Distinct'
      BY <1>1, <2>1 DEF QueueInv, Distinct
    <2>5. \A i \in 1 .. n - 2 : prev[order'[i]] = order'[i + 1]
      BY <1>1, <2>1 DEF QueueInv, Queue!ListIsQueue
    <2>6. CASE n = 1
      <3>1. front' = NULL /\ rear' = NULL /\ len' = 0
        BY <1>1, <2>6 DEF Queue!Unlink
      <3> QED
        BY SMTT(30), <1>1, <2>1, <2>2, <2>3, <2>4, <2>5, <2>6, <3>1
           DEF QueueInv, Queue!TypeOK, Queue!ListIsQueue
    <2>7. CASE n > 1
      <3>1. front' = prev[front] /\ len' = n - 1 /\ rear' = rear
        BY <1>1, <2>7 DEF Queue!Unlink
      <3>2. front' = order'[1] /\ rear' = order'[n - 1]
        BY <1>1, <2>1, <2>3, <2>7, <3>1 DEF QueueInv, Queue!ListIsQueue
      <3>3. order'[1] \in Addrs
        BY <1>1, <2>1, <2>7
      <3>4. Queue!ListIsQueue'
        BY <1>1, <2>1, <2>2, <2>3, <2>5, <2>7, <3>1, <3>2
           DEF QueueInv, Queue!ListIsQueue
      <3>5. Queue!TypeOK'
        BY <1>1, <2>1, <2>7, <3>1, <3>2, <3>3 DEF QueueInv, Queue!TypeOK
      <3> QED
        BY Zenon, <2>4, <3>4, <3>5 DEF QueueInv
    <2> QED
      BY <1>1, <1>3, <2>6, <2>7
  <1> QED
    BY <1>1, <1>2, <1>3

(* Every step keeps the list a queue. *)
LEMMA QueueStep == QueueInv /\ [Queue!Next]_(Queue!vars) => QueueInv'
  <1> SUFFICES ASSUME QueueInv, [Queue!Next]_(Queue!vars)
               PROVE  QueueInv'
    BY Zenon
  <1>1. ASSUME NEW a \in Addrs, Queue!Push(a) PROVE QueueInv'
    BY Zenon, <1>1, PushInv
  <1>2. ASSUME NEW a \in Addrs, Queue!Free(a) PROVE QueueInv'
    BY Zenon, <1>2 DEF Queue!Free, QueueInv, Queue!TypeOK, Queue!ListIsQueue, Distinct
  <1>3. CASE Queue!Pull
    <2>1. Queue!Unlink /\ clearing' \in BOOLEAN
      BY Zenon, <1>3 DEF Queue!Pull, QueueInv, Queue!TypeOK
    <2>2. held' \subseteq Addrs
      <3>1. CASE len = 0
        BY Zenon, <1>3, <3>1 DEF Queue!Pull, QueueInv, Queue!TypeOK
      <3>2. CASE len # 0
        <4>1. order \in Seq(Addrs) /\ order # <<>> /\ front = order[1] /\ Len(order) \in Nat
          BY Zenon, <3>2, EmptyQueue DEF QueueInv, Queue!TypeOK, Queue!ListIsQueue
        <4>2. front \in Addrs
          BY <4>1
        <4> QED
          BY Zenon, <1>3, <3>2, <4>2 DEF Queue!Pull, QueueInv, Queue!TypeOK
      <3> QED
        BY Zenon, <3>1, <3>2
    <2> QED
      BY Zenon, <2>1, <2>2, UnlinkInv
  <1>4. CASE Queue!ClearStart
    BY Zenon, <1>4
       DEF Queue!ClearStart, QueueInv, Queue!TypeOK, Queue!ListIsQueue, Distinct
  <1>5. CASE Queue!ClearPull
    BY Zenon, <1>5, UnlinkInv DEF Queue!ClearPull, QueueInv, Queue!TypeOK
  <1>6. CASE Queue!ClearEnd
    <2>1. order = <<>>
      BY Zenon, <1>6, EmptyQueue
         DEF Queue!ClearEnd, QueueInv, Queue!TypeOK, Queue!ListIsQueue
    <2> QED
      BY <1>6, <2>1
         DEF Queue!ClearEnd, QueueInv, Queue!TypeOK, Queue!ListIsQueue, Distinct
  <1>7. CASE UNCHANGED Queue!vars
    BY Zenon, <1>7 DEF Queue!vars, QueueInv, Queue!TypeOK, Queue!ListIsQueue, Distinct
  <1> QED
    BY Zenon, <1>1, <1>2, <1>3, <1>4, <1>5, <1>6, <1>7 DEF Queue!Next

(* The linked list of thpool.c is the sequence of the queued jobs, and a     *)
(* pull returns the oldest one: ListIsQueue.                                 *)
THEOREM ListRepresentsQueue ==
  /\ Queue!Spec => []ListIsQueue
  /\ MCSpec => []ListIsQueue
  <1>1. MCInit => Queue!Init
    BY Zenon DEF MCInit
  <1>2. QueueInv /\ [Queue!Next]_(Queue!vars) => QueueInv'
    BY Zenon, QueueStep
  <1>3. [MCNext]_allVars => [Queue!Next]_(Queue!vars)
    BY Zenon, StepsOfPrograms
  <1>4. QueueInv => ListIsQueue
    BY Zenon DEF QueueInv, ListIsQueue
  <1> QED
    BY QueueInit, <1>1, <1>2, <1>3, <1>4, PTL DEF MCSpec, Queue!Spec
-------------------------------------------------------------------------------
(* The variables of each of these programs stay in their sets. *)
THEOREM ProgramsAreTyped == MCSpec => [](Trace!TypeOK /\ Accept!TypeOK /\ Queue!TypeOK)
  <1>1. MCInit => Trace!Init /\ Queue!Init
    BY Zenon DEF MCInit
  <1>2. TraceInv /\ [MCNext]_allVars => TraceInv'
    BY Zenon, TraceStep, StepsOfPrograms
  <1>3. QueueInv /\ [MCNext]_allVars => QueueInv'
    BY Zenon, QueueStep, StepsOfPrograms
  <1>4. TraceInv /\ AcceptInv /\ QueueInv => Trace!TypeOK /\ Accept!TypeOK /\ Queue!TypeOK
    BY Zenon DEF TraceInv, AcceptInv, QueueInv
  <1> QED
    BY TraceInit, QueueInit, ServersKeepInv, <1>1, <1>2, <1>3, <1>4, PTL DEF MCSpec
===============================================================================
