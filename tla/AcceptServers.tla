---------------------------- MODULE AcceptServers -----------------------------
(*****************************************************************************)
(* The servers of person/client_server that take connections with accept in  *)
(* the process or thread that serves them, and the clients that test them:   *)
(*   "iterative"  serv00     main accepts and serves                         *)
(*   "fork"       serv01     main accepts, a new process serves              *)
(*   "prefork"    serv02     processes made in advance accept (also serv02m) *)
(*   "select"     serv02 with child02l: each calls select before accept      *)
(*   "fcntl"      serv03     a file lock around accept (also serv03m)        *)
(*   "mutex"      serv04     a mutex in shared memory around accept          *)
(*   "thread"     serv06     main accepts, a new thread serves               *)
(*   "tmutex"     serv07     threads made in advance, a mutex around accept  *)
(*   "pool"       serv09     threads made in advance accept                  *)
(* The server is chosen in Init and never changes.                           *)
(*                                                                           *)
(* A connection is a client: client.c connects, writes a request, reads the  *)
(* reply and closes; clientrst.c resets some connections before the request, *)
(* and client.c may be told to ask for a number of bytes web_child refuses.  *)
(* SIGINT is sent to the main process only, as kill -INT does.               *)
(*****************************************************************************)
EXTENDS Integers, FiniteSets

CONSTANTS
  Kinds,       \* the servers to consider
  NPool,       \* nchildren or nthreads
  Ordinary,    \* the connections of client.c
  Unruly,      \* those that are reset, or whose request is refused
  NoConn,      \* no connection
  NoOne        \* the owner of a free lock

Main  == 0
Conns == Ordinary \cup Unruly

(* The workers made in advance are 1 .. NPool; serv01 and serv06 make one    *)
(* for each connection, in the order in which they accept them.              *)
Workers   == (1 .. NPool) \cup (1 .. Cardinality(Conns))
Processes == Workers \cup {Main}

VARIABLES
  kind,      \* the server that runs
  client,    \* how far each client is
  backlog,   \* the connections established and not accepted
  pc,        \* where main and each worker is
  conn,      \* connfd of main and of each worker
  lock,      \* the owner of the lock around accept
  sigchld,   \* is SIGCHLD pending for main?
  sigterm,   \* the workers for which SIGTERM is pending
  handler,   \* is main inside sig_chld?
  blame      \* where the last process to end with each connection open failed

vars ==
  <<kind, client, backlog, pc, conn, lock, sigchld, sigterm, handler, blame>>

Locked    == kind \in {"fcntl", "mutex", "tmutex"}
Preforked == kind \in {"prefork", "select", "fcntl", "mutex"}
Threaded  == kind \in {"thread", "tmutex", "pool"}
PerConn   == kind \in {"fork", "thread"}
Crew      == IF PerConn THEN 1 .. Cardinality(Conns) ELSE 1 .. NPool

(* A worker that has ended: a process is a zombie until it is waited for. *)
Gone == {"zombie", "reaped", "ended"}
Down == pc[Main] = "ended"

Listening ==
  \/ ~Down
  \/ \E w \in Crew : Preforked /\ pc[w] \notin Gone \cup {"none"}
  \/ \E w \in Workers : pc[w] = "born"

Labels ==
  {"none", "make", "accept", "lock", "select", "unlock", "fork", "born", "create",
   "serve", "close", "pause", "kill", "wait"} \cup Gone

Progress ==
  {"new", "connected", "waiting", "reset", "badsize", "done", "failed", "refused"}
Reasons ==
  {"sigint", "make", "fork", "create", "lock", "select", "accept", "unlock",
   "serve", "exit"}

TypeOK ==
  /\ kind \in Kinds
  /\ pc \in [Processes -> Labels]
  /\ client \in [Conns -> Progress]
  /\ backlog \subseteq Conns
  /\ conn \in [Processes -> Conns \cup {NoConn}]
  /\ lock \in Workers \cup {NoOne}
  /\ sigchld \in BOOLEAN /\ handler \in BOOLEAN
  /\ sigterm \subseteq Workers
  /\ blame \in [Conns -> Reasons \cup {"none"}]
-------------------------------------------------------------------------------
(* How processes end.  The end of main, or of any thread, is the end of all  *)
(* threads; a process that ends becomes a zombie and main gets SIGCHLD,      *)
(* which only serv01 catches.  The kernel drops a file lock of the process   *)
(* that ends, nobody unlocks its mutex.  Children without a parent are       *)
(* waited for by init.                                                       *)

Blame(ended, why) ==
  blame' = [c \in Conns |-> IF \E p \in ended : conn[p] = c THEN why ELSE blame[c]]

EndMain(why) ==
  /\ Blame(IF Threaded THEN Processes ELSE {Main}, why)
  /\ pc' = [p \in Processes |-> IF p = Main \/ Threaded THEN "ended"
                                ELSE IF pc[p] = "zombie" THEN "reaped" ELSE pc[p]]
  /\ conn' = [p \in Processes |-> IF p = Main \/ Threaded THEN NoConn ELSE conn[p]]
  /\ handler' = FALSE
  /\ sigchld' = FALSE
  /\ UNCHANGED <<lock, sigterm>>

EndChild(w, why) ==
  /\ Blame({w}, why)
  /\ pc' = [pc EXCEPT ![w] = IF Down THEN "reaped" ELSE "zombie"]
  /\ conn' = [conn EXCEPT ![w] = NoConn]
  /\ sigchld' = (sigchld \/ (kind = "fork" /\ ~Down))
  /\ lock' = IF kind = "fcntl" /\ lock = w THEN NoOne ELSE lock
  /\ sigterm' = sigterm \ {w}
  /\ UNCHANGED handler

(* err_quit, err_sys or exit in process or thread p. *)
End(p, why) == IF p = Main \/ Threaded THEN EndMain(why) ELSE EndChild(p, why)

Goto(p, label) == pc' = [pc EXCEPT ![p] = label]

(* p is at a label and is not interrupted by the handler of SIGCHLD. *)
At(p, label) == pc[p] = label /\ ~(p = Main /\ handler)

sigVars == <<sigchld, sigterm, handler, blame>>
netVars == <<client, backlog>>
-------------------------------------------------------------------------------
(* The clients.                                                              *)

(* Tcp_connect: the kernel completes the connection and queues it. *)
Connect(c) ==
  /\ client[c] = "new"
  /\ Listening
  /\ client' = [client EXCEPT ![c] = "connected"]
  /\ backlog' = backlog \cup {c}
  /\ UNCHANGED <<kind, pc, conn, lock, sigVars>>

(* Write of the request, for a number of bytes that web_child accepts or     *)
(* not; or close with a linger time of 0, which resets.                      *)
Request(c) ==
  /\ client[c] = "connected"
  /\ \E s \in IF c \in Ordinary THEN {"waiting"} ELSE {"reset", "badsize"} :
       client' = [client EXCEPT ![c] = s]
  /\ UNCHANGED <<kind, backlog, pc, conn, lock, sigVars>>

(* The server's end of the connection is closed without a reply, or nobody   *)
(* listens any more: Readn returns less than asked and the client gives up.  *)
Broken(c) ==
  /\ client[c] \in {"waiting", "badsize"}
  /\ \/ /\ c \notin backlog
        /\ \A p \in Processes : conn[p] # c
        /\ client' = [client EXCEPT ![c] = "failed"]
     \/ /\ c \in backlog
        /\ ~Listening
        /\ client' = [client EXCEPT ![c] = "refused"]
  /\ backlog' = backlog \ {c}
  /\ UNCHANGED <<kind, pc, conn, lock, sigVars>>
-------------------------------------------------------------------------------
(* accept and web_child, in main or in a worker.                             *)

(* accept returns a connection, also one that was reset in the meantime. *)
Take(p, next) ==
  \E c \in backlog :
    /\ backlog' = backlog \ {c}
    /\ conn' = [conn EXCEPT ![p] = c]
    /\ Goto(p, next)
    /\ UNCHANGED <<kind, client, lock, sigVars>>

(* accept fails with ECONNABORTED or EPROTO: Accept tries again, serv01      *)
(* calls accept itself and knows only EINTR.                                 *)
AcceptAborted(p) ==
  /\ At(p, "accept")
  /\ \E c \in backlog :
       /\ client[c] = "reset"
       /\ backlog' = backlog \ {c}
  /\ IF kind = "fork" THEN End(p, "accept")
     ELSE UNCHANGED <<pc, conn, lock, sigVars>>
  /\ UNCHANGED <<kind, client>>

(* Where err_sys ends the process or thread when the kernel has no memory,   *)
(* descriptors or locks left.  The mutexes of serv04 and serv07 need none.   *)
Fallible == {"accept", "select"} \cup (IF kind = "fcntl" THEN {"lock", "unlock"} ELSE {})

CallFails(p) ==
  /\ \E l \in Fallible : At(p, l) /\ End(p, l)
  /\ UNCHANGED <<kind, netVars>>

(* web_child: Readline, Writen.  The client reads the reply and closes. *)
Reply(p) ==
  /\ At(p, "serve")
  /\ client[conn[p]] = "waiting"
  /\ client' = [client EXCEPT ![conn[p]] = "done"]
  /\ UNCHANGED <<kind, backlog, pc, conn, lock, sigVars>>

(* web_child: Readline returns 0. *)
Return(p) ==
  /\ At(p, "serve")
  /\ client[conn[p]] = "done"
  /\ Goto(p, "close")
  /\ UNCHANGED <<kind, netVars, conn, lock, sigVars>>

(* web_child: Readline fails on a connection that was reset, or err_quit on  *)
(* a request for too many bytes, or none.                                    *)
RequestFails(p) ==
  /\ At(p, "serve")
  /\ client[conn[p]] \in {"reset", "badsize"}
  /\ End(p, "serve")
  /\ UNCHANGED <<kind, netVars>>

Serve(p) == Reply(p) \/ Return(p) \/ RequestFails(p)
-------------------------------------------------------------------------------
(* The main process.                                                         *)

Unused == {w \in Crew : pc[w] = "none"}
Fresh  == {w \in Unused : \A u \in Unused : w <= u}

MainAccept ==
  /\ At(Main, "accept")
  /\ Take(Main, CASE kind = "iterative" -> "serve"
                  [] kind = "fork" -> "fork"
                  [] OTHER -> "create")

(* serv00: Close, and accept again. *)
IterativeClose ==
  /\ At(Main, "close")
  /\ kind = "iterative"
  /\ conn' = [conn EXCEPT ![Main] = NoConn]
  /\ Goto(Main, "accept")
  /\ UNCHANGED <<kind, netVars, lock, sigVars>>

(* Mutant: the parent closes connfd before it forks. *)
ForkChild_ClosedFirst ==
  /\ At(Main, "fork")
  /\ \E w \in Fresh : pc' = [pc EXCEPT ![Main] = "close", ![w] = "close"]
  /\ conn' = [conn EXCEPT ![Main] = NoConn]
  /\ UNCHANGED <<kind, netVars, lock, sigVars>>

(* serv01: Fork; the child starts with a copy of connfd and of listenfd. *)
ForkChild ==
  /\ At(Main, "fork")
  /\ \E w \in Fresh :
       /\ pc' = [pc EXCEPT ![Main] = "close", ![w] = "born"]
       /\ conn' = [conn EXCEPT ![w] = conn[Main]]
  /\ UNCHANGED <<kind, netVars, lock, sigVars>>

(* The child closes its copy of listenfd. *)
ChildStart(w) ==
  /\ At(w, "born")
  /\ Goto(w, "serve")
  /\ UNCHANGED <<kind, netVars, conn, lock, sigVars>>

ForkClose ==
  /\ At(Main, "close")
  /\ kind = "fork"
  /\ conn' = [conn EXCEPT ![Main] = NoConn]
  /\ Goto(Main, "accept")
  /\ UNCHANGED <<kind, netVars, lock, sigVars>>

(* serv06: Pthread_create; the thread is given connfd. *)
CreateThread ==
  /\ At(Main, "create")
  /\ \E w \in Fresh :
       /\ pc' = [pc EXCEPT ![Main] = "accept", ![w] = "serve"]
       /\ conn' = [conn EXCEPT ![w] = conn[Main], ![Main] = NoConn]
  /\ UNCHANGED <<kind, netVars, lock, sigVars>>

(* Where the loop of a worker made in advance starts. *)
LoopTop == IF Locked THEN "lock" ELSE IF kind = "select" THEN "select" ELSE "accept"

(* child_make, thread_make: the workers are made one after the other; then   *)
(* SIGINT is caught, and main calls pause for ever.                          *)
MakeWorker ==
  /\ At(Main, "make")
  /\ \/ \E w \in Fresh : Goto(w, LoopTop)
     \/ Unused = {} /\ Goto(Main, "pause")
  /\ UNCHANGED <<kind, netVars, conn, lock, sigVars>>

(* Fork or Pthread_create fails: err_sys. *)
NoResources ==
  /\ At(Main, "fork") \/ At(Main, "create") \/ (At(Main, "make") /\ Unused # {})
  /\ EndMain(pc[Main])
  /\ UNCHANGED <<kind, netVars>>
-------------------------------------------------------------------------------
(* The workers.                                                              *)

(* my_lock_wait, Pthread_mutex_lock(&mlock). *)
LockWait(w) ==
  /\ At(w, "lock")
  /\ lock = NoOne
  /\ lock' = w
  /\ Goto(w, "accept")
  /\ UNCHANGED <<kind, netVars, conn, sigVars>>

(* child02l: Select returns when there is a connection to accept. *)
Select(w) ==
  /\ At(w, "select")
  /\ backlog # {}
  /\ Goto(w, "accept")
  /\ UNCHANGED <<kind, netVars, conn, lock, sigVars>>

WorkerAccept(w) ==
  /\ At(w, "accept")
  /\ Take(w, IF Locked THEN "unlock" ELSE "serve")

(* Mutant: the lock is kept while the request is served. *)
LockRelease_Late(w) ==
  /\ At(w, "unlock")
  /\ Goto(w, "serve")
  /\ UNCHANGED <<kind, netVars, conn, lock, sigVars>>

(* my_lock_release, Pthread_mutex_unlock(&mlock). *)
LockRelease(w) ==
  /\ At(w, "unlock")
  /\ lock' = NoOne
  /\ Goto(w, "serve")
  /\ UNCHANGED <<kind, netVars, conn, sigVars>>

(* Close after web_child, back to the top of the loop.  In serv06 the thread *)
(* ends; in serv01 the process does, whose connection exit closes.           *)
WorkerClose(w) ==
  /\ At(w, "close")
  /\ IF kind = "fork" THEN EndChild(w, "exit")
     ELSE /\ conn' = [conn EXCEPT ![w] = NoConn]
          /\ Goto(w, IF kind = "thread" THEN "ended" ELSE LoopTop)
          /\ UNCHANGED <<lock, sigVars>>
  /\ UNCHANGED <<kind, netVars>>

Worker(w) ==
  \/ ChildStart(w) \/ LockWait(w) \/ Select(w) \/ WorkerAccept(w)
  \/ LockRelease(w) \/ Serve(w) \/ WorkerClose(w)
-------------------------------------------------------------------------------
(* Signals.                                                                  *)

(* sig_chld of serv01: the handler starts, with the signal no longer pending;*)
(* a child that ends meanwhile makes it pending again.                       *)
SigChld ==
  /\ sigchld /\ ~handler
  /\ sigchld' = FALSE
  /\ handler' = TRUE
  /\ UNCHANGED <<kind, netVars, pc, conn, lock, sigterm, blame>>

Zombies == {w \in Workers : pc[w] = "zombie"}

(* Mutant: wait for one child per signal. *)
WaitPid_Once ==
  /\ handler
  /\ \E w \in Zombies : Goto(w, "reaped")
  /\ handler' = FALSE
  /\ UNCHANGED <<kind, netVars, conn, lock, sigchld, sigterm, blame>>

(* waitpid(-1, &stat, WNOHANG), until there is no child to wait for. *)
WaitPid ==
  /\ handler
  /\ \/ \E w \in Zombies : Goto(w, "reaped") /\ UNCHANGED handler
     \/ Zombies = {} /\ handler' = FALSE /\ UNCHANGED pc
  /\ UNCHANGED <<kind, netVars, conn, lock, sigchld, sigterm, blame>>

(* SIGINT: the servers with children made in advance terminate them, unless  *)
(* main has not yet come to catch the signal; the others exit.               *)
SigInt ==
  /\ pc[Main] \notin {"kill", "wait", "ended"}
  /\ IF Preforked /\ pc[Main] = "pause"
     THEN Goto(Main, "kill") /\ UNCHANGED <<conn, lock, sigVars>>
     ELSE EndMain("sigint")
  /\ UNCHANGED <<kind, netVars>>

(* Mutant: the first child is not terminated. *)
KillAll_NotFirst ==
  /\ At(Main, "kill")
  /\ sigterm' = {w \in Crew : w > 1 /\ pc[w] \notin Gone}
  /\ Goto(Main, "wait")
  /\ UNCHANGED <<kind, netVars, conn, lock, sigchld, handler, blame>>

(* kill(pids[i], SIGTERM) for all children, dead or alive. *)
KillAll ==
  /\ At(Main, "kill")
  /\ sigterm' = {w \in Crew : pc[w] \notin Gone}
  /\ Goto(Main, "wait")
  /\ UNCHANGED <<kind, netVars, conn, lock, sigchld, handler, blame>>

(* SIGTERM ends a child wherever it is. *)
Terminate(w) ==
  /\ w \in sigterm
  /\ EndChild(w, "sigint")
  /\ UNCHANGED <<kind, netVars>>

(* while (wait(NULL) > 0), then exit. *)
WaitAll ==
  /\ At(Main, "wait")
  /\ \/ \E w \in Zombies : Goto(w, "reaped") /\ UNCHANGED <<conn, lock, sigVars>>
     \/ (\A w \in Crew : pc[w] = "reaped") /\ EndMain("sigint")
  /\ UNCHANGED <<kind, netVars>>

Shutdown == KillAll \/ WaitAll
Handler  == SigChld \/ WaitPid

MainStep ==
  \/ MainAccept \/ Serve(Main) \/ IterativeClose \/ ForkChild \/ ForkClose
  \/ CreateThread \/ MakeWorker
-------------------------------------------------------------------------------
Init ==
  /\ kind \in Kinds
  /\ client = [c \in Conns |-> "new"]
  /\ backlog = {}
  /\ pc = [p \in Processes |-> IF p # Main THEN "none"
                               ELSE IF PerConn \/ kind = "iterative" THEN "accept"
                               ELSE "make"]
  /\ conn = [p \in Processes |-> NoConn]
  /\ lock = NoOne
  /\ sigchld = FALSE
  /\ sigterm = {}
  /\ handler = FALSE
  /\ blame = [c \in Conns |-> "none"]

Next ==
  \/ \E c \in Conns : Connect(c) \/ Request(c) \/ Broken(c)
  \/ \E p \in Processes : AcceptAborted(p) \/ CallFails(p)
  \/ \E w \in Workers : Worker(w) \/ Terminate(w)
  \/ MainStep \/ NoResources
  \/ Handler \/ SigInt \/ Shutdown

Spec == Init /\ [][Next]_vars

(* A process that can go on does.  A connected client writes its request and *)
(* notices a broken connection.  Nobody need connect, no signal need be      *)
(* sent, and nothing need fail.                                              *)
FairSpec ==
  /\ Spec
  /\ \A w \in Workers : WF_vars(Worker(w)) /\ WF_vars(Terminate(w))
  /\ WF_vars(MainStep) /\ WF_vars(Handler) /\ WF_vars(Shutdown)
  /\ \A c \in Conns : WF_vars(Request(c)) /\ WF_vars(Broken(c))
-------------------------------------------------------------------------------
(* A fault stays in the process it happens in.  An ordinary client whose     *)
(* connection was accepted loses it to SIGINT, to a failure of the process   *)
(* that had it in hand (serv01 cannot fork for it, serv03 cannot release its *)
(* lock), or to a thread of that process; never to a client that resets its  *)
(* connection or asks for too much, or to an error in accept or select, in   *)
(* another process; and nobody closes a connection it has not answered.      *)
FaultsContained ==
  \A c \in Ordinary : client[c] = "failed" =>
    \/ blame[c] = "sigint"
    \/ Threaded /\ blame[c] \notin {"none", "exit"}
    \/ kind = "fork" /\ blame[c] = "fork"
    \/ kind = "fcntl" /\ blame[c] = "unlock"

(* Nobody can accept any more: every child made in advance has failed, or    *)
(* one of serv04 has failed in accept and the others wait for its mutex.     *)
Abandoned ==
  \/ Preforked /\ \A w \in Crew : pc[w] \in Gone
  \/ kind = "mutex" /\ \E w \in Crew : lock = w /\ pc[w] \in Gone

(* Every request is answered, or its client finds the connection broken, and *)
(* the descriptors of its connection are closed in every process, with a     *)
(* lock around accept or without.  A client may wait for ever only if its    *)
(* connection was never accepted and nobody can accept any more: main keeps  *)
(* listenfd open and does not look after its children.  There are finitely   *)
(* many connections, so the others are all settled in the end.               *)
ConnAnswered ==
  []<>(\A c \in Ordinary :
         /\ client[c] = "waiting" => c \in backlog /\ Abandoned
         /\ client[c] = "done" => \A p \in Processes : conn[p] # c)

(* No child of serv01 stays a zombie, although SIGCHLD is not queued: two    *)
(* children that end together, or one that ends while the handler runs.      *)
Reaped == []<>(kind = "fork" => Zombies = {})

(* SIGINT to a server with children made in advance ends it, and no child,   *)
(* whether it waits for the lock, holds it, accepts or serves, survives it.  *)
ShutdownCompletes ==
  (pc[Main] = "kill") ~> (Down /\ \A w \in Crew : pc[w] = "reaped")
===============================================================================
