--------------------------- MODULE DescriptorServer ---------------------------
(*****************************************************************************)
(* The preforked server of person/client_server/serv05.c and child05.c.  The *)
(* parent accepts connections and passes each one, over a stream pipe, to a  *)
(* child it believes to be free; a child that is done writes one byte back.  *)
(*                                                                           *)
(* The child's end of the pipe is its standard error (dup2, child05.c:22),   *)
(* so the message of a fatal error is written to the parent as well.  And a  *)
(* child inherits the parent's ends of the pipes made before it, which       *)
(* decides who sees an end of file when the parent ends.                     *)
(*****************************************************************************)
EXTENDS Integers, Sequences, FiniteSets

CONSTANTS
  NChildren,       \* nchildren
  MaxConns,        \* bound: how many connections are ever made
  MsgLen,          \* the length of an error message
  MayFail          \* may fork and the requests fail?

Children == 0 .. NChildren - 1
Conns    == 1 .. MaxConns       \* in the order of their arrival
Listen   == -1                  \* listenfd among the descriptors of select
None     == 0                   \* no connection

ASSUME ServerAssumption ==
  /\ NChildren \in Nat
  /\ MaxConns \in Nat
  /\ MsgLen \in Nat \ {0}
  /\ MayFail \in BOOLEAN

VARIABLES
  pc,        \* where the parent is
  i,         \* its loop index
  rset,      \* the ready descriptors it has not looked at
  nsel,      \* how many select reported, less the ones handled
  connfd,    \* the connection the parent has open
  status,    \* child_status of each child
  count,     \* child_count of each child
  navail,    \* navail
  backlog,   \* the connections the listening socket queues
  down,      \* the connections in flight from the parent to each child
  up,        \* how many bytes are in flight from each child to the parent
  cpc,       \* where each child is
  cconn,     \* the connection each child has open
  killed,    \* the children that were sent SIGTERM
  arrived,   \* how many connections were made
  served,    \* the connections whose clients were served to the end
  lost       \* the connections that ended otherwise

tableVars  == <<status, count, navail>>
parentVars == <<pc, i, rset, nsel, connfd>>
childVars  == <<cpc, cconn, killed>>
pipeVars   == <<down, up>>
connVars   == <<backlog, arrived, served, lost>>
vars == <<parentVars, tableVars, childVars, pipeVars, connVars>>

Gone == {"quit", "done"}        \* the parent has ended
Running == pc \notin Gone
Ended(c) == cpc[c] = "exited"

Members(s) == {s[k] : k \in 1 .. Len(s)}
First(x, S) == x \in S /\ \A y \in S : x <= y
-------------------------------------------------------------------------------
(* The clients.                                                              *)

Connect ==
  /\ Running
  /\ arrived < MaxConns
  /\ arrived' = arrived + 1
  /\ backlog' = Append(backlog, arrived')
  /\ UNCHANGED <<served, lost, parentVars, tableVars, childVars, pipeVars>>

(* A client, the k-th in the queue, gives up before it is accepted. *)
Abort(k) ==
  /\ k <= Len(backlog)
  /\ backlog' = SubSeq(backlog, 1, k - 1) \o SubSeq(backlog, k + 1, Len(backlog))
  /\ lost' = lost \cup {backlog[k]}
  /\ UNCHANGED <<arrived, served, parentVars, tableVars, childVars, pipeVars>>
-------------------------------------------------------------------------------
(* The parent.                                                               *)

(* The parent ends: its descriptors are closed, the backlog is refused. *)
ParentEnds(how, refused) ==
  /\ pc' = how
  /\ connfd' = None
  /\ backlog' = <<>>
  /\ lost' = lost \cup refused \cup Members(backlog)

(* child_make for the next child, and the end of that loop. *)
MakeChild ==
  /\ pc = "make"
  /\ IF i < NChildren
     THEN /\ status' = [status EXCEPT ![i] = 0]
          /\ cpc' = [cpc EXCEPT ![i] = "read"]
          /\ i' = i + 1
          /\ UNCHANGED pc
     ELSE /\ pc' = "select"
          /\ UNCHANGED <<i, status, cpc>>
  /\ UNCHANGED <<rset, nsel, connfd, count, navail, cconn, killed, pipeVars,
                 connVars>>

(* Socketpair, Fork, Select or Accept fails: err_sys. *)
CallFails ==
  /\ MayFail
  /\ pc \in {"make", "select", "accept"}
  /\ pc = "make" => i < NChildren
  /\ ParentEnds("quit", {})
  /\ UNCHANGED <<i, rset, nsel, arrived, served, tableVars, childVars, pipeVars>>

(* A pipe is readable when there are bytes in it or its child has ended. *)
Readable(c) == up[c] > 0 \/ Ended(c)

(* Mutant: listenfd stays in the set. *)
SelectSet_Listen ==
  {c \in Children : Readable(c)} \cup (IF backlog # <<>> THEN {Listen} ELSE {})

(* The descriptors select reports; listenfd is turned off if navail <= 0. *)
SelectSet ==
  {c \in Children : Readable(c)}
    \cup (IF navail > 0 /\ backlog # <<>> THEN {Listen} ELSE {})

Select ==
  /\ pc = "select"
  /\ SelectSet # {}
  /\ rset' = SelectSet \ {Listen}
  /\ nsel' = Cardinality(SelectSet)
  /\ pc' = IF Listen \in SelectSet THEN "accept" ELSE "scan"
  /\ UNCHANGED <<i, connfd, tableVars, childVars, pipeVars, connVars>>

Free == {c \in Children : status[c] = 0}

(* accept, which blocks if the client has given up, and the choice of the    *)
(* first child with status 0: err_quit when there is none.                   *)
Accept ==
  /\ pc = "accept"
  /\ backlog # <<>>
  /\ IF Free = {}
     THEN /\ ParentEnds("quit", {})
          /\ UNCHANGED <<i, tableVars>>
     ELSE /\ connfd' = Head(backlog)
          /\ backlog' = Tail(backlog)
          /\ \E c \in Children :
               /\ First(c, Free)
               /\ i' = c
               /\ status' = [status EXCEPT ![c] = 1]
               /\ count' = [count EXCEPT ![c] = @ + 1]
          /\ navail' = navail - 1
          /\ pc' = "pass"
          /\ UNCHANGED lost
  /\ UNCHANGED <<rset, nsel, arrived, served, childVars, pipeVars>>

(* Mutant: the failure of Write_fd is ignored. *)
Pass_Ignore ==
  /\ pc = "pass"
  /\ down' = IF Ended(i) THEN down ELSE [down EXCEPT ![i] = Append(@, connfd)]
  /\ pc' = "close"
  /\ UNCHANGED <<i, rset, nsel, connfd, up, tableVars, childVars, connVars>>

(* Write_fd; writing to a child that has ended ends the parent (SIGPIPE). *)
Pass ==
  /\ pc = "pass"
  /\ IF Ended(i)
     THEN /\ ParentEnds("quit", {connfd})
          /\ UNCHANGED down
     ELSE /\ down' = [down EXCEPT ![i] = Append(@, connfd)]
          /\ pc' = "close"
          /\ UNCHANGED <<connfd, backlog, lost>>
  /\ UNCHANGED <<i, rset, nsel, up, arrived, served, tableVars, childVars>>

(* Mutants: nsel is decremented twice, or not at all. *)
CloseConn_Twice ==
  /\ pc = "close"
  /\ connfd' = None
  /\ nsel' = nsel - 2
  /\ pc' = IF nsel' = 0 THEN "select" ELSE "scan"
  /\ UNCHANGED <<i, rset, tableVars, childVars, pipeVars, connVars>>
CloseConn_Forget ==
  /\ pc = "close"
  /\ connfd' = None
  /\ pc' = "scan"
  /\ UNCHANGED <<i, nsel, rset, tableVars, childVars, pipeVars, connVars>>

(* Close(connfd), and `continue' when that was the only ready descriptor. *)
CloseConn ==
  /\ pc = "close"
  /\ connfd' = None
  /\ nsel' = nsel - 1
  /\ pc' = IF nsel' = 0 THEN "select" ELSE "scan"
  /\ UNCHANGED <<i, rset, tableVars, childVars, pipeVars, connVars>>

(* Mutant: an end of file is passed over. *)
Scan_IgnoreEof ==
  /\ pc = "scan"
  /\ \E c \in Children :
       /\ First(c, rset)
       /\ i' = c
       /\ rset' = rset \ {c}
       /\ up' = [up EXCEPT ![c] = IF @ = 0 THEN 0 ELSE @ - 1]
       /\ status' = [status EXCEPT ![c] = IF up[c] = 0 THEN @ ELSE 0]
       /\ navail' = IF up[c] = 0 THEN navail ELSE navail + 1
  /\ nsel' = nsel - 1
  /\ pc' = IF nsel' = 0 THEN "select" ELSE "scan"
  /\ UNCHANGED <<count, connfd, down, connVars, childVars>>

(* The next ready child: its byte says it is free again; an end of file is   *)
(* fatal.                                                                    *)
Scan ==
  /\ pc = "scan"
  /\ \E c \in Children :
       /\ First(c, rset)
       /\ i' = c
       /\ IF up[c] = 0
          THEN /\ ParentEnds("quit", {})
               /\ UNCHANGED <<rset, nsel, up, status, navail>>
          ELSE /\ up' = [up EXCEPT ![c] = @ - 1]
               /\ status' = [status EXCEPT ![c] = 0]
               /\ navail' = navail + 1
               /\ nsel' = nsel - 1
               /\ rset' = rset \ {c}
               /\ pc' = IF nsel' = 0 THEN "select" ELSE "scan"
               /\ UNCHANGED <<connfd, backlog, lost>>
  /\ UNCHANGED <<count, down, arrived, served, childVars>>

(* sig_int: kill all children, wait for them, exit. *)
SigInt ==
  /\ pc \in {"select", "accept", "pass", "close", "scan"}
  /\ pc' = "reap"
  /\ killed' = Children
  /\ UNCHANGED <<i, rset, nsel, connfd, cpc, cconn, tableVars, pipeVars, connVars>>

Reap ==
  /\ pc = "reap"
  /\ \A c \in Children : Ended(c)
  /\ ParentEnds("done", {connfd} \ ({None} \cup served))
  /\ UNCHANGED <<i, rset, nsel, arrived, served, tableVars, childVars, pipeVars>>
-------------------------------------------------------------------------------
(* The children.                                                             *)

(* Mutant: the child keeps its copy of the parent's end of its own pipe. *)
PipeOpen_OwnCopy(c) ==
  Running \/ \E d \in Children : d >= c /\ cpc[d] \notin {"none", "exited"}

(* Is the parent's end of c's pipe open?  The parent has it, and so has each *)
(* child that was forked after c, which inherits it and never closes it.     *)
PipeOpen(c) ==
  Running \/ \E d \in Children : d > c /\ cpc[d] \notin {"none", "exited"}

ChildEnds(c) ==
  /\ cpc' = [cpc EXCEPT ![c] = "exited"]
  /\ cconn' = [cconn EXCEPT ![c] = None]
  /\ lost' = lost \cup ({cconn[c]} \ {None}) \cup Members(down[c])
  /\ down' = [down EXCEPT ![c] = <<>>]

(* Read_fd returns a connection, or 0 at the end of file, which is fatal. *)
ChildRead(c) ==
  /\ cpc[c] = "read"
  /\ \/ /\ down[c] # <<>>
        /\ cconn' = [cconn EXCEPT ![c] = Head(down[c])]
        /\ down' = [down EXCEPT ![c] = Tail(@)]
        /\ cpc' = [cpc EXCEPT ![c] = "serve"]
        /\ UNCHANGED lost
     \/ /\ down[c] = <<>>
        /\ ~PipeOpen(c)
        /\ ChildEnds(c)
  /\ UNCHANGED <<up, killed, backlog, arrived, served, parentVars, tableVars>>

(* web_child returns when the client has closed; Close(connfd). *)
ServeReturn(c) ==
  /\ cpc[c] = "serve"
  /\ served' = served \cup {cconn[c]}
  /\ cconn' = [cconn EXCEPT ![c] = None]
  /\ cpc' = [cpc EXCEPT ![c] = "notify"]
  /\ UNCHANGED <<killed, backlog, arrived, lost, parentVars, tableVars, pipeVars>>

(* web_child or a wrapper it calls ends the child: with a message, which     *)
(* goes to standard error, or without one (SIGPIPE).                         *)
ServeFails(c) ==
  /\ MayFail
  /\ cpc[c] = "serve"
  /\ \/ /\ PipeOpen(c)
        /\ up' = [up EXCEPT ![c] = @ + MsgLen]
        /\ cpc' = [cpc EXCEPT ![c] = "dying"]
        /\ UNCHANGED <<cconn, down, lost>>
     \/ ChildEnds(c) /\ UNCHANGED up
  /\ UNCHANGED <<killed, backlog, arrived, served, parentVars, tableVars>>

(* Mutant: the child does not tell the parent. *)
Notify_Silent(c) ==
  /\ cpc[c] = "notify"
  /\ cpc' = [cpc EXCEPT ![c] = "read"]
  /\ UNCHANGED <<cconn, killed, pipeVars, connVars, parentVars, tableVars>>

(* Tell the parent we are ready again; SIGPIPE if nobody can read it. *)
Notify(c) ==
  /\ cpc[c] = "notify"
  /\ IF PipeOpen(c)
     THEN /\ up' = [up EXCEPT ![c] = @ + 1]
          /\ cpc' = [cpc EXCEPT ![c] = "read"]
          /\ UNCHANGED <<cconn, down, lost>>
     ELSE ChildEnds(c) /\ UNCHANGED up
  /\ UNCHANGED <<killed, backlog, arrived, served, parentVars, tableVars>>

(* exit after the message, or the default action of SIGTERM. *)
Exit(c) ==
  /\ \/ cpc[c] = "dying"
     \/ c \in killed /\ cpc[c] # "exited"
  /\ ChildEnds(c)
  /\ UNCHANGED <<up, killed, backlog, arrived, served, parentVars, tableVars>>
-------------------------------------------------------------------------------
Init ==
  /\ pc = "make"
  /\ i = 0
  /\ rset = {}
  /\ nsel = 0
  /\ connfd = None
  /\ status = [c \in Children |-> 0]
  /\ count = [c \in Children |-> 0]
  /\ navail = NChildren
  /\ backlog = <<>>
  /\ down = [c \in Children |-> <<>>]
  /\ up = [c \in Children |-> 0]
  /\ cpc = [c \in Children |-> "none"]
  /\ cconn = [c \in Children |-> None]
  /\ killed = {}
  /\ arrived = 0
  /\ served = {}
  /\ lost = {}

Handover == Accept \/ Pass \/ CloseConn
ParentStep == MakeChild \/ Select \/ Handover \/ Scan \/ Reap
ChildStep(c) == ChildRead(c) \/ Notify(c) \/ Exit(c)

Next ==
  \/ Connect
  \/ \E k \in 1 .. MaxConns : Abort(k)
  \/ ParentStep \/ CallFails \/ SigInt
  \/ \E c \in Children : ChildStep(c) \/ ServeReturn(c) \/ ServeFails(c)

Spec == Init /\ [][Next]_vars

(* Every process that can go on does.  Clients need not connect or close. *)
FairSpec ==
  /\ Spec
  /\ WF_vars(ParentStep)
  /\ \A c \in Children : WF_vars(ChildStep(c))
===============================================================================
