------------------------ MODULE DescriptorServerProps ------------------------
(*****************************************************************************)
(* What the descriptor-passing server of DescriptorServer guarantees.        *)
(*****************************************************************************)
EXTENDS DescriptorServer

(* Every variable has its type; in particular nsel never drops below 0. *)
TypeOK ==
  /\ pc \in {"make", "select", "accept", "pass", "close", "scan", "reap"} \cup Gone
  /\ i \in 0 .. NChildren
  /\ rset \subseteq Children
  /\ nsel \in 0 .. NChildren + 1
  /\ connfd \in Conns \cup {None}
  /\ status \in [Children -> {0, 1}]
  /\ count \in [Children -> Nat]
  /\ navail \in Int
  /\ backlog \in Seq(Conns)
  /\ down \in [Children -> Seq(Conns)]
  /\ up \in [Children -> Nat]
  /\ cpc \in [Children -> {"none", "read", "serve", "notify", "dying", "exited"}]
  /\ cconn \in [Children -> Conns \cup {None}]
  /\ killed \subseteq Children
  /\ arrived \in 0 .. MaxConns
  /\ served \subseteq Conns
  /\ lost \subseteq Conns

(* The server works: no child has ended, or is about to, and no SIGINT came. *)
Healthy ==
  /\ pc \notin Gone \cup {"reap"}
  /\ \A c \in Children : cpc[c] \notin {"dying", "exited"}

Passing(c) == IF pc = "pass" /\ i = c THEN 1 ELSE 0
Working(c) == IF cpc[c] \in {"serve", "notify"} THEN 1 ELSE 0

(* What keeps child c busy: a connection on its way to it or being served,   *)
(* or a ready byte on its way back.                                          *)
Tokens(c)  == Passing(c) + Len(down[c]) + Working(c) + up[c]

(* The parent's books follow the children although they lag behind: a child  *)
(* marked busy has exactly one thing to do or to report, a child marked free *)
(* has none, navail is the number of free children, and so accept finds a    *)
(* free child ("no available children" is never reached).                    *)
Books ==
  Healthy =>
    /\ navail = Cardinality(Free)
    /\ \A c \in Children : status[c] = Tokens(c)
    /\ pc = "accept" => Free # {}

(* What select reported is still so when the parent acts on it: the Read of  *)
(* a pipe never blocks, and nsel is the number of descriptors it has not yet *)
(* looked at, so that the two `all done with select() results' exits are     *)
(* taken after the last one and not earlier or later.                        *)
SelectFresh ==
  /\ pc \in {"accept", "pass", "close", "scan"} => \A c \in rset : Readable(c)
  /\ pc \in {"accept", "pass", "close"} => nsel = Cardinality(rset) + 1
  /\ pc = "scan" => nsel = Cardinality(rset) /\ rset # {}

(* Where the parent and the children can be while the parent makes or        *)
(* chooses a child, and that a child that serves has a connection.           *)
Phases ==
  /\ pc = "make" =>
       /\ killed = {}
       /\ \A c \in Children : status[c] = 0 /\ (c >= i => cpc[c] = "none")
  /\ pc = "pass" => i \in Children /\ connfd # None
  /\ \A c \in Children : cpc[c] = "serve" => cconn[c] # None

(* What every step of the server preserves. *)
IndInv == TypeOK /\ Phases /\ SelectFresh /\ Books

InFlight == UNION {Members(down[c]) : c \in Children}
Held     == {cconn[c] : c \in Children} \ {None}
Settled  == InFlight \cup Held \cup served \cup lost
InHand   == {connfd} \ ({None} \cup Settled)

(* Every connection is in one place: queued, with the parent, on its way to  *)
(* one child, open in one child, served to its end, or lost with a process;  *)
(* no connection is passed to two children or served twice.                  *)
ConnAccounting ==
  /\ Members(backlog) \cup InHand \cup Settled = 1 .. arrived
  /\ Members(backlog) \cap (InHand \cup Settled) = {}
  /\ InFlight \cap (Held \cup served \cup lost) = {}
  /\ Held \cap (served \cup lost) = {}
  /\ served \cap lost = {}
  /\ \A c, d \in Children : c # d =>
       /\ Members(down[c]) \cap Members(down[d]) = {}
       /\ cconn[c] = cconn[d] => cconn[c] = None
-------------------------------------------------------------------------------
(* Why no connection gets lost or doubled: where each one is.                *)

Distinct(s) == \A a, b \in 1 .. Len(s) : s[a] = s[b] => a = b

Waiting == Members(backlog)
Sent(c) == Members(down[c])
Over    == served \cup lost

(* The parent has passed k on, or nobody needs to any more. *)
Passed(k) ==
  k \in Over \/ \E c \in Children : k \in Sent(c) \/ cconn[c] = k

(* The places of the connections do not overlap, except that the parent      *)
(* still has the one it passed last until it closes it.                      *)
Places ==
  /\ \A k \in Conns :
       k <= arrived <=> k \in Waiting \/ k = connfd \/ Passed(k)
  /\ \A k \in Waiting : k # connfd /\ ~Passed(k)
  /\ \A c \in Children : \A k \in Sent(c) :
       /\ k \notin Over
       /\ \A d \in Children : cconn[d] # k /\ (d # c => k \notin Sent(d))
  /\ \A c \in Children : cconn[c] # None =>
       /\ cconn[c] \notin Over
       /\ \A d \in Children : d # c => cconn[d] # cconn[c]
  /\ served \cap lost = {}
  /\ pc = "pass" => ~Passed(connfd)
  /\ pc \notin {"pass", "reap"} => connfd = None \/ Passed(connfd)

(* No queue holds a connection twice, only a child that serves has one open, *)
(* and nothing is in flight to a child that has ended.                       *)
Shapes ==
  /\ Distinct(backlog)
  /\ \A c \in Children :
       /\ Distinct(down[c])
       /\ cpc[c] \notin {"serve", "dying"} => cconn[c] = None
       /\ cpc[c] = "exited" => down[c] = <<>>
-------------------------------------------------------------------------------
(* Liveness.  A request may take for ever; RequestsEnd says it does not.     *)

RequestsEnd == \A c \in Children : []<>(cpc[c] # "serve")

(* Every connection is served, or its client gives up, or the process that   *)
(* has it ends: none is forgotten in the backlog, in a pipe or by a busy     *)
(* parent.                                                                   *)
ConnServed ==
  RequestsEnd =>
    \A c \in Conns : (arrived >= c) ~> (c \in served \cup lost)

Stuck == pc = "accept" /\ backlog = <<>>

(* `child %d terminated unexpectedly': when a child ends the parent ends,    *)
(* unless it is blocked in accept by a client that gave up after select.     *)
FailureNoticed ==
  (\E c \in Children : Ended(c)) ~> (pc \in Gone \/ Stuck)

(* When the parent ends, however it does, each child ends once it is idle,   *)
(* although the children hold copies of each other's pipes.                  *)
Shutdown ==
  RequestsEnd =>
    ((pc \in Gone) ~> (\A c \in Children : cpc[c] \in {"none", "exited"}))
-------------------------------------------------------------------------------
(* child.h:4 says of child_status `0 = ready': the child waits for the next  *)
(* connection.                                                               *)
ReadyIsReady ==
  pc \notin {"make", "reap"} \cup Gone =>
    \A c \in Children : status[c] = 0 => cpc[c] = "read"
===============================================================================
