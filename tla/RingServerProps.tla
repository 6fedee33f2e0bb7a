--------------------------- MODULE RingServerProps ---------------------------
(*****************************************************************************)
(* What the ring of RingServer guarantees.                                   *)
(*****************************************************************************)
EXTENDS RingServer

(* Every variable has its type; in particular both indices stay in the ring. *)
TypeOK ==
  /\ iput \in Slots /\ iget \in Slots
  /\ clifd \in [Slots -> 0 .. accepted]
  /\ mutex \in Threads \cup {Main, NoOwner}
  /\ mpc \in {"accept", "put", "unlock"}
  /\ mconn \in 0 .. accepted
  /\ pc \in [Threads -> {"lock", "blocked", "unlock", "serve"}]
  /\ conn \in [Threads -> 0 .. accepted]
  /\ thread_count \in [Threads -> Nat]
  /\ accepted \in Nat
  /\ served \subseteq 1 .. accepted
  /\ process \in {"running", "overflow", "failed", "stopped"}

(* The slot of the k-th oldest connection in the ring. *)
Slot(k) == IF iget + k - 1 < MAXNCLI THEN iget + k - 1 ELSE iget + k - 1 - MAXNCLI

(* The connections in the ring, oldest first. *)
Size == IF iget <= iput THEN iput - iget ELSE iput - iget + MAXNCLI
Waiting == [k \in 1 .. Size |-> clifd[Slot(k)]]

(* How many connections were put into the ring. *)
PutCount == IF mconn = None THEN accepted ELSE accepted - 1

Taken == {conn[t] : t \in Threads} \ {None}

(* While the server runs, every accepted connection is in one place: still   *)
(* with the main thread, in the ring, with one thread, or closed.  The ring  *)
(* holds the newest ones in order, so they are taken first in, first out,    *)
(* and no slot is overwritten before it was taken.                           *)
RingAccounting ==
  Running =>
    /\ \A k \in 1 .. Size : Waiting[k] = PutCount - Size + k
    /\ Taken \cup served = 1 .. (PutCount - Size)
    /\ Taken \cap served = {}
    /\ \A t, u \in Threads : t # u /\ conn[t] = conn[u] => conn[t] = None

(* No wakeup is lost: if a thread sleeps, then as many threads are awake and *)
(* on their way to the ring as it holds connections.                         *)
WakeupPerConn ==
  Running /\ (\E t \in Threads : pc[t] = "blocked") =>
    Size <= Cardinality({t \in Threads : pc[t] = "lock"})

(* err_quit("iput = iget"): the server gives up only when MAXNCLI            *)
(* connections are waiting, none of which was lost or taken.                 *)
OverflowIsFull ==
  process = "overflow" =>
    /\ iput = iget
    /\ \A k \in 1 .. MAXNCLI : clifd[Slot(k)] = accepted - MAXNCLI + k

(* Who has a connection in hand. *)
InHand ==
  Running =>
    /\ Size <= PutCount
    /\ mpc = "put" <=> mconn # None
    /\ mconn # None => mconn = accepted
    /\ \A t \in Threads : conn[t] # None <=> pc[t] \in {"unlock", "serve"}

(* What every step of the server preserves. *)
IndInv ==
  TypeOK /\ InHand /\ RingAccounting /\ WakeupPerConn /\ OverflowIsFull

(* The ring implements the queue of ConnQueue with room for MAXNCLI - 1.     *)
Queue == INSTANCE ConnQueue WITH
  Capacity <- MAXNCLI - 1,
  queued   <- IF Running THEN Waiting ELSE <<>>,
  arrivals <- PutCount,
  open     <- Running
ImplementsConnQueue == Queue!Spec

IdleThread == \E t \in Threads : pc[t] # "serve"

(* A connection does not wait while a thread is idle, even if the requests   *)
(* being served never end.                                                   *)
ConnTaken ==
  (Size > 0 /\ IdleThread) ~> (Size = 0 \/ ~IdleThread \/ ~Running)

RequestsEnd == \A t \in Threads : []<>(pc[t] # "serve")

(* If requests end, every accepted connection is served and closed, unless   *)
(* the process ends.                                                         *)
ConnServed ==
  RequestsEnd => \A c \in 1 .. MaxConns : (accepted >= c) ~> (c \in served \/ ~Running)
===============================================================================
