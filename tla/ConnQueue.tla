------------------------------- MODULE ConnQueue -------------------------------
(*****************************************************************************)
(* What the ring of serv08.c promises: a queue of connections with room for  *)
(* Capacity of them.  A connection more than that ends the server.           *)
(*****************************************************************************)
EXTENDS Naturals, Sequences

CONSTANT Capacity

VARIABLES
  queued,    \* the connections that wait for a thread, oldest first
  arrivals,  \* how many connections were accepted and are queued or taken
  open       \* is the server running?

vars == <<queued, arrivals, open>>

Init ==
  /\ queued = <<>>
  /\ arrivals = 0
  /\ open = TRUE

(* Connections are queued in the order of their arrival. *)
Enqueue ==
  /\ open
  /\ Len(queued) < Capacity
  /\ arrivals' = arrivals + 1
  /\ queued' = Append(queued, arrivals')
  /\ UNCHANGED open

Dequeue ==
  /\ open
  /\ queued # <<>>
  /\ queued' = Tail(queued)
  /\ UNCHANGED <<arrivals, open>>

(* The server may be stopped, and must stop when a connection finds the      *)
(* queue full.                                                               *)
Close ==
  /\ open
  /\ open' = FALSE
  /\ queued' = <<>>
  /\ UNCHANGED arrivals

Next == Enqueue \/ Dequeue \/ Close

Spec == Init /\ [][Next]_vars
===============================================================================
