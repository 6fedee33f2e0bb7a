------------------------------ MODULE RingServer ------------------------------
(*****************************************************************************)
(* The prethreaded server of person/client_server/serv08.c and pthread08.c.  *)
(* The main thread accepts connections and puts them into the ring clifd;    *)
(* the other threads take them out and serve them.                           *)
(*                                                                           *)
(* A mutex is locked in one step with the statements it guards; the unlock   *)
(* is a step of its own.  A fatal error in any thread ends the process.      *)
(*****************************************************************************)
EXTENDS Integers, Sequences, FiniteSets

CONSTANTS
  NThreads,    \* nthreads
  MAXNCLI,     \* the size of the ring
  MaxConns,    \* bound: how many connections are ever made
  MayFail      \* may a request end the process?

Threads == 0 .. NThreads - 1
Slots   == 0 .. MAXNCLI - 1
Main    == -1
NoOwner == -2
None    == 0     \* no connection; connections are numbered as accepted

ASSUME RingAssumption ==
  /\ NThreads \in Nat
  /\ MAXNCLI \in Nat \ {0}
  /\ MaxConns \in Nat
  /\ MayFail \in BOOLEAN

VARIABLES
  clifd, iput, iget,  \* the ring
  mutex,              \* the owner of clifd_mutex
  mpc,                \* where the main thread is
  mconn,              \* its connfd
  pc,                 \* where each thread is
  conn,               \* connfd of each thread
  thread_count,       \* thread_count of each thread
  accepted,           \* how many connections were accepted
  served,             \* the connections that were served and closed
  process             \* "running", "overflow", "failed" or "stopped"

ringVars == <<clifd, iput, iget>>
vars == <<ringVars, mutex, mpc, mconn, pc, conn, thread_count, accepted,
          served, process>>

Running == process = "running"

(* Mutant: no wrap-around. *)
NextSlot_NoWrap(k) == k + 1

(* if (++k == MAXNCLI) k = 0; *)
NextSlot(k) == IF k + 1 = MAXNCLI THEN 0 ELSE k + 1
-------------------------------------------------------------------------------
(* The main thread.                                                          *)

Accept ==
  /\ Running
  /\ mpc = "accept"
  /\ accepted < MaxConns
  /\ accepted' = accepted + 1
  /\ mconn' = accepted'
  /\ mpc' = "put"
  /\ UNCHANGED <<ringVars, mutex, pc, conn, thread_count, served, process>>

(* pthread_cond_signal wakes one of the threads that wait. *)
Signal ==
  LET blocked == {t \in Threads : pc[t] = "blocked"}
  IN  \/ blocked = {} /\ UNCHANGED pc
      \/ \E t \in blocked : pc' = [pc EXCEPT ![t] = "lock"]

(* Mutants: signal only when the ring was empty, or never. *)
PutSignal_WasEmpty == IF iput = iget THEN Signal ELSE UNCHANGED pc
PutSignal_Never == UNCHANGED pc

(* Every put signals. *)
PutSignal == Signal

(* Mutants: the ring may become full; the test comes one put too early. *)
Overflow_Never == FALSE
Overflow_Early == NextSlot(NextSlot(iput)) = iget

(* iput == iget after the increment: err_quit. *)
Overflow == NextSlot(iput) = iget

Put ==
  /\ Running
  /\ mpc = "put"
  /\ mutex = NoOwner
  /\ clifd' = [clifd EXCEPT ![iput] = mconn]
  /\ iput' = NextSlot(iput)
  /\ mutex' = Main
  /\ IF Overflow
     THEN process' = "overflow" /\ UNCHANGED <<mpc, mconn, pc>>
     ELSE PutSignal /\ mpc' = "unlock" /\ mconn' = None /\ UNCHANGED process
  /\ UNCHANGED <<iget, conn, thread_count, accepted, served>>

PutUnlock ==
  /\ Running
  /\ mpc = "unlock"
  /\ mutex' = NoOwner
  /\ mpc' = "accept"
  /\ UNCHANGED <<ringVars, mconn, pc, conn, thread_count, accepted, served, process>>

(* sig_int: exit, which ends all threads. *)
SigInt ==
  /\ Running
  /\ process' = "stopped"
  /\ UNCHANGED <<ringVars, mutex, mpc, mconn, pc, conn, thread_count, accepted, served>>
-------------------------------------------------------------------------------
(* thread_main.                                                              *)

(* The thread has clifd_mutex and looks at the ring; pthread_cond_wait       *)
(* releases the mutex, and the loop tests again afterwards.                  *)
Get(t) ==
  /\ Running
  /\ pc[t] = "lock"
  /\ mutex = NoOwner
  /\ IF iget = iput
     THEN pc' = [pc EXCEPT ![t] = "blocked"] /\ UNCHANGED <<conn, iget, mutex>>
     ELSE /\ conn' = [conn EXCEPT ![t] = clifd[iget]]
          /\ iget' = NextSlot(iget)
          /\ mutex' = t
          /\ pc' = [pc EXCEPT ![t] = "unlock"]
  /\ UNCHANGED <<clifd, iput, mpc, mconn, thread_count, accepted, served, process>>

GetUnlock(t) ==
  /\ Running
  /\ pc[t] = "unlock"
  /\ mutex' = NoOwner
  /\ pc' = [pc EXCEPT ![t] = "serve"]
  /\ thread_count' = [thread_count EXCEPT ![t] = @ + 1]
  /\ UNCHANGED <<ringVars, mpc, mconn, conn, accepted, served, process>>

(* web_child returns; Close(connfd). *)
ServeReturn(t) ==
  /\ Running
  /\ pc[t] = "serve"
  /\ served' = served \cup {conn[t]}
  /\ conn' = [conn EXCEPT ![t] = None]
  /\ pc' = [pc EXCEPT ![t] = "lock"]
  /\ UNCHANGED <<ringVars, mutex, mpc, mconn, thread_count, accepted, process>>

(* err_quit or err_sys in web_child ends the process. *)
ServeFails(t) ==
  /\ Running
  /\ MayFail
  /\ pc[t] = "serve"
  /\ process' = "failed"
  /\ UNCHANGED <<ringVars, mutex, mpc, mconn, pc, conn, thread_count, accepted, served>>

(* POSIX lets pthread_cond_wait return without a signal. *)
SpuriousWakeup(t) ==
  /\ Running
  /\ pc[t] = "blocked"
  /\ pc' = [pc EXCEPT ![t] = "lock"]
  /\ UNCHANGED <<ringVars, mutex, mpc, mconn, conn, thread_count, accepted,
                 served, process>>
-------------------------------------------------------------------------------
(* The threads are created before the first accept. *)
Init ==
  /\ clifd = [k \in Slots |-> None]
  /\ iput = 0
  /\ iget = 0
  /\ mutex = NoOwner
  /\ mpc = "accept"
  /\ mconn = None
  /\ pc = [t \in Threads |-> "lock"]
  /\ conn = [t \in Threads |-> None]
  /\ thread_count = [t \in Threads |-> 0]
  /\ accepted = 0
  /\ served = {}
  /\ process = "running"

MainStep == Put \/ PutUnlock
ThreadStep(t) == Get(t) \/ GetUnlock(t)

Next ==
  \/ Accept \/ MainStep \/ SigInt
  \/ \E t \in Threads :
       ThreadStep(t) \/ ServeReturn(t) \/ ServeFails(t) \/ SpuriousWakeup(t)

Spec == Init /\ [][Next]_vars

(* Every thread that can go on does, and gets the mutex in the end: it is    *)
(* held for a few instructions only.  Requests need not end.                 *)
FairSpec ==
  /\ Spec
  /\ SF_vars(MainStep)
  /\ \A t \in Threads : SF_vars(ThreadStep(t))
===============================================================================
