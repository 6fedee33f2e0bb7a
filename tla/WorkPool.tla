------------------------------- MODULE WorkPool -------------------------------
(*****************************************************************************)
(* What thpool.h promises to the program, without threads, mutexes or        *)
(* semaphores: jobs are submitted, started first in first out by at most     *)
(* Capacity threads at once, and finish in any order; a waiter returns when  *)
(* every job submitted before its call has finished; only a pool that was    *)
(* closed may discard a job, and only when nothing is active any more.       *)
(*****************************************************************************)
EXTENDS Integers, Sequences, FiniteSets

CONSTANTS
  Capacity,  \* the number of threads
  Waiters    \* the threads that may wait

NotWaiting == -1

VARIABLES
  submitted,  \* how many jobs were submitted: the jobs are 1 .. submitted
  pending,    \* the jobs not yet started, oldest first
  active,     \* the jobs being executed
  done,       \* the jobs that finished
  discarded,  \* the jobs that will never be executed
  waiting,    \* what each waiter waits for: the jobs up to this one
  open        \* has the pool not been destroyed?

vars == <<submitted, pending, active, done, discarded, waiting, open>>

Init ==
  /\ submitted = 0
  /\ pending = <<>>
  /\ active = {}
  /\ done = {}
  /\ discarded = {}
  /\ waiting = [w \in Waiters |-> NotWaiting]
  /\ open = TRUE

Submit ==
  /\ submitted' = submitted + 1
  /\ pending' = Append(pending, submitted')
  /\ UNCHANGED <<active, done, discarded, waiting, open>>

Start ==
  /\ pending # <<>>
  /\ Cardinality(active) < Capacity
  /\ active' = active \cup {Head(pending)}
  /\ pending' = Tail(pending)
  /\ UNCHANGED <<submitted, done, discarded, waiting, open>>

Finish ==
  /\ \E j \in active : active' = active \ {j} /\ done' = done \cup {j}
  /\ UNCHANGED <<submitted, pending, discarded, waiting, open>>

Wait(w) ==
  /\ open
  /\ waiting[w] = NotWaiting
  /\ waiting' = [waiting EXCEPT ![w] = submitted]
  /\ UNCHANGED <<submitted, pending, active, done, discarded, open>>

Return(w) ==
  /\ waiting[w] # NotWaiting
  /\ 1 .. waiting[w] \subseteq done
  /\ waiting' = [waiting EXCEPT ![w] = NotWaiting]
  /\ UNCHANGED <<submitted, pending, active, done, discarded, open>>

Close ==
  /\ open
  /\ \A w \in Waiters : waiting[w] = NotWaiting
  /\ open' = FALSE
  /\ UNCHANGED <<submitted, pending, active, done, discarded, waiting>>

Discard ==
  /\ ~open
  /\ active = {}
  /\ pending # <<>>
  /\ discarded' = discarded \cup {Head(pending)}
  /\ pending' = Tail(pending)
  /\ UNCHANGED <<submitted, active, done, waiting, open>>

Next ==
  \/ Submit \/ Start \/ Finish \/ Close \/ Discard
  \/ \E w \in Waiters : Wait(w) \/ Return(w)

Spec == Init /\ [][Next]_vars
===============================================================================
