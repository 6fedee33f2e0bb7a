------------------------------- MODULE JobQueue -------------------------------
(*****************************************************************************)
(* The linked list behind jobqueue_push and jobqueue_pull of                 *)
(* person/thread_pool/thpool.c, with jobs that malloc puts at addresses free *)
(* gave back.  Each operation is one step: it runs under rwmutex.  ThreadPool*)
(* has the queue as a sequence, which ListIsQueue justifies.                 *)
(*****************************************************************************)
EXTENDS Naturals, Sequences

CONSTANTS Addrs, NULL

VARIABLES
  front, rear, len,  \* the fields of jobqueue
  prev,              \* the field prev at every address, allocated or not
  held,              \* the jobs that were pulled and not yet freed
  clearing,          \* does thpool_destroy run jobqueue_clear?
  order,             \* history: the queued jobs, oldest first
  got, due           \* history: what the last pull returned, and the oldest
                     \* job at that time
vars == <<front, rear, len, prev, held, clearing, order, got, due>>

Queued == {order[i] : i \in 1 .. Len(order)}

TypeOK ==
  /\ front \in Addrs \cup {NULL} /\ rear \in Addrs \cup {NULL}
  /\ len \in Nat
  /\ prev \in [Addrs -> Addrs \cup {NULL}]
  /\ held \subseteq Addrs
  /\ clearing \in BOOLEAN
  /\ order \in Seq(Addrs)
-------------------------------------------------------------------------------
(* Mutant: the new job is linked behind the front. *)
Push_AtFront(a) ==
  /\ ~clearing /\ a \notin Queued \cup held
  /\ IF len = 0
     THEN front' = a /\ prev' = [prev EXCEPT ![a] = NULL]
     ELSE prev' = [prev EXCEPT ![a] = NULL, ![front] = a] /\ UNCHANGED front
  /\ rear' = a
  /\ len' = len + 1
  /\ order' = Append(order, a)
  /\ UNCHANGED <<held, clearing, got, due>>

(* jobqueue_push of a job that thpool_add_work allocated at a. *)
Push(a) ==
  /\ ~clearing /\ a \notin Queued \cup held
  /\ IF len = 0
     THEN front' = a /\ prev' = [prev EXCEPT ![a] = NULL]
     ELSE prev' = [prev EXCEPT ![a] = NULL, ![rear] = a] /\ UNCHANGED front
  /\ rear' = a
  /\ len' = len + 1
  /\ order' = Append(order, a)
  /\ UNCHANGED <<held, clearing, got, due>>

(* jobqueue_pull. *)
Unlink ==
  /\ CASE len = 0 -> UNCHANGED <<front, rear, len>>
       [] len = 1 -> front' = NULL /\ rear' = NULL /\ len' = 0
       [] OTHER -> front' = prev[front] /\ len' = len - 1 /\ UNCHANGED rear
  /\ got' = front
  /\ due' = IF order = <<>> THEN NULL ELSE Head(order)
  /\ order' = IF order = <<>> THEN order ELSE Tail(order)
  /\ UNCHANGED prev

(* A worker pulls; a second one may find the queue empty. *)
Pull ==
  /\ ~clearing
  /\ Unlink
  /\ held' = IF len = 0 THEN held ELSE held \cup {front}
  /\ UNCHANGED clearing

(* The worker has run the job and frees it. *)
Free(a) ==
  /\ a \in held
  /\ held' = held \ {a}
  /\ UNCHANGED <<front, rear, len, prev, clearing, order, got, due>>

(* thpool_destroy, with the workers gone: jobqueue_clear pulls and frees the *)
(* jobs that are left, then resets the fields.                               *)
ClearStart ==
  /\ ~clearing /\ held = {}
  /\ clearing' = TRUE
  /\ UNCHANGED <<front, rear, len, prev, held, order, got, due>>

ClearPull ==
  /\ clearing /\ len > 0
  /\ Unlink
  /\ UNCHANGED <<held, clearing>>

ClearEnd ==
  /\ clearing /\ len = 0
  /\ front' = NULL /\ rear' = NULL /\ len' = 0
  /\ UNCHANGED <<prev, held, clearing, order, got, due>>

Init ==
  /\ front = NULL /\ rear = NULL /\ len = 0
  /\ prev \in [Addrs -> Addrs \cup {NULL}]
  /\ held = {}
  /\ clearing = FALSE
  /\ order = <<>>
  /\ got = NULL /\ due = NULL

Next ==
  \/ \E a \in Addrs : Push(a) \/ Free(a)
  \/ Pull \/ ClearStart \/ ClearPull \/ ClearEnd

Spec == Init /\ [][Next]_vars
-------------------------------------------------------------------------------
(* The list is the queue: len counts the queued jobs, front and rear are the *)
(* oldest and the newest, prev leads from each to the next, and a pull       *)
(* returned the oldest job, whatever freed memory was used again.            *)
ListIsQueue ==
  /\ len = Len(order)
  /\ front = (IF order = <<>> THEN NULL ELSE order[1])
  /\ rear = (IF order = <<>> THEN NULL ELSE order[Len(order)])
  /\ \A i \in 1 .. Len(order) - 1 : prev[order[i]] = order[i + 1]
  /\ got = due
===============================================================================
