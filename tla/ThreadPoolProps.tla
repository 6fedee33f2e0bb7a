---------------------------- MODULE ThreadPoolProps ----------------------------
(*****************************************************************************)
(* What the thread pool of ThreadPool guarantees: safety, the inductive      *)
(* invariant behind it, the abstract pool it implements, and liveness.       *)
(*****************************************************************************)
EXTENDS ThreadPool

(* Safety.                                                                   *)

WaitLabels == {"wait_lock", "wait_blocked", "wait_unlock"}
DestroyLabels == {"destroy_loop", "destroy_post_unlock", "destroy_clear"}

LabelsOK ==
  /\ pc \in [Threads -> WorkerLabels \cup ClientLabels]
  /\ \A w \in Workers : pc[w] \in WorkerLabels
  /\ \A c \in Clients : pc[c] \in ClientLabels

FlagsOK ==
  /\ keepalive \in {0, 1}
  /\ on_hold \in {0, 1}
  /\ pool \in {"none", "init", "live", "closing", "freed"}
  /\ v \in {0, 1}
  /\ mutex \in [Mutexes -> Threads \cup {NoThread}]
  /\ sigpend \subseteq Workers
  /\ held \subseteq Workers

CountersOK == {n, total, alive, working} \subseteq 0 .. NumThreads

JobsOK ==
  /\ pushed \in Nat
  /\ queue \in Seq(1 .. pushed)
  /\ job \in [Workers -> 0 .. pushed]
  /\ finished \subseteq 1 .. pushed
  /\ dropped \subseteq 1 .. pushed
  /\ seen \in [Clients -> 0 .. pushed]

(* Every variable has its type; in particular has_jobs is binary and the     *)
(* thread counters stay between 0 and num_threads.                           *)
TypeOK == LabelsOK /\ FlagsOK /\ CountersOK /\ JobsOK

(* The places where a thread owns each mutex. *)
Critical(m) ==
  CASE m = "thcount" -> {"start_unlock", "work_unlock", "rest_unlock",
                         "exit_unlock", "wait_unlock"}
    [] m = "rw"      -> {"pull_post", "pull_post_unlock", "pull_unlock",
                         "push_post", "push_post_unlock", "push_unlock"}
    [] m = "bsem"    -> {"bsem_unlock", "pull_post_unlock", "push_post_unlock",
                         "destroy_post_unlock"}

(* Mutual exclusion: a mutex is owned by the one thread inside its critical  *)
(* section, and is free when no thread is inside: no path of thpool.c        *)
(* returns with a mutex locked or unlocks one it does not own.               *)
LockOwner ==
  \A m \in Mutexes, t \in Threads : mutex[m] = t <=> pc[t] \in Critical(m)

(* A worker between num_threads_working++ and num_threads_working--. *)
WorkLabels == {"work_unlock", "run", "rest_lock"} \cup PullLabels \cup PushLabels
WorkZone == {w \in Workers : pc[w] \in WorkLabels}

WorkingExact == working = Cardinality(WorkZone)

(* num_threads_working counts the threads between its two updates, and a     *)
(* thread that has a job is one of them: what thpool_num_threads_working     *)
(* returns is never less than the number of jobs being executed.             *)
WorkingCount ==
  /\ WorkingExact
  /\ \A w \in Workers : job[w] # NULL => w \in WorkZone

(* Jobs are started first in, first out, and each of them is in one place:   *)
(* the queue holds the jobs pushed last, in the order of the pushes, and     *)
(* every other job is with exactly one worker, or was run to its end once,   *)
(* or was freed once by jobqueue_clear.                                      *)
Taken == {job[w] : w \in Workers} \ {NULL}
JobAccounting ==
  /\ \A i \in 1 .. Len(queue) : queue[i] = pushed - Len(queue) + i
  /\ Taken \cup finished \cup dropped = 1 .. (pushed - Len(queue))
  /\ Taken \cap finished = {}
  /\ Taken \cap dropped = {}
  /\ finished \cap dropped = {}
  /\ \A w1, w2 \in Workers : job[w1] = job[w2] /\ job[w1] # NULL => w1 = w2

(* thpool_wait returns only when every job added before the call has been    *)
(* executed to its end (thpool.h:70-75).                                     *)
WaitSound ==
  \A c \in Clients : pc[c] = "wait_unlock" => 1 .. seen[c] \subseteq finished

(* The chain of wakeups is never broken, although has_jobs is binary and     *)
(* merges posts.  While the pool is kept alive, a queued job is announced by *)
(* the semaphore, by a thread about to post it, or by a worker on its way to *)
(* jobqueue_pull; and a posted semaphore never coexists with a sleeping      *)
(* worker unless some worker is already up to take it.                       *)
OnTheWay == {"bsem_unlock", "check", "work_lock", "work_unlock", "pull_lock"}
WakeupChain ==
  /\ queue # <<>> /\ keepalive = 1 =>
       \/ v = 1
       \/ \E t \in Threads : pc[t] \in {"push_post", "pull_post"}
       \/ \E w \in Workers : pc[w] \in OnTheWay
  /\ v = 1 /\ (\E w \in Workers : pc[w] = "bsem_blocked") =>
       \E w \in Workers : pc[w] = "bsem_lock"

(* A client blocked in thpool_wait still has something to wait for: the      *)
(* signal of the last working thread is never missed.  Holds when a single   *)
(* client waits at a time.                                                   *)
WaiterCovered ==
  \A c \in Clients : pc[c] = "wait_blocked" => Outstanding

(* When thpool_destroy has freed the pool, no worker is inside a job or the  *)
(* job queue, every job was either executed or freed, and every thread       *)
(* structure allocated by thpool_init was freed (threads_total).             *)
DestroyClean ==
  pool = "freed" =>
    /\ working = 0
    /\ \A w \in Workers : pc[w] \in {"exit_unlock", "exited"}
    /\ finished \cup dropped = 1 .. pushed
    /\ total = NumThreads

(* thpool.h:143-144: thpool_destroy waits for the active threads and then    *)
(* frees the pool; so no thread uses the pool after it was freed.            *)
NoUseAfterFree ==
  pool = "freed" => \A w \in Workers : pc[w] = "exited"

-------------------------------------------------------------------------------
(* The inductive invariant behind the properties above.                      *)

(* num_threads_alive counts the threads between its two updates. *)
AliveZone ==
  {w \in Workers : pc[w] \notin {"none", "start", "exit_unlock", "exited"}}
AliveCount == alive = Cardinality(AliveZone)

(* A worker has a job exactly while it executes one, and perhaps on its way  *)
(* out of jobqueue_pull.                                                     *)
Executing == {"run"} \cup PushLabels
JobHolder ==
  \A w \in Workers :
    /\ pc[w] \in Executing => job[w] # NULL
    /\ job[w] # NULL =>
         pc[w] \in Executing \cup {"pull_post", "pull_post_unlock", "pull_unlock"}

(* The life of the pool: which threads can be where in each phase. *)
PoolPhase ==
  /\ pool = "none" =>
       /\ pushed = 0
       /\ \A w \in Workers : pc[w] = "none"
       /\ \A c \in Clients : pc[c] = "idle"
  /\ pool \in {"init", "live"} =>
       /\ keepalive = 1
       /\ dropped = {}
       /\ \A w \in Workers : pc[w] \notin {"exit_lock", "exit_unlock", "exited"}
  /\ pool \in {"live", "closing", "freed"} =>
       \A w \in Workers : pc[w] \notin {"none", "start"}
  /\ pool \in {"closing", "freed"} => keepalive = 0 /\ total = NumThreads
  /\ pool = "freed" => alive = 0 /\ queue = <<>>
  /\ \A c \in Clients :
       /\ pc[c] = "init" =>
            c = Main /\ pool = "init" /\ \A w \in Workers : w >= n => pc[w] = "none"
       /\ pc[c] \in WaitLabels \cup PushLabels \cup {"pause", "resume"} =>
            pool = "live"
       /\ pc[c] \in DestroyLabels => c = Main /\ pool = "closing"
       /\ pc[c] = "destroy_clear" => alive = 0

(* What every step of the pool preserves; it implies all of the above. *)
IndInv ==
  /\ TypeOK
  /\ LockOwner
  /\ AliveCount
  /\ WorkingCount
  /\ JobHolder
  /\ JobAccounting
  /\ PoolPhase
  /\ WaitSound
  /\ WakeupChain
-------------------------------------------------------------------------------
(* The pool implements the abstract pool of WorkPool: threads, semaphore and *)
(* mutexes are hidden, and a job is active from jobqueue_pull to its return. *)

Waiting == [c \in Clients |-> IF pc[c] \in WaitLabels THEN seen[c] ELSE -1]

Abstract == INSTANCE WorkPool WITH
  Capacity  <- NumThreads,
  Waiters   <- Clients,
  submitted <- pushed,
  pending   <- queue,
  active    <- Taken,
  done      <- finished,
  discarded <- dropped,
  waiting   <- Waiting,
  open      <- pool \notin {"closing", "freed"}

(* Every step of thpool.c is a step of the abstract pool or changes nothing  *)
(* a program can observe.                                                    *)
ImplementsWorkPool == Abstract!Spec
-------------------------------------------------------------------------------
(* Liveness.  Jobs may run for ever; JobsReturn says that they do not.       *)

JobsReturn == \A w \in Workers : []<>(pc[w] # "run")

(* A queued job does not wait while a worker is free: it is started even if  *)
(* the jobs being executed never return (jobqueue_pull posts has_jobs again  *)
(* when it leaves jobs behind).                                              *)
FreeWorker == \E w \in Workers : pc[w] \notin {"run"} \cup PushLabels
JobStarts ==
  (queue # <<>> /\ FreeWorker) ~> (queue = <<>> \/ ~FreeWorker \/ keepalive = 0)

(* Every job added is executed to its end, unless thpool_destroy frees it.   *)
JobFinishes ==
  JobsReturn => \A j \in 1 .. MaxJobs : (pushed >= j) ~> (j \in finished \cup dropped)

(* thpool.h:74-75: once the queue is empty and all work has completed, the   *)
(* thread that called thpool_wait continues.                                 *)
WaitReturns ==
  JobsReturn => \A c \in Clients : (pc[c] \in WaitLabels) ~> (pc[c] = "idle")

(* thpool_destroy returns: each worker, asleep, busy or on its way, ends.    *)
DestroyReturns == JobsReturn => ((pool = "closing") ~> (pool = "freed"))

(* thpool.h:107: new work can be added while the pool is paused, that is,    *)
(* thpool_add_work returns.                                                  *)
AddReturns == \A c \in Clients : (pc[c] \in PushLabels) ~> (pc[c] = "idle")

(* thpool.h:124-125: thpool_resume unpauses all threads: unless the pool is  *)
(* paused again, a resume leads to a state where no thread is held, or is    *)
(* about to be.                                                              *)
ResumeReleases ==
  (pc[Main] = "resume") ~> (held \cup sigpend = {} \/ pc[Main] = "pause")

(* thpool.h:104: paused threads "return to their previous states": a pause   *)
(* loses nothing.  A thread may be stopped between any two steps, asleep or  *)
(* awake, with a mutex or with the signal of a post that no other thread     *)
(* then gets; once no thread is held any more, or about to be, every job     *)
(* pushed before, during or after the pauses is executed to its end.         *)
PauseLosesNothing ==
  JobsReturn /\ <>[](held \cup sigpend = {}) =>
    \A j \in 1 .. MaxJobs : (pushed >= j) ~> (j \in finished)
===============================================================================
