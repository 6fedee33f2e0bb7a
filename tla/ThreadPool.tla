------------------------------ MODULE ThreadPool ------------------------------
(*****************************************************************************)
(* The thread pool of person/thread_pool/thpool.c: its worker threads, the   *)
(* binary semaphore has_jobs, the job queue, and the client threads inside   *)
(* the API calls thpool_init, thpool_add_work, thpool_wait, thpool_pause,    *)
(* thpool_resume and thpool_destroy.                                         *)
(*                                                                           *)
(* Granularity.  Every pthread_mutex_lock is taken in one step together with *)
(* the statements it guards, and every pthread_mutex_unlock is a step of its *)
(* own, so a thread can be preempted, or stopped by SIGUSR1, while it holds  *)
(* any mutex.  The data a mutex guards is written by its owner only; the     *)
(* reads the code makes without a lock (threads_keepalive, threads_on_hold,  *)
(* num_threads_alive, and jobqueue.len in thpool_wait) are reads of a step   *)
(* that does not hold the corresponding mutex.  pthread_cond_wait releases   *)
(* its mutex and blocks in one step; a woken thread goes back to the step    *)
(* that takes the mutex and tests the loop condition.                        *)
(*****************************************************************************)
EXTENDS Integers, Sequences, FiniteSets

CONSTANTS
  NumThreads,     \* num_threads of thpool_init
  Clients,        \* the threads of the program that call the API
  Main,           \* the client that creates, pauses and destroys the pool
  Calls,          \* the pairs <<thread, call>> this program makes
  MaxJobs,        \* bound: how many jobs are ever added
  CreateMayFail,  \* may pthread_create fail?
  NoThread        \* the owner of a free mutex

Workers == 0 .. NumThreads - 1
Threads == Workers \cup Clients
NULL    == 0   \* no job; a job is its position in the order of the pushes
Mutexes == {"thcount", "rw", "bsem"}

ASSUME ThreadAssumption ==
  /\ NumThreads \in Nat
  /\ Main \in Clients
  /\ Clients \cap Workers = {}
  /\ NoThread \notin Threads
  /\ CreateMayFail \in BOOLEAN

VARIABLES
  keepalive,  \* threads_keepalive
  on_hold,    \* threads_on_hold
  pool,       \* "none", "init", "live", "closing" or "freed"
  n,          \* the loop index of thpool_init and of thpool_pause
  total,      \* threads_total of thpool_destroy
  alive,      \* num_threads_alive
  working,    \* num_threads_working
  queue,      \* the jobs from jobqueue.front to jobqueue.rear
  v,          \* has_jobs->v
  mutex,      \* the owner of thcount_lock, of rwmutex and of has_jobs->mutex
  pc,         \* where each thread is
  job,        \* job_p of each worker
  pushed,     \* how many jobs were pushed
  finished,   \* the jobs that ran to their end and were freed
  dropped,    \* the jobs jobqueue_clear freed without running them
  seen,       \* how many jobs were pushed when a client called thpool_wait
  sigpend,    \* the workers with a pending SIGUSR1
  held        \* the workers inside the handler thread_hold

jobVars == <<queue, job, pushed, finished, dropped>>
ctlVars == <<keepalive, pool, n, total>>
sigVars == <<on_hold, sigpend, held>>
vars == <<keepalive, on_hold, pool, n, total, alive, working, queue, v, mutex,
          pc, job, pushed, finished, dropped, seen, sigpend, held>>

PushLabels == {"push_lock", "push_post", "push_post_unlock", "push_unlock"}
PullLabels == {"pull_lock", "pull_post", "pull_post_unlock", "pull_unlock"}
WorkerLabels ==
  {"none", "start", "start_unlock", "loop", "bsem_lock", "bsem_blocked",
   "bsem_unlock", "check", "work_lock", "work_unlock", "run", "rest_lock",
   "rest_unlock", "exit_lock", "exit_unlock", "exited"}
    \cup PullLabels \cup PushLabels
ClientLabels ==
  {"idle", "init", "wait_lock", "wait_blocked", "wait_unlock", "pause",
   "resume", "destroy_loop", "destroy_post_unlock", "destroy_clear"} \cup PushLabels
-------------------------------------------------------------------------------
(* Control flow, mutexes and condition variables.                            *)

At(t, label) == pc[t] = label /\ t \notin held

Goto(t, label) == pc' = [pc EXCEPT ![t] = label]

Acquire(m, t) ==
  /\ mutex[m] = NoThread
  /\ mutex' = [mutex EXCEPT ![m] = t]

Unlock(t, from, m, to) ==
  /\ At(t, from)
  /\ Goto(t, to)
  /\ mutex' = [mutex EXCEPT ![m] = NoThread]
  /\ UNCHANGED <<alive, working, v, seen, jobVars, ctlVars, sigVars>>

AllAt(label) == {t \in Threads : pc[t] = label}

(* Thread t goes on to `next' and signals the condition variable on which    *)
(* the threads at label `from' are blocked: one of them, if there is one,    *)
(* goes back to take the mutex and test again.                               *)
Signal(t, next, from, to) ==
  \/ AllAt(from) = {} /\ Goto(t, next)
  \/ \E u \in AllAt(from) : pc' = [pc EXCEPT ![t] = next, ![u] = to]

(* Mutant: the semaphore counts. *)
BsemPost_Counts(t, next) ==
  /\ Acquire("bsem", t)
  /\ v' = v + 1
  /\ Signal(t, next, "bsem_blocked", "bsem_lock")

(* bsem_post, up to the unlock. *)
BsemPost(t, next) ==
  /\ Acquire("bsem", t)
  /\ v' = 1
  /\ Signal(t, next, "bsem_blocked", "bsem_lock")

(* POSIX lets pthread_cond_wait return without a signal. *)
SpuriousWakeup(t) ==
  /\ \/ At(t, "bsem_blocked") /\ Goto(t, "bsem_lock")
     \/ At(t, "wait_blocked") /\ Goto(t, "wait_lock")
  /\ UNCHANGED <<alive, working, v, mutex, seen, jobVars, ctlVars, sigVars>>
-------------------------------------------------------------------------------
(* thread_do: the life of a worker.                                          *)

ThreadStart(w) ==
  /\ At(w, "start")
  /\ Acquire("thcount", w)
  /\ alive' = alive + 1
  /\ Goto(w, "start_unlock")
  /\ UNCHANGED <<working, v, seen, jobVars, ctlVars, sigVars>>

StartUnlock(w) == Unlock(w, "start_unlock", "thcount", "loop")

(* while (threads_keepalive) *)
LoopTest(w) ==
  /\ At(w, "loop")
  /\ Goto(w, IF keepalive = 1 THEN "bsem_lock" ELSE "exit_lock")
  /\ UNCHANGED <<alive, working, v, mutex, seen, jobVars, ctlVars, sigVars>>

(* bsem_wait, up to the unlock. *)
BsemWait(w) ==
  /\ At(w, "bsem_lock")
  /\ mutex["bsem"] = NoThread
  /\ \/ v = 1 /\ v' = 0 /\ Acquire("bsem", w) /\ Goto(w, "bsem_unlock")
     \/ v # 1 /\ Goto(w, "bsem_blocked") /\ UNCHANGED <<v, mutex>>
  /\ UNCHANGED <<alive, working, seen, jobVars, ctlVars, sigVars>>

BsemUnlock(w) == Unlock(w, "bsem_unlock", "bsem", "check")

(* if (threads_keepalive); otherwise the loop test is next. *)
CheckKeepalive(w) ==
  /\ At(w, "check")
  /\ Goto(w, IF keepalive = 1 THEN "work_lock" ELSE "loop")
  /\ UNCHANGED <<alive, working, v, mutex, seen, jobVars, ctlVars, sigVars>>

StartWorking(w) ==
  /\ At(w, "work_lock")
  /\ Acquire("thcount", w)
  /\ working' = working + 1
  /\ Goto(w, "work_unlock")
  /\ UNCHANGED <<alive, v, seen, jobVars, ctlVars, sigVars>>

WorkUnlock(w) == Unlock(w, "work_unlock", "thcount", "pull_lock")

(* Mutant: an off-by-one in the case labels of the switch. *)
MoreJobs_OffByOne == Len(queue) > 2

(* jobqueue_pull: does taking a job leave others behind, so that the pull    *)
(* must post has_jobs again?                                                 *)
MoreJobs == Len(queue) > 1

(* jobqueue_pull, up to the post or the unlock. *)
PullJob(w) ==
  /\ At(w, "pull_lock")
  /\ Acquire("rw", w)
  /\ IF queue = <<>>
     THEN job' = [job EXCEPT ![w] = NULL] /\ UNCHANGED queue
     ELSE job' = [job EXCEPT ![w] = Head(queue)] /\ queue' = Tail(queue)
  /\ Goto(w, IF MoreJobs THEN "pull_post" ELSE "pull_unlock")
  /\ UNCHANGED <<alive, working, v, pushed, finished, dropped, seen,
                 ctlVars, sigVars>>

PullPost(w) ==
  /\ At(w, "pull_post")
  /\ BsemPost(w, "pull_post_unlock")
  /\ UNCHANGED <<alive, working, seen, jobVars, ctlVars, sigVars>>

PullPostUnlock(w) == Unlock(w, "pull_post_unlock", "bsem", "pull_unlock")

(* Mutant: an empty queue returns without unlocking. *)
PullUnlock_EarlyReturn(w) ==
  Unlock(w, "pull_unlock", IF job[w] = NULL THEN "bsem" ELSE "rw",
         IF job[w] = NULL THEN "rest_lock" ELSE "run")

PullUnlock(w) ==
  Unlock(w, "pull_unlock", "rw", IF job[w] = NULL THEN "rest_lock" ELSE "run")

(* func_buff(arg_buff) returns; free(job_p). *)
JobReturn(w) ==
  /\ At(w, "run")
  /\ finished' = finished \cup {job[w]}
  /\ job' = [job EXCEPT ![w] = NULL]
  /\ Goto(w, "rest_lock")
  /\ UNCHANGED <<alive, working, v, mutex, queue, pushed, dropped, seen,
                 ctlVars, sigVars>>

(* Mutant: nobody signals threads_all_idle. *)
StopWorking_Silent(w) ==
  /\ At(w, "rest_lock")
  /\ Acquire("thcount", w)
  /\ working' = working - 1
  /\ Goto(w, "rest_unlock")
  /\ UNCHANGED <<alive, v, seen, jobVars, ctlVars, sigVars>>

(* The last working thread signals threads_all_idle. *)
StopWorking(w) ==
  /\ At(w, "rest_lock")
  /\ Acquire("thcount", w)
  /\ working' = working - 1
  /\ IF working' = 0
     THEN Signal(w, "rest_unlock", "wait_blocked", "wait_lock")
     ELSE Goto(w, "rest_unlock")
  /\ UNCHANGED <<alive, v, seen, jobVars, ctlVars, sigVars>>

RestUnlock(w) == Unlock(w, "rest_unlock", "thcount", "loop")

ThreadExit(w) ==
  /\ At(w, "exit_lock")
  /\ Acquire("thcount", w)
  /\ alive' = alive - 1
  /\ Goto(w, "exit_unlock")
  /\ UNCHANGED <<working, v, seen, jobVars, ctlVars, sigVars>>

ExitUnlock(w) == Unlock(w, "exit_unlock", "thcount", "exited")
-------------------------------------------------------------------------------
(* SIGUSR1 and its handler thread_hold.                                      *)

(* A pending SIGUSR1 interrupts the worker wherever it is.  It stays pending *)
(* while the worker is in the handler (sa_flags = 0).                        *)
HoldSignal(w) ==
  /\ w \in sigpend \ held
  /\ pc[w] \notin {"none", "exited"}
  /\ sigpend' = sigpend \ {w}
  /\ held' = held \cup {w}
  /\ on_hold' = 1
  /\ UNCHANGED <<alive, working, v, mutex, pc, seen, jobVars, ctlVars>>

(* while (threads_on_hold) sleep(1); *)
HoldReturn(w) ==
  /\ w \in held
  /\ on_hold = 0
  /\ held' = held \ {w}
  /\ UNCHANGED <<alive, working, v, mutex, pc, seen, on_hold, sigpend,
                 jobVars, ctlVars>>
-------------------------------------------------------------------------------
(* The API calls.                                                            *)

(* jobqueue_init: no jobs, and a semaphore at 0. *)
JobqueueInit == queue' = <<>> /\ v' = 0

(* thpool_init resets both globals, whether or not its mallocs succeed; it   *)
(* returns NULL, and there is still no pool, when one of them fails.         *)
InitPool(c) ==
  /\ At(c, "idle")
  /\ c = Main
  /\ pool = "none"
  /\ on_hold' = 0
  /\ keepalive' = 1
  /\ \/ /\ pool' = "init"
        /\ alive' = 0
        /\ working' = 0
        /\ JobqueueInit
        /\ n' = 0
        /\ Goto(c, "init")
     \/ UNCHANGED <<pool, pc, n, alive, working, queue, v>>
  /\ UNCHANGED <<mutex, job, pushed, finished, dropped, seen, total, sigpend,
                 held>>

(* thread_init ignores what pthread_create returns. *)
CreateThread(c) ==
  /\ At(c, "init")
  /\ n < NumThreads
  /\ n' = n + 1
  /\ \/ Goto(n, "start")
     \/ CreateMayFail /\ UNCHANGED pc
  /\ UNCHANGED <<alive, working, v, mutex, seen, keepalive, pool, total,
                 jobVars, sigVars>>

(* while (num_threads_alive != num_threads) {} *)
InitReturn(c) ==
  /\ At(c, "init")
  /\ n = NumThreads
  /\ alive = NumThreads
  /\ pool' = "live"
  /\ Goto(c, "idle")
  /\ UNCHANGED <<alive, working, v, mutex, seen, keepalive, n, total, jobVars,
                 sigVars>>

(* thpool_add_work: called by a client, or by a job that a worker runs.      *)
(* A failed malloc returns -1 and changes nothing.                           *)
AddWork(t) ==
  /\ <<t, "add">> \in Calls
  /\ pushed + Cardinality(AllAt("push_lock")) < MaxJobs
  /\ \/ t \in Clients /\ At(t, "idle") /\ pool = "live"
     \/ t \in Workers /\ At(t, "run")
  /\ Goto(t, "push_lock")
  /\ UNCHANGED <<alive, working, v, mutex, seen, jobVars, ctlVars, sigVars>>

(* Mutant: the new job goes to the front. *)
PushJob_Front(t) ==
  /\ At(t, "push_lock")
  /\ Acquire("rw", t)
  /\ pushed' = pushed + 1
  /\ queue' = <<pushed'>> \o queue
  /\ Goto(t, "push_post")
  /\ UNCHANGED <<alive, working, v, job, finished, dropped, seen, ctlVars,
                 sigVars>>

(* jobqueue_push, up to the post. *)
PushJob(t) ==
  /\ At(t, "push_lock")
  /\ Acquire("rw", t)
  /\ pushed' = pushed + 1
  /\ queue' = Append(queue, pushed')
  /\ Goto(t, "push_post")
  /\ UNCHANGED <<alive, working, v, job, finished, dropped, seen, ctlVars,
                 sigVars>>

PushPost(t) ==
  /\ At(t, "push_post")
  /\ BsemPost(t, "push_post_unlock")
  /\ UNCHANGED <<alive, working, seen, jobVars, ctlVars, sigVars>>

PushPostUnlock(t) == Unlock(t, "push_post_unlock", "bsem", "push_unlock")

PushUnlock(t) ==
  Unlock(t, "push_unlock", "rw", IF t \in Workers THEN "run" ELSE "idle")

(* thpool_wait. *)
WaitCall(c) ==
  /\ <<c, "wait">> \in Calls
  /\ At(c, "idle")
  /\ pool = "live"
  /\ seen' = [seen EXCEPT ![c] = pushed]
  /\ Goto(c, "wait_lock")
  /\ UNCHANGED <<alive, working, v, mutex, jobVars, ctlVars, sigVars>>

(* Mutants: one of the two tests is missing. *)
Outstanding_Queued == queue # <<>>
Outstanding_Working == working # 0

(* jobqueue.len || num_threads_working.  The two reads are one step: the     *)
(* second variable only changes under the mutex the client holds here.       *)
Outstanding == queue # <<>> \/ working # 0

WaitTest(c) ==
  /\ At(c, "wait_lock")
  /\ mutex["thcount"] = NoThread
  /\ \/ Outstanding /\ Goto(c, "wait_blocked") /\ UNCHANGED mutex
     \/ ~Outstanding /\ Acquire("thcount", c) /\ Goto(c, "wait_unlock")
  /\ UNCHANGED <<alive, working, v, seen, jobVars, ctlVars, sigVars>>

WaitReturn(c) == Unlock(c, "wait_unlock", "thcount", "idle")

(* thpool_pause: one pthread_kill per step; the bound is read every time. *)
PauseCall(c) ==
  /\ <<c, "pause">> \in Calls
  /\ At(c, "idle")
  /\ c = Main
  /\ pool = "live"
  /\ n' = 0
  /\ Goto(c, "pause")
  /\ UNCHANGED <<alive, working, v, mutex, seen, keepalive, pool, total,
                 jobVars, sigVars>>

PauseThread(c) ==
  /\ At(c, "pause")
  /\ \/ n < alive /\ sigpend' = sigpend \cup {n} /\ n' = n + 1 /\ UNCHANGED pc
     \/ n >= alive /\ Goto(c, "idle") /\ UNCHANGED <<n, sigpend>>
  /\ UNCHANGED <<alive, working, v, mutex, seen, keepalive, pool, total,
                 on_hold, held, jobVars>>

ResumeCall(c) ==
  /\ <<c, "resume">> \in Calls
  /\ At(c, "idle")
  /\ c = Main
  /\ pool = "live"
  /\ Goto(c, "resume")
  /\ UNCHANGED <<alive, working, v, mutex, seen, jobVars, ctlVars, sigVars>>

ResumePool(c) ==
  /\ At(c, "resume")
  /\ on_hold' = 0
  /\ Goto(c, "idle")
  /\ UNCHANGED <<alive, working, v, mutex, seen, sigpend, held, jobVars,
                 ctlVars>>

(* thpool_destroy.  The program calls it when no other client is inside the  *)
(* API, and no client calls the pool again.                                  *)
DestroyCall(c) ==
  /\ <<c, "destroy">> \in Calls
  /\ At(c, "idle")
  /\ c = Main
  /\ pool = "live"
  /\ \A d \in Clients \ {c} : pc[d] = "idle"
  /\ total' = alive
  /\ keepalive' = 0
  /\ pool' = "closing"
  /\ Goto(c, "destroy_loop")
  /\ UNCHANGED <<alive, working, v, mutex, seen, n, jobVars, sigVars>>

(* Mutant: wait for the threads without waking them. *)
DestroyPoll_NoPost(c) ==
  /\ At(c, "destroy_loop")
  /\ alive = 0
  /\ Goto(c, "destroy_clear")
  /\ UNCHANGED <<alive, working, v, mutex, seen, jobVars, ctlVars, sigVars>>

(* Both polling loops: while a thread is alive, bsem_post_all.  The timeout  *)
(* only decides whether a round sleeps.                                      *)
DestroyPoll(c) ==
  /\ At(c, "destroy_loop")
  /\ \/ /\ alive # 0
        /\ Acquire("bsem", c)
        /\ v' = 1
        /\ pc' = [t \in Threads |->
                    IF t = c THEN "destroy_post_unlock"
                    ELSE IF pc[t] = "bsem_blocked" THEN "bsem_lock" ELSE pc[t]]
     \/ alive = 0 /\ Goto(c, "destroy_clear") /\ UNCHANGED <<v, mutex>>
  /\ UNCHANGED <<alive, working, seen, jobVars, ctlVars, sigVars>>

(* Mutant: give up on the running threads after one round. *)
DestroyPostUnlock_GiveUp(c) ==
  Unlock(c, "destroy_post_unlock", "bsem", "destroy_clear")

DestroyPostUnlock(c) ==
  Unlock(c, "destroy_post_unlock", "bsem", "destroy_loop")

(* jobqueue_clear: free(jobqueue_pull()) while there are jobs.  No thread is *)
(* left to contend for the mutexes of a pull, so each pull is one step.      *)
ClearJob(c) ==
  /\ At(c, "destroy_clear")
  /\ mutex["rw"] = NoThread
  /\ mutex["bsem"] = NoThread
  /\ queue # <<>>
  /\ dropped' = dropped \cup {Head(queue)}
  /\ queue' = Tail(queue)
  /\ v' = IF MoreJobs THEN 1 ELSE v
  /\ UNCHANGED <<alive, working, mutex, pc, seen, job, pushed, finished, ctlVars,
                 sigVars>>

(* The end of jobqueue_clear resets the semaphore; the pool is freed. *)
FreePool(c) ==
  /\ At(c, "destroy_clear")
  /\ queue = <<>>
  /\ v' = 0
  /\ pool' = "freed"
  /\ Goto(c, "idle")
  /\ UNCHANGED <<alive, working, mutex, seen, jobVars, keepalive, n, total,
                 sigVars>>
-------------------------------------------------------------------------------
Init ==
  /\ keepalive = 0
  /\ on_hold = 0
  /\ pool = "none"
  /\ n = 0
  /\ total = 0
  /\ alive = 0
  /\ working = 0
  /\ queue = <<>>
  /\ v = 0
  /\ mutex = [m \in Mutexes |-> NoThread]
  /\ pc = [t \in Threads |-> IF t \in Workers THEN "none" ELSE "idle"]
  /\ job = [w \in Workers |-> NULL]
  /\ pushed = 0
  /\ finished = {}
  /\ dropped = {}
  /\ seen = [c \in Clients |-> 0]
  /\ sigpend = {}
  /\ held = {}

(* The steps of a worker by itself, the return of a job aside. *)
ThreadLife(w) ==
  ThreadStart(w) \/ StartUnlock(w) \/ LoopTest(w) \/ ThreadExit(w) \/ ExitUnlock(w)
GetTurn(w) ==
  BsemWait(w) \/ BsemUnlock(w) \/ CheckKeepalive(w) \/ StartWorking(w) \/ WorkUnlock(w)
Pull(w) == PullJob(w) \/ PullPost(w) \/ PullPostUnlock(w) \/ PullUnlock(w)
Rest(w) == StopWorking(w) \/ RestUnlock(w)
Push(t) == PushJob(t) \/ PushPost(t) \/ PushPostUnlock(t) \/ PushUnlock(t)

WorkerStep(w) == ThreadLife(w) \/ GetTurn(w) \/ Pull(w) \/ Rest(w) \/ Push(w)
Handler(w) == HoldSignal(w) \/ HoldReturn(w)

(* A client calls the API, and the call goes on. *)
ClientCall(c) ==
  \/ InitPool(c) \/ AddWork(c) \/ WaitCall(c)
  \/ PauseCall(c) \/ ResumeCall(c) \/ DestroyCall(c)

InitStep(c) == CreateThread(c) \/ InitReturn(c)
WaitStep(c) == WaitTest(c) \/ WaitReturn(c)
PauseStep(c) == PauseThread(c) \/ ResumePool(c)
DestroyClear(c) == ClearJob(c) \/ FreePool(c)
DestroyStep(c) == DestroyPoll(c) \/ DestroyPostUnlock(c) \/ DestroyClear(c)

ClientStep(c) ==
  InitStep(c) \/ Push(c) \/ WaitStep(c) \/ PauseStep(c) \/ DestroyStep(c)

Next ==
  \/ \E w \in Workers : WorkerStep(w) \/ JobReturn(w) \/ AddWork(w) \/ Handler(w)
  \/ \E c \in Clients : ClientCall(c) \/ ClientStep(c)
  \/ \E t \in Threads : SpuriousWakeup(t)

Spec == Init /\ [][Next]_vars

(* Scheduling.  Every thread that can go on does, and a thread that waits    *)
(* for a mutex that is released again and again gets it in the end (strong   *)
(* fairness): no thread holds a mutex across a blocking call, and a loop     *)
(* that keeps taking one blocks or sleeps in between.  A pending signal is   *)
(* delivered.  A client need not call, and a job need not return.            *)
ThreadFairness ==
  /\ \A w \in Workers :
       /\ SF_vars(WorkerStep(w))
       /\ WF_vars(HoldSignal(w))
       /\ WF_vars(HoldReturn(w))
  /\ \A c \in Clients : SF_vars(ClientStep(c))

FairSpec == Spec /\ ThreadFairness
===============================================================================
