---------------------------- MODULE ThreadPoolFacts ----------------------------
(*****************************************************************************)
(* Facts about the thread pool that the proofs rest on, and the conjuncts of *)
(* its inductive invariant about types, mutexes, the thread counters and the *)
(* jobs: num_threads_alive and num_threads_working stay exact, and every job *)
(* stays in exactly one place, in order.                                     *)
(*                                                                           *)
(* A lemma whose name ends in Step shows that one conjunct of IndInv is      *)
(* preserved.  It goes through the steps of the pool grouped as in Next: the *)
(* life of a thread, getting a turn at the semaphore, jobqueue_pull, the job *)
(* itself, going to rest, the signal handler, thpool_add_work,               *)
(* jobqueue_push, and the other API calls.                                   *)
(*****************************************************************************)
EXTENDS ThreadPoolProps, FiniteSetTheorems, SequenceTheorems, TLAPS

(* The typing facts most steps need, in the form the provers use best. *)
Typed ==
  /\ pc \in [Threads -> WorkerLabels \cup ClientLabels]
  /\ mutex \in [Mutexes -> Threads \cup {NoThread}]
  /\ NoThread \notin Threads
  /\ Threads = Workers \cup Clients
  /\ Workers \cap Clients = {}

(* TypeOK gives the typing facts. *)
LEMMA TypedFacts == ASSUME TypeOK PROVE Typed
BY Zenon, ThreadAssumption DEF TypeOK, LabelsOK, FlagsOK, Typed, Threads

(* TypeOK types the job of a worker, and the jobs a waiter has seen. *)
LEMMA JobTyped ==
  ASSUME TypeOK
  PROVE  job \in [Workers -> 0 .. pushed] /\ seen \in [Clients -> 0 .. pushed]
BY Zenon DEF TypeOK, JobsOK

(* A thread that thpool_init creates has not run before. *)
LEMMA FreshThread ==
  ASSUME TypeOK, PoolPhase, NEW c \in Clients, CreateThread(c)
  PROVE  n \in Workers /\ pc[n] = "none"
<1>1. n \in Workers
  BY ThreadAssumption DEF TypeOK, CountersOK, CreateThread, Workers
<1>2. \A w \in Workers : w >= n => pc[w] = "none"
  BY Zenon DEF PoolPhase, CreateThread, At
<1>3. n >= n
  BY DEF TypeOK, CountersOK
<1> QED
  BY Zenon, <1>1, <1>2, <1>3

--------------------------------------------------------------------------------
(* Counting threads and taking jobs.                                         *)

(* There are num_threads workers, and no set of workers is larger. *)
LEMMA WorkersFinite ==
  /\ IsFiniteSet(Workers)
  /\ Cardinality(Workers) = NumThreads
  /\ \A S \in SUBSET Workers : IsFiniteSet(S) /\ Cardinality(S) \in 0 .. NumThreads
<1>1. IsFiniteSet(Workers) /\ Cardinality(Workers) = NumThreads
  BY ThreadAssumption, FS_Interval DEF Workers
<1>2. ASSUME NEW S \in SUBSET Workers
      PROVE  IsFiniteSet(S) /\ Cardinality(S) \in 0 .. NumThreads
  BY <1>1, FS_Subset, FS_CardinalityType, ThreadAssumption
<1> QED
  BY Zenon, <1>1, <1>2

(* The threads that are alive are finitely many. *)
LEMMA AliveZoneFinite == IsFiniteSet(AliveZone)
BY Zenon, WorkersFinite DEF AliveZone

(* The threads that are working are finitely many. *)
LEMMA WorkZoneFinite == IsFiniteSet(WorkZone)
BY Zenon, WorkersFinite DEF WorkZone

(* thpool_destroy reads num_threads_alive = 0 only when no thread is alive. *)
LEMMA NobodyAlive ==
  ASSUME AliveCount, alive = 0
  PROVE  AliveZone = {}
BY Zenon, AliveZoneFinite, FS_EmptySet DEF AliveCount

(* thpool_init reads num_threads_alive = num_threads only when all are alive. *)
LEMMA AllAlive ==
  ASSUME AliveCount
  PROVE  alive = NumThreads <=> AliveZone = Workers
BY Zenon, WorkersFinite, FS_Subset DEF AliveCount, AliveZone

(* When num_threads_working is 0, no thread has a job. *)
LEMMA NobodyWorks ==
  ASSUME WorkingCount, working = 0
  PROVE  \A w \in Workers : pc[w] \notin WorkLabels /\ job[w] = NULL
<1>1. WorkZone = {}
  BY Zenon, WorkZoneFinite, FS_EmptySet DEF WorkingCount, WorkingExact
<1> QED
  BY Zenon, <1>1 DEF WorkZone, WorkingCount

(* Head, tail and length of the job queue. *)
LEMMA QueueFacts ==
  ASSUME TypeOK
  PROVE  /\ Len(queue) \in Nat
         /\ queue # <<>> <=> Len(queue) > 0
         /\ queue # <<>> =>
              /\ Head(queue) = queue[1]
              /\ Len(Tail(queue)) = Len(queue) - 1
              /\ \A i \in 1 .. Len(queue) - 1 : Tail(queue)[i] = queue[i + 1]
BY DEF TypeOK, JobsOK

(* The job at the front is the oldest one that was not taken yet, and taking *)
(* it leaves the queue in order.                                             *)
LEMMA TakeHead ==
  ASSUME TypeOK, JobAccounting, queue # <<>>
  PROVE  /\ Head(queue) = pushed - Len(queue) + 1
         /\ Head(queue) \in 1 .. pushed
         /\ \A i \in 1 .. Len(Tail(queue)) :
              Tail(queue)[i] = pushed - Len(Tail(queue)) + i
         /\ 1 .. (pushed - Len(Tail(queue)))
              = 1 .. (pushed - Len(queue)) \cup {Head(queue)}
         /\ Head(queue) \notin 1 .. (pushed - Len(queue))
         /\ Head(queue) # NULL
<1>1. Head(queue) = pushed - Len(queue) + 1
  BY QueueFacts DEF JobAccounting, TypeOK, JobsOK
<1>2. Head(queue) \in 1 .. pushed
  BY DEF TypeOK, JobsOK
<1> QED
  BY <1>1, <1>2, QueueFacts DEF JobAccounting, TypeOK, JobsOK, NULL

(* Only workers sleep on the semaphore. *)
LEMMA SleepersAreWorkers ==
  ASSUME TypeOK, NEW t \in Threads, pc[t] = "bsem_blocked"
  PROVE  t \in Workers
BY Zenon DEF TypeOK, LabelsOK, Threads, ClientLabels, PushLabels

(* bsem_post leaves no sleeper behind without waking one. *)
LEMMA PostWakes ==
  ASSUME TypeOK, NEW t \in Threads, NEW next, BsemPost(t, next),
         pc[t] # "bsem_blocked"
  PROVE  /\ v' = 1
         /\ pc'[t] = next
         /\ (\E w \in Workers : pc'[w] = "bsem_blocked") /\ next # "bsem_blocked" =>
              \E w \in Workers : pc'[w] = "bsem_lock"
BY Zenon, SleepersAreWorkers, TypedFacts DEF Typed, BsemPost, Signal, AllAt, Goto

--------------------------------------------------------------------------------
(* Types and mutexes.                                                        *)

(* Every thread stays at a place of its own kind. *)
LEMMA LabelStep ==
  ASSUME TypeOK, PoolPhase, Next
  PROVE  LabelsOK'
<1> USE ThreadAssumption DEF TypeOK, LabelsOK, Threads, WorkerLabels,
   ClientLabels, PushLabels, PullLabels, At, Goto, Acquire, Unlock
<1>1. ASSUME NEW t \in Workers, ThreadLife(t)
      PROVE  LabelsOK'
  BY <1>1 DEF ThreadLife, ThreadStart, StartUnlock, LoopTest, ThreadExit,
     ExitUnlock
<1>2. ASSUME NEW t \in Workers, GetTurn(t)
      PROVE  LabelsOK'
  BY <1>2 DEF GetTurn, BsemWait, BsemUnlock, CheckKeepalive, StartWorking,
     WorkUnlock
<1>3. ASSUME NEW t \in Workers, Pull(t)
      PROVE  LabelsOK'
  BY <1>3 DEF Pull, PullJob, PullPost, PullPostUnlock, PullUnlock, BsemPost,
     Signal, AllAt
<1>4. ASSUME NEW t \in Workers, JobReturn(t)
      PROVE  LabelsOK'
  BY Zenon, <1>4 DEF JobReturn
<1>5. ASSUME NEW t \in Workers, Rest(t)
      PROVE  LabelsOK'
  BY <1>5 DEF Rest, StopWorking, RestUnlock, Signal, AllAt
<1>6. ASSUME NEW t \in Workers, Handler(t)
      PROVE  LabelsOK'
  BY Zenon, <1>6 DEF Handler, HoldSignal, HoldReturn
<1>7. ASSUME NEW t \in Threads, AddWork(t)
      PROVE  LabelsOK'
  BY Zenon, <1>7 DEF AddWork
<1>8. ASSUME NEW t \in Threads, Push(t)
      PROVE  LabelsOK'
  BY <1>8 DEF Push, PushJob, PushPost, PushPostUnlock, PushUnlock, BsemPost,
     Signal, AllAt
<1>9. ASSUME NEW t \in Clients, InitPool(t) \/ InitStep(t)
      PROVE  LabelsOK'
  <2>1. CASE InitPool(t) \/ InitReturn(t)
    BY <2>1 DEF InitPool, JobqueueInit, InitReturn
  <2>2. CASE CreateThread(t)
    <3>1. n \in Workers /\ pc[n] = "none"
      BY ONLY Zenon, <2>2, FreshThread, TypeOK, PoolPhase, t \in Clients
    <3> QED
      BY <2>2, <3>1 DEF CreateThread
  <2> QED
    BY ONLY Zenon, <1>9, <2>1, <2>2 DEF InitStep
<1>10. ASSUME NEW t \in Clients, WaitCall(t) \/ WaitStep(t)
      PROVE  LabelsOK'
  BY <1>10 DEF WaitCall, WaitStep, WaitTest, WaitReturn
<1>11. ASSUME NEW t \in Clients, PauseCall(t) \/ ResumeCall(t) \/ PauseStep(t)
      PROVE  LabelsOK'
  BY <1>11 DEF PauseCall, ResumeCall, PauseStep, PauseThread, ResumePool
<1>12. ASSUME NEW t \in Clients, DestroyCall(t) \/ DestroyStep(t)
      PROVE  LabelsOK'
  BY <1>12 DEF DestroyCall, DestroyStep, DestroyPoll, DestroyPostUnlock,
     DestroyClear, ClearJob, FreePool
<1>13. ASSUME NEW t \in Threads, SpuriousWakeup(t)
      PROVE  LabelsOK'
  BY <1>13 DEF SpuriousWakeup
<1> QED
  BY ONLY Zenon, Next, <1>1, <1>2, <1>3, <1>4, <1>5, <1>6, <1>7, <1>8, <1>9, <1>10,
     <1>11, <1>12, <1>13 DEF Next, WorkerStep, ClientCall, ClientStep, Threads

(* Flags, semaphore, mutexes and signals keep their types. *)
LEMMA FlagStep ==
  ASSUME TypeOK, PoolPhase, Next
  PROVE  FlagsOK'
<1> USE DEF TypeOK, FlagsOK, Threads, Mutexes, ctlVars, sigVars, At, Goto,
   Acquire, Unlock
<1>1. ASSUME NEW t \in Workers, ThreadLife(t)
      PROVE  FlagsOK'
  BY <1>1 DEF ThreadLife, ThreadStart, StartUnlock, LoopTest, ThreadExit,
     ExitUnlock
<1>2. ASSUME NEW t \in Workers, GetTurn(t)
      PROVE  FlagsOK'
  BY <1>2 DEF GetTurn, BsemWait, BsemUnlock, CheckKeepalive, StartWorking,
     WorkUnlock
<1>3. ASSUME NEW t \in Workers, Pull(t)
      PROVE  FlagsOK'
  BY <1>3 DEF Pull, PullJob, PullPost, PullPostUnlock, PullUnlock, BsemPost,
     Signal, AllAt
<1>4. ASSUME NEW t \in Workers, JobReturn(t)
      PROVE  FlagsOK'
  BY Zenon, <1>4 DEF JobReturn
<1>5. ASSUME NEW t \in Workers, Rest(t)
      PROVE  FlagsOK'
  BY Zenon, <1>5 DEF Rest, StopWorking, RestUnlock, Signal, AllAt
<1>6. ASSUME NEW t \in Workers, Handler(t)
      PROVE  FlagsOK'
  BY Zenon, <1>6 DEF Handler, HoldSignal, HoldReturn
<1>7. ASSUME NEW t \in Threads, AddWork(t)
      PROVE  FlagsOK'
  BY Zenon, <1>7 DEF AddWork
<1>8. ASSUME NEW t \in Threads, Push(t)
      PROVE  FlagsOK'
  BY <1>8 DEF Push, PushJob, PushPost, PushPostUnlock, PushUnlock, BsemPost,
     Signal, AllAt
<1>9. ASSUME NEW t \in Clients, InitPool(t) \/ InitStep(t)
      PROVE  FlagsOK'
  BY Zenon, <1>9 DEF InitPool, JobqueueInit, InitStep, CreateThread, InitReturn
<1>10. ASSUME NEW t \in Clients, WaitCall(t) \/ WaitStep(t)
      PROVE  FlagsOK'
  BY <1>10 DEF WaitCall, WaitStep, WaitTest, WaitReturn
<1>11. ASSUME NEW t \in Clients, PauseCall(t) \/ ResumeCall(t) \/ PauseStep(t)
      PROVE  FlagsOK'
  <2>1. CASE PauseThread(t)
    <3>1. n < alive => n \in Workers
      BY ThreadAssumption DEF CountersOK, Workers
    <3> QED
      BY Zenon, <2>1, <3>1 DEF PauseThread
  <2>2. CASE PauseCall(t) \/ ResumeCall(t) \/ ResumePool(t)
    BY Zenon, <2>2 DEF PauseCall, ResumeCall, ResumePool
  <2> QED
    BY ONLY Zenon, <1>11, <2>1, <2>2 DEF PauseStep
<1>12. ASSUME NEW t \in Clients, DestroyCall(t) \/ DestroyStep(t)
      PROVE  FlagsOK'
  BY <1>12 DEF DestroyCall, DestroyStep, DestroyPoll, DestroyPostUnlock,
     DestroyClear, ClearJob, FreePool
<1>13. ASSUME NEW t \in Threads, SpuriousWakeup(t)
      PROVE  FlagsOK'
  BY Zenon, <1>13 DEF SpuriousWakeup
<1> QED
  BY ONLY Zenon, Next, <1>1, <1>2, <1>3, <1>4, <1>5, <1>6, <1>7, <1>8, <1>9, <1>10,
     <1>11, <1>12, <1>13 DEF Next, WorkerStep, ClientCall, ClientStep, Threads

(* The loop index and threads_total stay within num_threads. *)
LEMMA CounterStep ==
  ASSUME TypeOK, Next
  PROVE  {n, total}' \subseteq 0 .. NumThreads
<1> USE ThreadAssumption DEF TypeOK, CountersOK, ctlVars, At, Goto, Acquire,
   Unlock
<1>1. ASSUME NEW t \in Workers, ThreadLife(t)
      PROVE  {n, total}' \subseteq 0 .. NumThreads
  BY Zenon, <1>1 DEF ThreadLife, ThreadStart, StartUnlock, LoopTest, ThreadExit,
     ExitUnlock
<1>2. ASSUME NEW t \in Workers, GetTurn(t)
      PROVE  {n, total}' \subseteq 0 .. NumThreads
  BY Zenon, <1>2 DEF GetTurn, BsemWait, BsemUnlock, CheckKeepalive, StartWorking,
     WorkUnlock
<1>3. ASSUME NEW t \in Workers, Pull(t)
      PROVE  {n, total}' \subseteq 0 .. NumThreads
  BY Zenon, <1>3 DEF Pull, PullJob, PullPost, PullPostUnlock, PullUnlock, BsemPost,
     Signal, AllAt
<1>4. ASSUME NEW t \in Workers, JobReturn(t)
      PROVE  {n, total}' \subseteq 0 .. NumThreads
  BY Zenon, <1>4 DEF JobReturn
<1>5. ASSUME NEW t \in Workers, Rest(t)
      PROVE  {n, total}' \subseteq 0 .. NumThreads
  BY Zenon, <1>5 DEF Rest, StopWorking, RestUnlock, Signal, AllAt
<1>6. ASSUME NEW t \in Workers, Handler(t)
      PROVE  {n, total}' \subseteq 0 .. NumThreads
  BY Zenon, <1>6 DEF Handler, HoldSignal, HoldReturn
<1>7. ASSUME NEW t \in Threads, AddWork(t)
      PROVE  {n, total}' \subseteq 0 .. NumThreads
  BY Zenon, <1>7 DEF AddWork
<1>8. ASSUME NEW t \in Threads, Push(t)
      PROVE  {n, total}' \subseteq 0 .. NumThreads
  BY Zenon, <1>8 DEF Push, PushJob, PushPost, PushPostUnlock, PushUnlock, BsemPost,
     Signal, AllAt
<1>9. ASSUME NEW t \in Clients, InitPool(t) \/ InitStep(t)
      PROVE  {n, total}' \subseteq 0 .. NumThreads
  BY <1>9 DEF InitPool, JobqueueInit, InitStep, CreateThread, InitReturn
<1>10. ASSUME NEW t \in Clients, WaitCall(t) \/ WaitStep(t)
      PROVE  {n, total}' \subseteq 0 .. NumThreads
  BY Zenon, <1>10 DEF WaitCall, WaitStep, WaitTest, WaitReturn
<1>11. ASSUME NEW t \in Clients, PauseCall(t) \/ ResumeCall(t) \/ PauseStep(t)
      PROVE  {n, total}' \subseteq 0 .. NumThreads
  BY <1>11 DEF PauseCall, ResumeCall, PauseStep, PauseThread, ResumePool
<1>12. ASSUME NEW t \in Clients, DestroyCall(t) \/ DestroyStep(t)
      PROVE  {n, total}' \subseteq 0 .. NumThreads
  BY Zenon, <1>12 DEF DestroyCall, DestroyStep, DestroyPoll, DestroyPostUnlock,
     DestroyClear, ClearJob, FreePool
<1>13. ASSUME NEW t \in Threads, SpuriousWakeup(t)
      PROVE  {n, total}' \subseteq 0 .. NumThreads
  BY Zenon, <1>13 DEF SpuriousWakeup
<1> QED
  BY ONLY Zenon, Next, <1>1, <1>2, <1>3, <1>4, <1>5, <1>6, <1>7, <1>8, <1>9, <1>10,
     <1>11, <1>12, <1>13 DEF Next, WorkerStep, ClientCall, ClientStep, Threads

(* The jobs keep their types. *)
LEMMA JobsStep ==
  ASSUME TypeOK, JobHolder, Next
  PROVE  JobsOK'
<1> DEFINE Same == <<jobVars, seen>>' = <<jobVars, seen>>
<1>0. Same => JobsOK'
  BY Zenon DEF TypeOK, JobsOK, jobVars
<1> USE DEF TypeOK, jobVars, At, Goto, Acquire, Unlock
<1>1. ASSUME NEW t \in Workers, ThreadLife(t)
      PROVE  Same
  BY Zenon, <1>1 DEF ThreadLife, ThreadStart, StartUnlock, LoopTest, ThreadExit,
     ExitUnlock
<1>2. ASSUME NEW t \in Workers, GetTurn(t)
      PROVE  Same
  BY Zenon, <1>2 DEF GetTurn, BsemWait, BsemUnlock, CheckKeepalive, StartWorking,
     WorkUnlock
<1>3. ASSUME NEW t \in Workers, Pull(t)
      PROVE  JobsOK'
  <2>1. CASE PullJob(t) /\ queue = <<>>
    <3>1. /\ job' = [job EXCEPT ![t] = NULL]
          /\ UNCHANGED <<queue, pushed, finished, dropped, seen>>
      BY Zenon, <2>1 DEF PullJob
    <3>2. NULL \in 0 .. pushed
      BY DEF JobsOK, NULL
    <3> QED
      BY Zenon, <3>1, <3>2 DEF JobsOK
  <2>2. CASE PullJob(t) /\ queue # <<>>
    <3>1. Head(queue) \in 1 .. pushed /\ Tail(queue) \in Seq(1 .. pushed)
      BY <2>2 DEF JobsOK
    <3>2. /\ job' = [job EXCEPT ![t] = Head(queue)]
          /\ queue' = Tail(queue)
          /\ UNCHANGED <<pushed, finished, dropped, seen>>
      BY Zenon, <2>2 DEF PullJob
    <3>3. Head(queue) \in 0 .. pushed
      BY <3>1 DEF JobsOK
    <3> QED
      BY Zenon, <3>1, <3>2, <3>3 DEF JobsOK
  <2>3. CASE PullPost(t) \/ PullPostUnlock(t) \/ PullUnlock(t)
    <3>1. Same
      BY Zenon, <2>3 DEF PullPost, PullPostUnlock, PullUnlock
    <3> QED
      BY ONLY Zenon, <1>0, <3>1
  <2> QED
    BY ONLY Zenon, <1>3, <2>1, <2>2, <2>3 DEF Pull
<1>4. ASSUME NEW t \in Workers, JobReturn(t)
      PROVE  JobsOK'
  <2>1. job[t] \in 1 .. pushed
    BY <1>4 DEF JobReturn, JobHolder, Executing, JobsOK, NULL
  <2>2. /\ job' = [job EXCEPT ![t] = NULL]
        /\ finished' = finished \cup {job[t]}
        /\ UNCHANGED <<queue, pushed, dropped, seen>>
    BY Zenon, <1>4 DEF JobReturn
  <2>3. NULL \in 0 .. pushed
    BY DEF JobsOK, NULL
  <2> QED
    BY Zenon, <2>1, <2>2, <2>3 DEF JobsOK
<1>5. ASSUME NEW t \in Workers, Rest(t)
      PROVE  Same
  BY Zenon, <1>5 DEF Rest, StopWorking, RestUnlock, Signal, AllAt
<1>6. ASSUME NEW t \in Workers, Handler(t)
      PROVE  Same
  BY Zenon, <1>6 DEF Handler, HoldSignal, HoldReturn
<1>7. ASSUME NEW t \in Threads, AddWork(t)
      PROVE  Same
  BY Zenon, <1>7 DEF AddWork
<1>8. ASSUME NEW t \in Threads, Push(t)
      PROVE  JobsOK'
  <2>1. CASE PushJob(t)
    <3>1. 1 .. pushed \subseteq 1 .. pushed + 1 /\ 0 .. pushed \subseteq 0 .. pushed + 1
      BY DEF JobsOK
    <3>2. queue \in Seq(1 .. pushed + 1)
      BY Zenon, <3>1, SeqMonotonic DEF JobsOK
    <3>3. pushed' = pushed + 1 /\ queue' = Append(queue, pushed + 1)
      BY Zenon, <2>1 DEF PushJob
    <3>4. pushed' \in Nat /\ queue' \in Seq(1 .. pushed')
      BY <3>2, <3>3 DEF JobsOK
    <3>5. UNCHANGED <<job, finished, dropped, seen>>
      BY Zenon, <2>1 DEF PushJob
    <3> QED
      BY Zenon, <3>1, <3>3, <3>4, <3>5 DEF JobsOK
  <2>2. CASE PushPost(t) \/ PushPostUnlock(t) \/ PushUnlock(t)
    <3>1. Same
      BY Zenon, <2>2 DEF PushPost, PushPostUnlock, PushUnlock
    <3> QED
      BY ONLY Zenon, <1>0, <3>1
  <2> QED
    BY ONLY Zenon, <1>8, <2>1, <2>2 DEF Push
<1>9. ASSUME NEW t \in Clients, InitPool(t) \/ InitStep(t)
      PROVE  JobsOK'
  <2>1. queue' \in Seq(1 .. pushed)
    <3>1. queue' = queue \/ queue' = <<>>
      BY Zenon, <1>9 DEF InitPool, JobqueueInit, InitStep, CreateThread, InitReturn
    <3>2. queue \in Seq(1 .. pushed) /\ <<>> \in Seq(1 .. pushed)
      BY DEF JobsOK
    <3> QED
      BY ONLY Zenon, <3>1, <3>2
  <2>2. UNCHANGED <<job, pushed, finished, dropped, seen>>
    BY Zenon, <1>9 DEF InitPool, JobqueueInit, InitStep, CreateThread, InitReturn
  <2> QED
    BY Zenon, <2>1, <2>2 DEF JobsOK
<1>10. ASSUME NEW t \in Clients, WaitCall(t) \/ WaitStep(t)
      PROVE  JobsOK'
  <2>1. CASE WaitCall(t)
    BY <2>1 DEF WaitCall, JobsOK
  <2>2. CASE WaitStep(t)
    <3>1. Same
      BY Zenon, <2>2 DEF WaitStep, WaitTest, WaitReturn
    <3> QED
      BY ONLY Zenon, <1>0, <3>1
  <2> QED
    BY ONLY Zenon, <1>10, <2>1, <2>2
<1>11. ASSUME NEW t \in Clients, PauseCall(t) \/ ResumeCall(t) \/ PauseStep(t)
      PROVE  Same
  BY Zenon, <1>11 DEF PauseCall, ResumeCall, PauseStep, PauseThread, ResumePool
<1>12. ASSUME NEW t \in Clients, DestroyCall(t) \/ DestroyStep(t)
      PROVE  JobsOK'
  <2>1. CASE DestroyClear(t) /\ queue # <<>>
    <3>1. Head(queue) \in 1 .. pushed /\ Tail(queue) \in Seq(1 .. pushed)
      BY <2>1 DEF JobsOK
    <3> QED
      BY Zenon, <2>1, <3>1 DEF DestroyClear, ClearJob, FreePool, JobsOK
  <2>2. CASE ~(DestroyClear(t) /\ queue # <<>>)
    <3>1. <<jobVars, seen>>' = <<jobVars, seen>>
      BY Zenon, <1>12, <2>2 DEF DestroyCall, DestroyStep, DestroyPoll,
         DestroyPostUnlock, DestroyClear, ClearJob, FreePool
    <3> QED
      BY ONLY Zenon, <1>0, <3>1
  <2> QED
    BY Zenon, <2>1, <2>2
<1>13. ASSUME NEW t \in Threads, SpuriousWakeup(t)
      PROVE  Same
  BY Zenon, <1>13 DEF SpuriousWakeup
<1> QED
  BY ONLY Zenon, Next, <1>0, <1>1, <1>2, <1>3, <1>4, <1>5, <1>6, <1>7, <1>8,
     <1>9, <1>10, <1>11, <1>12, <1>13 DEF Next, WorkerStep, ClientCall,
     ClientStep, Threads

(* Mutual exclusion: a mutex changes hands only as its critical section does. *)
LEMMA LockStep ==
  ASSUME TypeOK, PoolPhase, LockOwner, Next
  PROVE  LockOwner'
<1> USE TypedFacts DEF Typed, LockOwner, Mutexes, Critical, At, Goto, Acquire,
   Unlock
<1>1. ASSUME NEW t \in Workers, ThreadLife(t)
      PROVE  LockOwner'
  BY <1>1 DEF ThreadLife, ThreadStart, StartUnlock, LoopTest, ThreadExit,
     ExitUnlock
<1>2. ASSUME NEW t \in Workers, GetTurn(t)
      PROVE  LockOwner'
  BY <1>2 DEF GetTurn, BsemWait, BsemUnlock, CheckKeepalive, StartWorking,
     WorkUnlock
<1>3. ASSUME NEW t \in Workers, Pull(t)
      PROVE  LockOwner'
  BY <1>3 DEF Pull, PullJob, PullPost, PullPostUnlock, PullUnlock, BsemPost,
     Signal, AllAt
<1>4. ASSUME NEW t \in Workers, JobReturn(t)
      PROVE  LockOwner'
  BY <1>4 DEF JobReturn
<1>5. ASSUME NEW t \in Workers, Rest(t)
      PROVE  LockOwner'
  BY <1>5 DEF Rest, StopWorking, RestUnlock, Signal, AllAt
<1>6. ASSUME NEW t \in Workers, Handler(t)
      PROVE  LockOwner'
  BY <1>6 DEF Handler, HoldSignal, HoldReturn
<1>7. ASSUME NEW t \in Threads, AddWork(t)
      PROVE  LockOwner'
  BY <1>7 DEF AddWork
<1>8. ASSUME NEW t \in Threads, Push(t)
      PROVE  LockOwner'
  BY <1>8 DEF Push, PushJob, PushPost, PushPostUnlock, PushUnlock, BsemPost,
     Signal, AllAt
<1>9. ASSUME NEW t \in Clients, InitPool(t) \/ InitStep(t)
      PROVE  LockOwner'
  <2>1. CASE InitPool(t) \/ InitReturn(t)
    BY <2>1 DEF InitPool, JobqueueInit, InitReturn
  <2>2. CASE CreateThread(t)
    <3>1. n \in Workers /\ pc[n] = "none"
      BY ONLY Zenon, <2>2, FreshThread, TypeOK, PoolPhase, t \in Clients
    <3> QED
      BY <2>2, <3>1 DEF CreateThread
  <2> QED
    BY ONLY Zenon, <1>9, <2>1, <2>2 DEF InitStep
<1>10. ASSUME NEW t \in Clients, WaitCall(t) \/ WaitStep(t)
      PROVE  LockOwner'
  BY <1>10 DEF WaitCall, WaitStep, WaitTest, WaitReturn
<1>11. ASSUME NEW t \in Clients, PauseCall(t) \/ ResumeCall(t) \/ PauseStep(t)
      PROVE  LockOwner'
  BY <1>11 DEF PauseCall, ResumeCall, PauseStep, PauseThread, ResumePool
<1>12. ASSUME NEW t \in Clients, DestroyCall(t) \/ DestroyStep(t)
      PROVE  LockOwner'
  BY <1>12 DEF DestroyCall, DestroyStep, DestroyPoll, DestroyPostUnlock,
     DestroyClear, ClearJob, FreePool
<1>13. ASSUME NEW t \in Threads, SpuriousWakeup(t)
      PROVE  LockOwner'
  BY <1>13 DEF SpuriousWakeup
<1> QED
  BY ONLY Zenon, Next, <1>1, <1>2, <1>3, <1>4, <1>5, <1>6, <1>7, <1>8, <1>9, <1>10,
     <1>11, <1>12, <1>13 DEF Next, WorkerStep, ClientCall, ClientStep, Threads
-------------------------------------------------------------------------------
(* The thread counters and the jobs.                                        *)

(* num_threads_alive stays exact. *)
LEMMA AliveStep ==
  ASSUME TypeOK, PoolPhase, AliveCount, Next
  PROVE  AliveCount'
<1> DEFINE Same == AliveZone' = AliveZone /\ alive' = alive
<1>0. Same => AliveCount'
  BY Zenon DEF AliveCount
<1> USE TypedFacts DEF Typed, AliveZone, At, Goto, Acquire, Unlock
<1>1. ASSUME NEW t \in Workers, ThreadLife(t)
      PROVE  AliveCount'
  <2>1. CASE ThreadStart(t)
    <3>1. AliveZone' = AliveZone \cup {t} /\ t \notin AliveZone
      BY Zenon, <2>1 DEF ThreadStart
    <3>2. alive' = alive + 1
      BY Zenon, <2>1 DEF ThreadStart
    <3> QED
      <4> HIDE DEF AliveZone
      <4> QED
        BY Zenon, <3>1, <3>2, AliveZoneFinite, FS_AddElement DEF AliveCount
  <2>2. CASE ThreadExit(t)
    <3>1. AliveZone' = AliveZone \ {t} /\ t \in AliveZone
      BY Zenon, <2>2 DEF ThreadExit
    <3>2. alive' = alive - 1
      BY Zenon, <2>2 DEF ThreadExit
    <3> QED
      <4> HIDE DEF AliveZone
      <4> QED
        BY Zenon, <3>1, <3>2, AliveZoneFinite, FS_RemoveElement DEF AliveCount
  <2>3. CASE StartUnlock(t) \/ LoopTest(t) \/ ExitUnlock(t)
    <3>1. Same
      BY <2>3 DEF StartUnlock, LoopTest, ExitUnlock
    <3> QED
      BY ONLY Zenon, <1>0, <3>1
  <2> QED
    BY ONLY Zenon, <1>1, <2>1, <2>2, <2>3 DEF ThreadLife
<1>2. ASSUME NEW t \in Workers, GetTurn(t)
      PROVE  Same
  BY Zenon, <1>2 DEF GetTurn, BsemWait, BsemUnlock, CheckKeepalive, StartWorking,
     WorkUnlock
<1>3. ASSUME NEW t \in Workers, Pull(t)
      PROVE  Same
  BY Zenon, <1>3 DEF Pull, PullJob, PullPost, PullPostUnlock, PullUnlock, BsemPost,
     Signal, AllAt
<1>4. ASSUME NEW t \in Workers, JobReturn(t)
      PROVE  Same
  BY Zenon, <1>4 DEF JobReturn
<1>5. ASSUME NEW t \in Workers, Rest(t)
      PROVE  Same
  BY Zenon, <1>5 DEF Rest, StopWorking, RestUnlock, Signal, AllAt
<1>6. ASSUME NEW t \in Workers, Handler(t)
      PROVE  Same
  BY Zenon, <1>6 DEF Handler, HoldSignal, HoldReturn
<1>7. ASSUME NEW t \in Threads, AddWork(t)
      PROVE  Same
  BY Zenon, <1>7 DEF AddWork
<1>8. ASSUME NEW t \in Threads, Push(t)
      PROVE  Same
  BY Zenon, <1>8 DEF Push, PushJob, PushPost, PushPostUnlock, PushUnlock, BsemPost,
     Signal, AllAt
<1>9. ASSUME NEW t \in Clients, InitPool(t) \/ InitStep(t)
      PROVE  AliveCount'
  <2>1. CASE InitPool(t)
    <3>1. CASE pool' = "none"
      <4>1. Same
        BY Zenon, <2>1, <3>1 DEF InitPool, JobqueueInit
      <4> QED
        BY Zenon, <1>0, <4>1
    <3>2. CASE pool' = "init"
      <4>1. AliveZone' = {}
        BY Zenon, <2>1, <3>2 DEF InitPool, JobqueueInit, PoolPhase
      <4>2. alive' = 0
        BY Zenon, <2>1, <3>2 DEF InitPool, JobqueueInit, PoolPhase
      <4> HIDE DEF AliveZone
      <4> QED
        BY Zenon, <4>1, <4>2, FS_EmptySet DEF AliveCount
    <3> QED
      BY Zenon, <2>1, <3>1, <3>2 DEF InitPool, JobqueueInit
  <2>2. CASE InitReturn(t)
    <3>1. Same
      BY Zenon, <2>2 DEF InitReturn
    <3> QED
      BY ONLY Zenon, <1>0, <3>1
  <2>3. CASE CreateThread(t)
    <3>1. n \in Workers /\ pc[n] = "none"
      BY ONLY Zenon, <2>3, FreshThread, TypeOK, PoolPhase, t \in Clients
    <3>2. Same
      BY Zenon, <2>3, <3>1 DEF CreateThread
    <3> QED
      BY ONLY Zenon, <1>0, <3>2
  <2> QED
    BY ONLY Zenon, <1>9, <2>1, <2>2, <2>3 DEF InitStep
<1>10. ASSUME NEW t \in Clients, WaitCall(t) \/ WaitStep(t)
      PROVE  Same
  BY Zenon, <1>10 DEF WaitCall, WaitStep, WaitTest, WaitReturn
<1>11. ASSUME NEW t \in Clients, PauseCall(t) \/ ResumeCall(t) \/ PauseStep(t)
      PROVE  Same
  BY Zenon, <1>11 DEF PauseCall, ResumeCall, PauseStep, PauseThread, ResumePool
<1>12. ASSUME NEW t \in Clients, DestroyCall(t) \/ DestroyStep(t)
      PROVE  Same
  BY Zenon, <1>12 DEF DestroyCall, DestroyStep, DestroyPoll, DestroyPostUnlock,
     DestroyClear, ClearJob, FreePool
<1>13. ASSUME NEW t \in Threads, SpuriousWakeup(t)
      PROVE  Same
  BY Zenon, <1>13 DEF SpuriousWakeup
<1> QED
  BY ONLY Zenon, Next, <1>0, <1>1, <1>2, <1>3, <1>4, <1>5, <1>6, <1>7, <1>8,
     <1>9, <1>10, <1>11, <1>12, <1>13 DEF Next, WorkerStep, ClientCall,
     ClientStep, Threads

(* num_threads_working stays exact. *)
LEMMA WorkingStep ==
  ASSUME TypeOK, PoolPhase, WorkingExact, Next
  PROVE  WorkingExact'
<1> DEFINE Same == WorkZone' = WorkZone /\ working' = working
<1>0. Same => WorkingExact'
  BY Zenon DEF WorkingExact
<1> USE TypedFacts DEF Typed, WorkZone, WorkLabels, PullLabels, PushLabels,
   At, Goto, Acquire, Unlock
<1>1. ASSUME NEW t \in Workers, ThreadLife(t)
      PROVE  Same
  BY Zenon, <1>1 DEF ThreadLife, ThreadStart, StartUnlock, LoopTest, ThreadExit,
     ExitUnlock
<1>2. ASSUME NEW t \in Workers, GetTurn(t)
      PROVE  WorkingExact'
  <2>1. CASE StartWorking(t)
    <3>1. WorkZone' = WorkZone \cup {t} /\ t \notin WorkZone
      BY Zenon, <2>1 DEF StartWorking
    <3>2. working' = working + 1
      BY Zenon, <2>1 DEF StartWorking
    <3> QED
      <4> HIDE DEF WorkZone
      <4> QED
        BY Zenon, <3>1, <3>2, WorkZoneFinite, FS_AddElement DEF WorkingExact
  <2>2. CASE BsemWait(t) \/ BsemUnlock(t) \/ CheckKeepalive(t) \/ WorkUnlock(t)
    <3>1. Same
      BY <2>2 DEF BsemWait, BsemUnlock, CheckKeepalive, WorkUnlock
    <3> QED
      BY ONLY Zenon, <1>0, <3>1
  <2> QED
    BY ONLY Zenon, <1>2, <2>1, <2>2 DEF GetTurn
<1>3. ASSUME NEW t \in Workers, Pull(t)
      PROVE  Same
  BY <1>3 DEF Pull, PullJob, PullPost, PullPostUnlock, PullUnlock, BsemPost,
     Signal, AllAt
<1>4. ASSUME NEW t \in Workers, JobReturn(t)
      PROVE  Same
  BY Zenon, <1>4 DEF JobReturn
<1>5. ASSUME NEW t \in Workers, Rest(t)
      PROVE  WorkingExact'
  <2>1. CASE StopWorking(t)
    <3>1. WorkZone' = WorkZone \ {t} /\ t \in WorkZone
      BY <2>1 DEF StopWorking, Signal, AllAt
    <3>2. working' = working - 1
      BY Zenon, <2>1 DEF StopWorking
    <3> QED
      <4> HIDE DEF WorkZone
      <4> QED
        BY Zenon, <3>1, <3>2, WorkZoneFinite, FS_RemoveElement DEF WorkingExact
  <2>2. CASE RestUnlock(t)
    <3>1. Same
      BY Zenon, <2>2 DEF RestUnlock
    <3> QED
      BY ONLY Zenon, <1>0, <3>1
  <2> QED
    BY ONLY Zenon, <1>5, <2>1, <2>2 DEF Rest
<1>6. ASSUME NEW t \in Workers, Handler(t)
      PROVE  Same
  BY Zenon, <1>6 DEF Handler, HoldSignal, HoldReturn
<1>7. ASSUME NEW t \in Threads, AddWork(t)
      PROVE  Same
  BY Zenon, <1>7 DEF AddWork
<1>8. ASSUME NEW t \in Threads, Push(t)
      PROVE  Same
  BY <1>8 DEF Push, PushJob, PushPost, PushPostUnlock, PushUnlock, BsemPost,
     Signal, AllAt
<1>9. ASSUME NEW t \in Clients, InitPool(t) \/ InitStep(t)
      PROVE  WorkingExact'
  <2>1. CASE InitPool(t)
    <3>1. CASE pool' = "none"
      <4>1. Same
        BY Zenon, <2>1, <3>1 DEF InitPool, JobqueueInit
      <4> QED
        BY Zenon, <1>0, <4>1
    <3>2. CASE pool' = "init"
      <4>1. WorkZone' = {}
        BY Zenon, <2>1, <3>2 DEF InitPool, JobqueueInit, PoolPhase
      <4>2. working' = 0
        BY Zenon, <2>1, <3>2 DEF InitPool, JobqueueInit, PoolPhase
      <4> HIDE DEF WorkZone
      <4> QED
        BY Zenon, <4>1, <4>2, FS_EmptySet DEF WorkingExact
    <3> QED
      BY Zenon, <2>1, <3>1, <3>2 DEF InitPool, JobqueueInit
  <2>2. CASE InitReturn(t)
    <3>1. Same
      BY Zenon, <2>2 DEF InitReturn
    <3> QED
      BY ONLY Zenon, <1>0, <3>1
  <2>3. CASE CreateThread(t)
    <3>1. n \in Workers /\ pc[n] = "none"
      BY ONLY Zenon, <2>3, FreshThread, TypeOK, PoolPhase, t \in Clients
    <3>2. Same
      BY Zenon, <2>3, <3>1 DEF CreateThread
    <3> QED
      BY ONLY Zenon, <1>0, <3>2
  <2> QED
    BY ONLY Zenon, <1>9, <2>1, <2>2, <2>3 DEF InitStep
<1>10. ASSUME NEW t \in Clients, WaitCall(t) \/ WaitStep(t)
      PROVE  Same
  BY Zenon, <1>10 DEF WaitCall, WaitStep, WaitTest, WaitReturn
<1>11. ASSUME NEW t \in Clients, PauseCall(t) \/ ResumeCall(t) \/ PauseStep(t)
      PROVE  Same
  BY Zenon, <1>11 DEF PauseCall, ResumeCall, PauseStep, PauseThread, ResumePool
<1>12. ASSUME NEW t \in Clients, DestroyCall(t) \/ DestroyStep(t)
      PROVE  Same
  BY <1>12 DEF DestroyCall, DestroyStep, DestroyPoll, DestroyPostUnlock,
     DestroyClear, ClearJob, FreePool
<1>13. ASSUME NEW t \in Threads, SpuriousWakeup(t)
      PROVE  Same
  BY Zenon, <1>13 DEF SpuriousWakeup
<1> QED
  BY ONLY Zenon, Next, <1>0, <1>1, <1>2, <1>3, <1>4, <1>5, <1>6, <1>7, <1>8,
     <1>9, <1>10, <1>11, <1>12, <1>13 DEF Next, WorkerStep, ClientCall,
     ClientStep, Threads

(* A worker has a job exactly while it executes one. *)
LEMMA HolderStep ==
  ASSUME TypeOK, PoolPhase, JobHolder, Next
  PROVE  JobHolder'
<1> USE TypedFacts, JobTyped DEF Typed, JobHolder, Executing, PushLabels,
   jobVars, At, Goto, Acquire, Unlock
<1>1. ASSUME NEW t \in Workers, ThreadLife(t)
      PROVE  JobHolder'
  BY <1>1 DEF ThreadLife, ThreadStart, StartUnlock, LoopTest, ThreadExit,
     ExitUnlock
<1>2. ASSUME NEW t \in Workers, GetTurn(t)
      PROVE  JobHolder'
  BY <1>2 DEF GetTurn, BsemWait, BsemUnlock, CheckKeepalive, StartWorking,
     WorkUnlock
<1>3. ASSUME NEW t \in Workers, Pull(t)
      PROVE  JobHolder'
  BY <1>3 DEF Pull, PullJob, PullPost, PullPostUnlock, PullUnlock, BsemPost,
     Signal, AllAt
<1>4. ASSUME NEW t \in Workers, JobReturn(t)
      PROVE  JobHolder'
  BY Zenon, <1>4 DEF JobReturn
<1>5. ASSUME NEW t \in Workers, Rest(t)
      PROVE  JobHolder'
  BY <1>5 DEF Rest, StopWorking, RestUnlock, Signal, AllAt
<1>6. ASSUME NEW t \in Workers, Handler(t)
      PROVE  JobHolder'
  BY Zenon, <1>6 DEF Handler, HoldSignal, HoldReturn
<1>7. ASSUME NEW t \in Threads, AddWork(t)
      PROVE  JobHolder'
  BY Zenon, <1>7 DEF AddWork
<1>8. ASSUME NEW t \in Threads, Push(t)
      PROVE  JobHolder'
  BY <1>8 DEF Push, PushJob, PushPost, PushPostUnlock, PushUnlock, BsemPost,
     Signal, AllAt
<1>9. ASSUME NEW t \in Clients, InitPool(t) \/ InitStep(t)
      PROVE  JobHolder'
  <2>1. CASE InitPool(t) \/ InitReturn(t)
    BY Zenon, <2>1 DEF InitPool, JobqueueInit, InitReturn, PoolPhase
  <2>2. CASE CreateThread(t)
    <3>1. n \in Workers /\ pc[n] = "none"
      BY ONLY Zenon, <2>2, FreshThread, TypeOK, PoolPhase, t \in Clients
    <3> QED
      BY Zenon, <2>2, <3>1 DEF CreateThread
  <2> QED
    BY ONLY Zenon, <1>9, <2>1, <2>2 DEF InitStep
<1>10. ASSUME NEW t \in Clients, WaitCall(t) \/ WaitStep(t)
      PROVE  JobHolder'
  BY Zenon, <1>10 DEF WaitCall, WaitStep, WaitTest, WaitReturn
<1>11. ASSUME NEW t \in Clients, PauseCall(t) \/ ResumeCall(t) \/ PauseStep(t)
      PROVE  JobHolder'
  BY Zenon, <1>11 DEF PauseCall, ResumeCall, PauseStep, PauseThread, ResumePool
<1>12. ASSUME NEW t \in Clients, DestroyCall(t) \/ DestroyStep(t)
      PROVE  JobHolder'
  BY <1>12 DEF DestroyCall, DestroyStep, DestroyPoll, DestroyPostUnlock,
     DestroyClear, ClearJob, FreePool
<1>13. ASSUME NEW t \in Threads, SpuriousWakeup(t)
      PROVE  JobHolder'
  BY Zenon, <1>13 DEF SpuriousWakeup
<1> QED
  BY ONLY Zenon, Next, <1>1, <1>2, <1>3, <1>4, <1>5, <1>6, <1>7, <1>8, <1>9, <1>10,
     <1>11, <1>12, <1>13 DEF Next, WorkerStep, ClientCall, ClientStep, Threads

(* First in first out, and each job in one place. *)
LEMMA AccountingStep ==
  ASSUME TypeOK, PoolPhase, JobHolder, JobAccounting, Next
  PROVE  JobAccounting'
<1> DEFINE Same == jobVars' = jobVars
<1>0. Same => JobAccounting'
  BY Zenon DEF JobAccounting, Taken, jobVars
<1> USE TypedFacts, JobTyped DEF Typed, At, Goto, Acquire, Unlock
<1>1. ASSUME NEW t \in Workers, ThreadLife(t)
      PROVE  Same
  BY Zenon, <1>1 DEF ThreadLife, ThreadStart, StartUnlock, LoopTest, ThreadExit,
     ExitUnlock
<1>2. ASSUME NEW t \in Workers, GetTurn(t)
      PROVE  Same
  BY Zenon, <1>2 DEF GetTurn, BsemWait, BsemUnlock, CheckKeepalive, StartWorking,
     WorkUnlock
<1>3. ASSUME NEW t \in Workers, Pull(t)
      PROVE  JobAccounting'
  <2>1. CASE PullJob(t) /\ queue = <<>>
    <3>1. Same
      BY Zenon, <2>1 DEF PullJob, jobVars, JobHolder, Executing, PushLabels
    <3> QED
      BY ONLY Zenon, <1>0, <3>1
  <2>2. CASE PullJob(t) /\ queue # <<>>
    <3>1. /\ job[t] = NULL
          /\ job' = [job EXCEPT ![t] = Head(queue)]
          /\ queue' = Tail(queue)
          /\ UNCHANGED <<pushed, finished, dropped>>
      BY Zenon, <2>2 DEF PullJob, JobHolder, Executing, PushLabels
    <3>2. Taken' = Taken \cup {Head(queue)}
      BY <3>1, <2>2, TakeHead DEF Taken
    <3>3. \A w \in Workers : job[w] # Head(queue)
      BY <2>2, TakeHead DEF JobAccounting, Taken
    <3> QED
      BY <2>2, <3>1, <3>2, <3>3, TakeHead DEF JobAccounting
  <2>3. CASE PullPost(t) \/ PullPostUnlock(t) \/ PullUnlock(t)
    <3>1. Same
      BY Zenon, <2>3 DEF PullPost, PullPostUnlock, PullUnlock
    <3> QED
      BY ONLY Zenon, <1>0, <3>1
  <2> QED
    BY ONLY Zenon, <1>3, <2>1, <2>2, <2>3 DEF Pull
<1>4. ASSUME NEW t \in Workers, JobReturn(t)
      PROVE  JobAccounting'
  <2>1. /\ job[t] # NULL
        /\ job' = [job EXCEPT ![t] = NULL]
        /\ finished' = finished \cup {job[t]}
        /\ UNCHANGED <<queue, pushed, dropped>>
    BY Zenon, <1>4 DEF JobReturn, JobHolder, Executing
  <2>2. Taken' = Taken \ {job[t]} /\ job[t] \in Taken
    BY <2>1 DEF Taken, JobAccounting
  <2> QED
    BY <2>1, <2>2 DEF JobAccounting
<1>5. ASSUME NEW t \in Workers, Rest(t)
      PROVE  Same
  BY Zenon, <1>5 DEF Rest, StopWorking, RestUnlock, Signal, AllAt
<1>6. ASSUME NEW t \in Workers, Handler(t)
      PROVE  Same
  BY Zenon, <1>6 DEF Handler, HoldSignal, HoldReturn
<1>7. ASSUME NEW t \in Threads, AddWork(t)
      PROVE  Same
  BY Zenon, <1>7 DEF AddWork
<1>8. ASSUME NEW t \in Threads, Push(t)
      PROVE  JobAccounting'
  <2>1. CASE PushJob(t)
    <3>1. /\ queue' = Append(queue, pushed + 1)
          /\ pushed' = pushed + 1
          /\ UNCHANGED <<job, finished, dropped>>
      BY Zenon, <2>1 DEF PushJob
    <3>2. /\ Len(queue') = Len(queue) + 1
          /\ \A i \in 1 .. Len(queue) : queue'[i] = queue[i]
          /\ queue'[Len(queue) + 1] = pushed + 1
      BY <3>1 DEF TypeOK, JobsOK
    <3>3. Taken' = Taken
      BY Zenon, <3>1 DEF Taken
    <3>4. pushed \in Nat /\ Len(queue) \in Nat
      BY Zenon, QueueFacts DEF TypeOK, JobsOK
    <3>5. pushed' - Len(queue') = pushed - Len(queue)
      BY <3>1, <3>2, <3>4
    <3>6. \A i \in 1 .. Len(queue') : queue'[i] = pushed' - Len(queue') + i
      BY <3>1, <3>2, <3>4, <3>5 DEF JobAccounting
    <3> QED
      BY Zenon, <3>1, <3>3, <3>5, <3>6 DEF JobAccounting
  <2>2. CASE PushPost(t) \/ PushPostUnlock(t) \/ PushUnlock(t)
    <3>1. Same
      BY Zenon, <2>2 DEF PushPost, PushPostUnlock, PushUnlock
    <3> QED
      BY ONLY Zenon, <1>0, <3>1
  <2> QED
    BY ONLY Zenon, <1>8, <2>1, <2>2 DEF Push
<1>9. ASSUME NEW t \in Clients, InitPool(t) \/ InitStep(t)
      PROVE  JobAccounting'
  <2>1. queue' = queue
    <3>1. CASE pool = "none"
      <4>1. queue = <<>>
        BY <3>1 DEF PoolPhase, TypeOK, JobsOK
      <4> QED
        BY Zenon, <1>9, <4>1 DEF InitPool, JobqueueInit, InitStep, CreateThread, InitReturn, jobVars
    <3>2. CASE pool # "none"
      BY Zenon, <1>9, <3>2 DEF InitPool, JobqueueInit, InitStep, CreateThread, InitReturn, jobVars
    <3> QED
      BY Zenon, <3>1, <3>2
  <2>2. UNCHANGED <<job, pushed, finished, dropped>>
    BY Zenon, <1>9 DEF InitPool, JobqueueInit, InitStep, CreateThread, InitReturn, jobVars
  <2> QED
    BY <2>1, <2>2 DEF JobAccounting, Taken
<1>10. ASSUME NEW t \in Clients, WaitCall(t) \/ WaitStep(t)
      PROVE  Same
  BY Zenon, <1>10 DEF WaitCall, WaitStep, WaitTest, WaitReturn
<1>11. ASSUME NEW t \in Clients, PauseCall(t) \/ ResumeCall(t) \/ PauseStep(t)
      PROVE  Same
  BY Zenon, <1>11 DEF PauseCall, ResumeCall, PauseStep, PauseThread, ResumePool
<1>12. ASSUME NEW t \in Clients, DestroyCall(t) \/ DestroyStep(t)
      PROVE  JobAccounting'
  <2>1. CASE DestroyClear(t) /\ queue # <<>>
    <3>1. /\ dropped' = dropped \cup {Head(queue)}
          /\ queue' = Tail(queue)
          /\ UNCHANGED <<job, pushed, finished>>
      BY Zenon, <2>1 DEF DestroyClear, ClearJob, FreePool
    <3>2. Taken' = Taken
      BY Zenon, <3>1 DEF Taken
    <3> QED
      BY <2>1, <3>1, <3>2, TakeHead DEF JobAccounting
  <2>2. CASE ~(DestroyClear(t) /\ queue # <<>>)
    <3>1. Same
      BY Zenon, <1>12, <2>2 DEF DestroyCall, DestroyStep, DestroyPoll, DestroyPostUnlock, DestroyClear, ClearJob, FreePool, jobVars
    <3> QED
      BY ONLY Zenon, <1>0, <3>1
  <2> QED
    BY Zenon, <2>1, <2>2
<1>13. ASSUME NEW t \in Threads, SpuriousWakeup(t)
      PROVE  Same
  BY Zenon, <1>13 DEF SpuriousWakeup
<1> QED
  BY ONLY Zenon, Next, <1>0, <1>1, <1>2, <1>3, <1>4, <1>5, <1>6, <1>7, <1>8,
     <1>9, <1>10, <1>11, <1>12, <1>13 DEF Next, WorkerStep, ClientCall,
     ClientStep, Threads
===============================================================================
