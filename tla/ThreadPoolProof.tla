---------------------------- MODULE ThreadPoolProof ----------------------------
(*****************************************************************************)
(* Theorems about the thread pool, for any number of worker threads, clients *)
(* and jobs, and for any program (Calls) that uses one pool.                 *)
(*                                                                           *)
(* ThreadPoolFacts and the first lemmas here show that each conjunct of      *)
(* IndInv is preserved; the others are about the phases from thpool_init to  *)
(* thpool_destroy, what thpool_wait has seen when it returns, and the        *)
(* wakeups of the semaphore.  Then they are put together, and the properties *)
(* follow from IndInv.                                                       *)
(*****************************************************************************)
EXTENDS ThreadPoolFacts

(* The phases of the pool. *)
LEMMA PhaseStep ==
  ASSUME TypeOK, AliveCount, PoolPhase, Next
  PROVE  PoolPhase'
<1> DEFINE Same ==
       /\ UNCHANGED <<pool, keepalive, total, alive, pushed, dropped>>
       /\ n' = n \/ pool = "live"
       /\ queue = <<>> => queue' = <<>>
       /\ \A w \in Workers :
            \/ pc'[w] = pc[w]
            \/ /\ pc[w] # "none"
               /\ pc'[w] \notin {"none", "start", "exit_unlock", "exited"}
               /\ pc'[w] = "exit_lock" => pool \notin {"init", "live"}
       /\ \A c \in Clients :
            \/ pc'[c] = pc[c]
            \/ /\ \/ pool = "live"
                  \/ pc[c] # "idle" /\ pc'[c] = "bsem_lock"
               /\ pc'[c] \notin {"init"} \cup DestroyLabels
<1>0. Same => PoolPhase'
  BY SMT DEF PoolPhase, DestroyLabels, WaitLabels, PushLabels
<1> USE TypedFacts DEF Typed, WaitLabels, DestroyLabels, PushLabels, jobVars,
   ctlVars, At, Goto, Acquire, Unlock
<1>1. ASSUME NEW t \in Workers, ThreadLife(t)
      PROVE  PoolPhase'
  <2>1. CASE ThreadStart(t)
    BY Zenon, <2>1 DEF ThreadStart, PoolPhase
  <2>2. CASE ThreadExit(t)
    <3>1. alive # 0
      BY Zenon, <2>2, NobodyAlive DEF AliveZone, ThreadExit, PoolPhase
    <3> QED
      BY Zenon, <2>2, <3>1 DEF ThreadExit, PoolPhase
  <2>3. CASE StartUnlock(t) \/ LoopTest(t)
    <3>1. Same
      BY <2>3 DEF StartUnlock, LoopTest, PoolPhase
    <3> QED
      BY ONLY Zenon, <1>0, <3>1
  <2>4. CASE ExitUnlock(t)
    BY Zenon, <2>4 DEF ExitUnlock, PoolPhase
  <2> QED
    BY ONLY Zenon, <1>1, <2>1, <2>2, <2>3, <2>4 DEF ThreadLife
<1>2. ASSUME NEW t \in Workers, GetTurn(t)
      PROVE  Same
  BY <1>2 DEF GetTurn, BsemWait, BsemUnlock, CheckKeepalive, StartWorking,
     WorkUnlock, PoolPhase
<1>3. ASSUME NEW t \in Workers, Pull(t)
      PROVE  Same
  BY <1>3 DEF Pull, PullJob, PullPost, PullPostUnlock, PullUnlock, BsemPost,
     Signal, AllAt
<1>4. ASSUME NEW t \in Workers, JobReturn(t)
      PROVE  Same
  BY Zenon, <1>4 DEF JobReturn
<1>5. ASSUME NEW t \in Workers, Rest(t)
      PROVE  Same
  BY <1>5 DEF Rest, StopWorking, RestUnlock, Signal, AllAt, PoolPhase
<1>6. ASSUME NEW t \in Workers, Handler(t)
      PROVE  Same
  BY Zenon, <1>6 DEF Handler, HoldSignal, HoldReturn
<1>7. ASSUME NEW t \in Threads, AddWork(t)
      PROVE  Same
  BY Zenon, <1>7 DEF AddWork, PoolPhase
<1>8. ASSUME NEW t \in Threads, Push(t)
      PROVE  PoolPhase'
  <2>1. CASE PushJob(t)
    <3>1. pool \notin {"none", "freed"}
      BY Zenon, <2>1, NobodyAlive DEF AliveZone, PushJob, PoolPhase
    <3> QED
      BY Zenon, <2>1, <3>1 DEF PushJob, PoolPhase
  <2>2. CASE PushPost(t) \/ PushPostUnlock(t) \/ PushUnlock(t)
    <3>1. Same
      BY <2>2 DEF PushPost, PushPostUnlock, PushUnlock, BsemPost, Signal, AllAt,
         PoolPhase
    <3> QED
      BY ONLY Zenon, <1>0, <3>1
  <2> QED
    BY ONLY Zenon, <1>8, <2>1, <2>2 DEF Push
<1>9. ASSUME NEW t \in Clients, InitPool(t) \/ InitStep(t)
      PROVE  PoolPhase'
  <2>1. CASE InitPool(t)
    <3>1. dropped = {}
      BY <2>1 DEF InitPool, JobqueueInit, TypeOK, JobsOK, PoolPhase
    <3> QED
      BY Zenon, <2>1, <3>1, ThreadAssumption DEF InitPool, JobqueueInit, PoolPhase
  <2>2. CASE CreateThread(t)
    <3>1. n \in Workers /\ pc[n] = "none"
      BY ONLY Zenon, <2>2, FreshThread, TypeOK, PoolPhase, t \in Clients
    <3>2. \A w \in Workers : w >= n + 1 => w >= n /\ w # n
      BY <3>1 DEF Workers
    <3> QED
      BY <2>2, <3>1, <3>2 DEF CreateThread, PoolPhase
  <2>3. CASE InitReturn(t)
    <3>1. AliveZone = Workers
      BY Zenon, <2>3, AllAlive DEF InitReturn, PoolPhase
    <3> QED
      BY Zenon, <2>3, <3>1 DEF InitReturn, AliveZone, PoolPhase
  <2> QED
    BY ONLY Zenon, <1>9, <2>1, <2>2, <2>3 DEF InitStep
<1>10. ASSUME NEW t \in Clients, WaitCall(t) \/ WaitStep(t)
      PROVE  Same
  BY Zenon, <1>10 DEF WaitCall, WaitStep, WaitTest, WaitReturn, PoolPhase
<1>11. ASSUME NEW t \in Clients, PauseCall(t) \/ ResumeCall(t) \/ PauseStep(t)
      PROVE  Same
  BY Zenon, <1>11 DEF PauseCall, ResumeCall, PauseStep, PauseThread, ResumePool,
     PoolPhase
<1>12. ASSUME NEW t \in Clients, DestroyCall(t) \/ DestroyStep(t)
      PROVE  PoolPhase'
  <2>1. CASE DestroyCall(t)
    <3>1. AliveZone = Workers
      BY Zenon, <2>1 DEF DestroyCall, AliveZone, PoolPhase
    <3>2. alive = NumThreads
      BY Zenon, <3>1, AllAlive
    <3> QED
      BY Zenon, <2>1, <3>2 DEF DestroyCall, PoolPhase
  <2>2. CASE DestroyPoll(t)
    BY <2>2 DEF DestroyPoll, PoolPhase
  <2>3. CASE DestroyPostUnlock(t)
    BY Zenon, <2>3 DEF DestroyPostUnlock, PoolPhase
  <2>4. CASE DestroyClear(t)
    BY <2>4 DEF DestroyClear, ClearJob, FreePool, PoolPhase
  <2> QED
    BY ONLY Zenon, <1>12, <2>1, <2>2, <2>3, <2>4 DEF DestroyStep
<1>13. ASSUME NEW t \in Threads, SpuriousWakeup(t)
      PROVE  Same
  BY Zenon, <1>13 DEF SpuriousWakeup, PoolPhase
<1> QED
  BY ONLY Zenon, Next, <1>0, <1>1, <1>2, <1>3, <1>4, <1>5, <1>6, <1>7, <1>8,
     <1>9, <1>10, <1>11, <1>12, <1>13 DEF Next, WorkerStep, ClientCall,
     ClientStep, Threads

(* thpool_wait returns only when the jobs it waits for are finished. *)
LEMMA WaitSoundStep ==
  ASSUME TypeOK, WorkingCount, JobAccounting, PoolPhase, WaitSound, Next
  PROVE  WaitSound'
<1> USE TypedFacts, JobTyped DEF Typed, WaitSound, jobVars, At, Goto, Acquire,
   Unlock
<1>1. ASSUME NEW t \in Workers, ThreadLife(t)
      PROVE  WaitSound'
  BY Zenon, <1>1 DEF ThreadLife, ThreadStart, StartUnlock, LoopTest, ThreadExit,
     ExitUnlock
<1>2. ASSUME NEW t \in Workers, GetTurn(t)
      PROVE  WaitSound'
  BY Zenon, <1>2 DEF GetTurn, BsemWait, BsemUnlock, CheckKeepalive, StartWorking,
     WorkUnlock
<1>3. ASSUME NEW t \in Workers, Pull(t)
      PROVE  WaitSound'
  BY Zenon, <1>3 DEF Pull, PullJob, PullPost, PullPostUnlock, PullUnlock, BsemPost,
     Signal, AllAt
<1>4. ASSUME NEW t \in Workers, JobReturn(t)
      PROVE  WaitSound'
  BY Zenon, <1>4 DEF JobReturn
<1>5. ASSUME NEW t \in Workers, Rest(t)
      PROVE  WaitSound'
  BY <1>5 DEF Rest, StopWorking, RestUnlock, Signal, AllAt
<1>6. ASSUME NEW t \in Workers, Handler(t)
      PROVE  WaitSound'
  BY Zenon, <1>6 DEF Handler, HoldSignal, HoldReturn
<1>7. ASSUME NEW t \in Threads, AddWork(t)
      PROVE  WaitSound'
  BY Zenon, <1>7 DEF AddWork
<1>8. ASSUME NEW t \in Threads, Push(t)
      PROVE  WaitSound'
  BY Zenon, <1>8 DEF Push, PushJob, PushPost, PushPostUnlock, PushUnlock, BsemPost,
     Signal, AllAt
<1>9. ASSUME NEW t \in Clients, InitPool(t) \/ InitStep(t)
      PROVE  WaitSound'
  <2>1. CASE InitPool(t) \/ InitReturn(t)
    BY Zenon, <2>1 DEF InitPool, JobqueueInit, InitReturn
  <2>2. CASE CreateThread(t)
    <3>1. n \in Workers /\ pc[n] = "none"
      BY ONLY Zenon, <2>2, FreshThread, TypeOK, PoolPhase, t \in Clients
    <3> QED
      BY Zenon, <2>2, <3>1 DEF CreateThread
  <2> QED
    BY ONLY Zenon, <1>9, <2>1, <2>2 DEF InitStep
<1>10. ASSUME NEW t \in Clients, WaitCall(t) \/ WaitStep(t)
      PROVE  WaitSound'
  <2>1. CASE WaitCall(t) \/ WaitReturn(t)
    BY Zenon, <2>1 DEF WaitCall, WaitReturn
  <2>2. CASE WaitTest(t) /\ Outstanding
    BY Zenon, <2>2 DEF WaitTest
  <2>3. CASE WaitTest(t) /\ ~Outstanding
    <3>1. queue = <<>> /\ working = 0
      BY Zenon, <2>3 DEF Outstanding
    <3>2. Taken = {}
      BY Zenon, <3>1, NobodyWorks DEF Taken
    <3>3. dropped = {}
      BY Zenon, <2>3 DEF PoolPhase, WaitTest, WaitLabels
    <3>4. finished = 1 .. pushed
      BY <3>1, <3>2, <3>3 DEF JobAccounting, TypeOK, JobsOK
    <3>5. seen[t] \in 0 .. pushed
      BY Zenon DEF TypeOK, JobsOK
    <3>6. 1 .. seen[t] \subseteq finished
      BY <3>4, <3>5 DEF TypeOK, JobsOK
    <3> QED
      BY Zenon, <2>3, <3>6 DEF WaitTest
  <2> QED
    BY ONLY Zenon, <1>10, <2>1, <2>2, <2>3 DEF WaitStep
<1>11. ASSUME NEW t \in Clients, PauseCall(t) \/ ResumeCall(t) \/ PauseStep(t)
      PROVE  WaitSound'
  BY Zenon, <1>11 DEF PauseCall, ResumeCall, PauseStep, PauseThread, ResumePool
<1>12. ASSUME NEW t \in Clients, DestroyCall(t) \/ DestroyStep(t)
      PROVE  WaitSound'
  BY Zenon, <1>12 DEF DestroyCall, DestroyStep, DestroyPoll, DestroyPostUnlock,
     DestroyClear, ClearJob, FreePool
<1>13. ASSUME NEW t \in Threads, SpuriousWakeup(t)
      PROVE  WaitSound'
  BY Zenon, <1>13 DEF SpuriousWakeup
<1> QED
  BY ONLY Zenon, Next, <1>1, <1>2, <1>3, <1>4, <1>5, <1>6, <1>7, <1>8, <1>9, <1>10,
     <1>11, <1>12, <1>13 DEF Next, WorkerStep, ClientCall, ClientStep, Threads

(* The chain of wakeups is not broken. *)
LEMMA WakeupStep ==
  ASSUME TypeOK, AliveCount, PoolPhase, WakeupChain, Next
  PROVE  WakeupChain'
<1> USE TypedFacts DEF Typed, WakeupChain, OnTheWay, jobVars, ctlVars, At,
   Goto, Acquire, Unlock
<1>1. ASSUME NEW t \in Workers, ThreadLife(t)
      PROVE  WakeupChain'
  BY <1>1 DEF ThreadLife, ThreadStart, StartUnlock, LoopTest, ThreadExit,
     ExitUnlock
<1>2. ASSUME NEW t \in Workers, GetTurn(t)
      PROVE  WakeupChain'
  BY <1>2 DEF GetTurn, BsemWait, BsemUnlock, CheckKeepalive, StartWorking,
     WorkUnlock
<1>3. ASSUME NEW t \in Workers, Pull(t)
      PROVE  WakeupChain'
  <2>1. CASE PullJob(t) /\ MoreJobs
    BY Zenon, <2>1 DEF PullJob
  <2>2. CASE PullJob(t) /\ ~MoreJobs
    <3>1. queue' = <<>>
      BY <2>2, QueueFacts DEF PullJob, MoreJobs, TypeOK, JobsOK
    <3> QED
      BY Zenon, <2>2, <3>1 DEF PullJob
  <2>3. CASE PullPost(t)
    BY <2>3, PostWakes DEF PullPost
  <2>4. CASE PullPostUnlock(t) \/ PullUnlock(t)
    BY <2>4 DEF PullPostUnlock, PullUnlock
  <2> QED
    BY ONLY Zenon, <1>3, <2>1, <2>2, <2>3, <2>4 DEF Pull
<1>4. ASSUME NEW t \in Workers, JobReturn(t)
      PROVE  WakeupChain'
  BY Zenon, <1>4 DEF JobReturn
<1>5. ASSUME NEW t \in Workers, Rest(t)
      PROVE  WakeupChain'
  BY <1>5 DEF Rest, StopWorking, RestUnlock, Signal, AllAt
<1>6. ASSUME NEW t \in Workers, Handler(t)
      PROVE  WakeupChain'
  BY Zenon, <1>6 DEF Handler, HoldSignal, HoldReturn
<1>7. ASSUME NEW t \in Threads, AddWork(t)
      PROVE  WakeupChain'
  BY Zenon, <1>7 DEF AddWork
<1>8. ASSUME NEW t \in Threads, Push(t)
      PROVE  WakeupChain'
  <2>1. CASE PushJob(t)
    BY Zenon, <2>1 DEF PushJob
  <2>2. CASE PushPost(t)
    BY <2>2, PostWakes DEF PushPost
  <2>3. CASE PushPostUnlock(t) \/ PushUnlock(t)
    BY <2>3 DEF PushPostUnlock, PushUnlock
  <2> QED
    BY ONLY Zenon, <1>8, <2>1, <2>2, <2>3 DEF Push
<1>9. ASSUME NEW t \in Clients, InitPool(t) \/ InitStep(t)
      PROVE  WakeupChain'
  <2>1. CASE InitPool(t)
    <3>1. queue' = <<>> /\ \A w \in Workers : pc'[w] = "none"
      BY <2>1 DEF InitPool, JobqueueInit, PoolPhase, TypeOK, JobsOK
    <3> QED
      BY Zenon, <3>1
  <2>2. CASE CreateThread(t)
    <3>1. n \in Workers /\ pc[n] = "none"
      BY ONLY Zenon, <2>2, FreshThread, TypeOK, PoolPhase, t \in Clients
    <3> QED
      BY Zenon, <2>2, <3>1 DEF CreateThread
  <2>3. CASE InitReturn(t)
    BY Zenon, <2>3 DEF InitReturn
  <2> QED
    BY ONLY Zenon, <1>9, <2>1, <2>2, <2>3 DEF InitStep
<1>10. ASSUME NEW t \in Clients, WaitCall(t) \/ WaitStep(t)
      PROVE  WakeupChain'
  BY <1>10 DEF WaitCall, WaitStep, WaitTest, WaitReturn
<1>11. ASSUME NEW t \in Clients, PauseCall(t) \/ ResumeCall(t) \/ PauseStep(t)
      PROVE  WakeupChain'
  BY Zenon, <1>11 DEF PauseCall, ResumeCall, PauseStep, PauseThread, ResumePool
<1>12. ASSUME NEW t \in Clients, DestroyCall(t) \/ DestroyStep(t)
      PROVE  WakeupChain'
  <2>1. CASE DestroyCall(t)
    BY <2>1 DEF DestroyCall
  <2>2. CASE DestroyPoll(t)
    BY Zenon, <2>2 DEF DestroyPoll
  <2>3. CASE DestroyPostUnlock(t)
    BY Zenon, <2>3 DEF DestroyPostUnlock
  <2>4. CASE DestroyClear(t)
    <3>1. keepalive = 0 /\ \A w \in Workers : pc[w] # "bsem_blocked"
      BY Zenon, <2>4, NobodyAlive DEF DestroyClear, ClearJob, FreePool, PoolPhase, DestroyLabels, AliveZone
    <3> QED
      BY Zenon, <2>4, <3>1 DEF DestroyClear, ClearJob, FreePool
  <2> QED
    BY ONLY Zenon, <1>12, <2>1, <2>2, <2>3, <2>4 DEF DestroyStep
<1>13. ASSUME NEW t \in Threads, SpuriousWakeup(t)
      PROVE  WakeupChain'
  BY Zenon, <1>13 DEF SpuriousWakeup
<1> QED
  BY ONLY Zenon, Next, <1>1, <1>2, <1>3, <1>4, <1>5, <1>6, <1>7, <1>8, <1>9, <1>10,
     <1>11, <1>12, <1>13 DEF Next, WorkerStep, ClientCall, ClientStep, Threads
-------------------------------------------------------------------------------
(* The invariant and the theorems.                                           *)

(* The pool starts in a state that satisfies the invariant. *)
LEMMA InitInv ==
  ASSUME Init
  PROVE  IndInv
<1> USE ThreadAssumption DEF Init
<1>1. TypeOK
  <2>1. LabelsOK
    BY Zenon DEF LabelsOK, Threads, WorkerLabels, ClientLabels, PushLabels, PullLabels
  <2>2. FlagsOK
    BY Zenon DEF FlagsOK
  <2>3. CountersOK
    BY DEF CountersOK
  <2>4. JobsOK
    BY DEF JobsOK, NULL
  <2> QED
    BY Zenon, <2>1, <2>2, <2>3, <2>4 DEF TypeOK
<1>2. LockOwner
  BY Zenon DEF LockOwner, Critical, Mutexes, Threads
<1>3. AliveZone = {} /\ WorkZone = {}
  BY Zenon DEF AliveZone, WorkZone, WorkLabels, PushLabels, PullLabels, Threads
<1>4. AliveCount /\ WorkingCount
  BY Zenon, <1>3, FS_EmptySet DEF AliveCount, WorkingCount, WorkingExact, NULL
<1>5. JobHolder /\ JobAccounting
  BY DEF JobHolder, JobAccounting, Taken, Executing, PushLabels, NULL, Threads
<1>6. PoolPhase
  BY Zenon DEF PoolPhase, WaitLabels, PushLabels, DestroyLabels, Threads
<1>7. WaitSound /\ WakeupChain
  BY Zenon DEF WaitSound, WakeupChain, Threads
<1> QED
  BY Zenon, <1>1, <1>2, <1>4, <1>5, <1>6, <1>7 DEF IndInv

(* Every step, and every stuttering step, preserves the invariant. *)
LEMMA NextInv ==
  ASSUME IndInv, [Next]_vars
  PROVE  IndInv'
<1>1. CASE Next
  <2>1. AliveCount'
    BY Zenon, <1>1, AliveStep DEF IndInv
  <2>2. JobHolder'
    BY Zenon, <1>1, HolderStep DEF IndInv
  <2>3. WorkingCount'
    <3>1. WorkingExact'
      BY Zenon, <1>1, WorkingStep DEF IndInv, WorkingCount
    <3> QED
      BY Zenon, <2>2, <3>1 DEF WorkingCount, JobHolder, WorkZone, WorkLabels, Executing,
         PullLabels
  <2>4. TypeOK'
    <3>1. LabelsOK' /\ FlagsOK' /\ JobsOK'
      BY Zenon, <1>1, LabelStep, FlagStep, JobsStep DEF IndInv
    <3>2. alive' \in 0 .. NumThreads /\ working' \in 0 .. NumThreads
      BY Zenon, <2>1, <2>3, WorkersFinite DEF AliveCount, WorkingCount, WorkingExact,
         AliveZone, WorkZone
    <3>3. CountersOK'
      BY Zenon, <1>1, <3>2, CounterStep DEF IndInv, CountersOK
    <3> QED
      BY Zenon, <3>1, <3>3 DEF TypeOK
  <2>5. LockOwner' /\ PoolPhase'
    BY Zenon, <1>1, LockStep, PhaseStep DEF IndInv
  <2>6. JobAccounting' /\ WaitSound' /\ WakeupChain'
    BY Zenon, <1>1, AccountingStep, WaitSoundStep, WakeupStep DEF IndInv
  <2> QED
    BY Zenon, <2>1, <2>2, <2>3, <2>4, <2>5, <2>6 DEF IndInv
<1>2. CASE UNCHANGED vars
  <2> USE <1>2 DEF vars
  <2>1. TypeOK' /\ LockOwner' /\ JobHolder' /\ WaitSound'
    BY Zenon DEF IndInv, TypeOK, LabelsOK, FlagsOK, CountersOK, JobsOK, LockOwner,
       JobHolder, WaitSound
  <2>2. AliveCount' /\ WorkingCount'
    BY Zenon DEF IndInv, AliveCount, AliveZone, WorkingCount, WorkingExact, WorkZone
  <2>3. JobAccounting'
    BY Zenon DEF IndInv, JobAccounting, Taken
  <2>4. PoolPhase'
    BY Zenon DEF IndInv, PoolPhase
  <2>5. WakeupChain'
    BY Zenon DEF IndInv, WakeupChain
  <2> QED
    BY Zenon, <2>1, <2>2, <2>3, <2>4, <2>5 DEF IndInv
<1> QED
  BY Zenon, <1>1, <1>2

(* The invariant holds in every reachable state of thpool.c. *)
THEOREM Invariance == Spec => []IndInv
<1>1. Init => IndInv
  BY Zenon, InitInv
<1>2. IndInv /\ [Next]_vars => IndInv'
  BY Zenon, NextInv
<1> QED
  BY <1>1, <1>2, PTL DEF Spec

(* Every variable of thpool.c keeps its type: has_jobs stays binary, and     *)
(* num_threads_alive and num_threads_working stay within num_threads.        *)
THEOREM TypeCorrect == Spec => []TypeOK
<1>1. IndInv => TypeOK
  BY Zenon DEF IndInv
<1> QED
  BY <1>1, Invariance, PTL

(* thcount_lock, rwmutex and has_jobs->mutex are each owned by exactly the   *)
(* thread inside the critical section.                                       *)
THEOREM MutualExclusion == Spec => []LockOwner
<1>1. IndInv => LockOwner
  BY Zenon DEF IndInv
<1> QED
  BY <1>1, Invariance, PTL

(* num_threads_working is exact, and covers every thread that has a job.     *)
THEOREM WorkingIsExact == Spec => []WorkingCount
<1>1. IndInv => WorkingCount
  BY Zenon DEF IndInv
<1> QED
  BY <1>1, Invariance, PTL

(* Jobs are started first in first out, and no job is lost, executed twice   *)
(* or freed twice.                                                           *)
THEOREM JobsAccounted == Spec => []JobAccounting
<1>1. IndInv => JobAccounting
  BY Zenon DEF IndInv
<1> QED
  BY <1>1, Invariance, PTL

(* thpool_wait never returns before the jobs added before it are finished.   *)
THEOREM WaitIsSound == Spec => []WaitSound
<1>1. IndInv => WaitSound
  BY Zenon DEF IndInv
<1> QED
  BY <1>1, Invariance, PTL

(* The binary semaphore never loses the wakeup for a queued job. *)
THEOREM WakeupsAreKept == Spec => []WakeupChain
<1>1. IndInv => WakeupChain
  BY Zenon DEF IndInv
<1> QED
  BY <1>1, Invariance, PTL

(* thpool_destroy leaves no thread inside a job, no job neither executed nor *)
(* freed, and no thread structure allocated.                                 *)
THEOREM DestroyIsClean == Spec => []DestroyClean
<1>1. IndInv => DestroyClean
  <2> SUFFICES ASSUME IndInv, pool = "freed" PROVE DestroyClean
    BY Zenon DEF DestroyClean
  <2>1. \A w \in Workers : pc[w] \in {"exit_unlock", "exited"}
    BY Zenon, NobodyAlive DEF IndInv, PoolPhase, AliveZone
  <2>2. \A w \in Workers : pc[w] \notin WorkLabels
    BY Zenon, <2>1 DEF WorkLabels, PullLabels, PushLabels
  <2>3. WorkZone = {} /\ Taken = {}
    BY Zenon, <2>2 DEF WorkZone, Taken, IndInv, WorkingCount
  <2>4. working = 0
    BY Zenon, <2>3, FS_EmptySet DEF IndInv, WorkingCount, WorkingExact
  <2>5. finished \cup dropped = 1 .. pushed
    BY <2>3 DEF IndInv, JobAccounting, PoolPhase, TypeOK, JobsOK
  <2> QED
    BY Zenon, <2>1, <2>4, <2>5 DEF DestroyClean, IndInv, PoolPhase
<1> QED
  BY <1>1, Invariance, PTL

--------------------------------------------------------------------------------
(* The pool implements WorkPool.                                             *)

(* While a worker has no job, fewer than num_threads jobs are active. *)
LEMMA SpareThread ==
  ASSUME NEW w \in Workers, job[w] = NULL
  PROVE  Cardinality(Taken) < NumThreads
<1> DEFINE Busy == {u \in Workers : job[u] # NULL}
           f == [u \in Busy |-> job[u]]
<1>1. f \in Surjection(Busy, Taken)
  BY Zenon DEF Surjection, Taken
<1>2. Busy \in SUBSET (Workers \ {w})
  BY Zenon
<1>3. IsFiniteSet(Workers \ {w}) /\ Cardinality(Workers \ {w}) = NumThreads - 1
  BY Zenon, WorkersFinite, FS_RemoveElement
<1>4. IsFiniteSet(Busy) /\ Cardinality(Busy) <= NumThreads - 1
  BY <1>2, <1>3, FS_Subset
<1> HIDE DEF Busy, f
<1>5. IsFiniteSet(Taken) /\ Cardinality(Taken) <= Cardinality(Busy)
  BY Zenon, <1>1, <1>4, FS_Surjection
<1>6. Cardinality(Busy) \in Nat /\ Cardinality(Taken) \in Nat
  BY Zenon, <1>4, <1>5, FS_CardinalityType
<1> QED
  BY <1>4, <1>5, <1>6, ThreadAssumption

(* Every step of thpool.c is a step of the abstract pool, or changes nothing *)
(* of it.                                                                    *)
LEMMA StepSimulation ==
  ASSUME TypeOK, AliveCount, WorkingCount, JobHolder, JobAccounting, PoolPhase,
         WaitSound, Next
  PROVE  Abstract!Next \/ UNCHANGED Abstract!vars
<1> DEFINE Same ==
       /\ UNCHANGED <<jobVars, seen>>
       /\ \A c \in Clients : pc'[c] \in WaitLabels <=> pc[c] \in WaitLabels
       /\ pool' \in {"closing", "freed"} <=> pool \in {"closing", "freed"}
<1>0. Same => Abstract!Next \/ UNCHANGED Abstract!vars
  BY SMT DEF Abstract!vars, Waiting, Taken, jobVars
<1> USE TypedFacts DEF Typed, WaitLabels, jobVars, ctlVars, At, Goto, Acquire,
   Unlock
<1>1. ASSUME NEW t \in Workers, ThreadLife(t)
      PROVE  Same
  BY Zenon, <1>1 DEF ThreadLife, ThreadStart, StartUnlock, LoopTest, ThreadExit,
     ExitUnlock
<1>2. ASSUME NEW t \in Workers, GetTurn(t)
      PROVE  Same
  BY Zenon, <1>2 DEF GetTurn, BsemWait, BsemUnlock, CheckKeepalive, StartWorking,
     WorkUnlock
<1>3. ASSUME NEW t \in Workers, Pull(t)
      PROVE  Abstract!Next \/ UNCHANGED Abstract!vars
  <2>1. CASE PullJob(t) /\ queue = <<>>
    <3>1. job[t] = NULL
      BY Zenon, <2>1 DEF PullJob, JobHolder, Executing, PushLabels
    <3>2. job' = job
      BY Zenon, <2>1, <3>1, JobTyped DEF PullJob
    <3>3. Same
      BY Zenon, <2>1, <3>2 DEF PullJob
    <3> QED
      BY ONLY Zenon, <1>0, <3>3
  <2>2. CASE PullJob(t) /\ queue # <<>>
    <3>1. /\ job[t] = NULL
          /\ job' = [job EXCEPT ![t] = Head(queue)]
          /\ queue' = Tail(queue)
          /\ UNCHANGED <<pushed, finished, dropped, seen, pool>>
      BY Zenon, <2>2 DEF PullJob, JobHolder, Executing, PushLabels
    <3>2. Taken' = Taken \cup {Head(queue)}
      BY <3>1, <2>2, TakeHead, JobTyped DEF Taken
    <3>3. Waiting' = Waiting
      BY Zenon, <2>2, <3>1 DEF PullJob, Waiting
    <3>4. Abstract!Cardinality(Taken) < NumThreads
      BY ONLY Zenon, <3>1, SpareThread, t \in Workers DEF Cardinality,
         Abstract!Cardinality
    <3>5. Abstract!Start
      BY ONLY Zenon, <2>2, <3>1, <3>2, <3>3, <3>4 DEF Abstract!Start
    <3> QED
      BY Zenon, <3>5 DEF Abstract!Next
  <2>3. CASE PullPost(t) \/ PullPostUnlock(t) \/ PullUnlock(t)
    <3>1. Same
      BY Zenon, <2>3 DEF PullPost, PullPostUnlock, PullUnlock, BsemPost, Signal, AllAt
    <3> QED
      BY ONLY Zenon, <1>0, <3>1
  <2> QED
    BY ONLY Zenon, <1>3, <2>1, <2>2, <2>3 DEF Pull
<1>4. ASSUME NEW t \in Workers, JobReturn(t)
      PROVE  Abstract!Next \/ UNCHANGED Abstract!vars
  <2>1. /\ job[t] # NULL
        /\ job' = [job EXCEPT ![t] = NULL]
        /\ finished' = finished \cup {job[t]}
        /\ UNCHANGED <<queue, pushed, dropped, seen, pool>>
    BY Zenon, <1>4 DEF JobReturn, JobHolder, Executing
  <2>2. Taken' = Taken \ {job[t]} /\ job[t] \in Taken
    BY <2>1, JobTyped DEF Taken, JobAccounting
  <2>3. Waiting' = Waiting
    BY Zenon, <1>4, <2>1 DEF JobReturn, Waiting
  <2>4. Abstract!Finish
    BY Zenon, <2>1, <2>2, <2>3 DEF Abstract!Finish
  <2> QED
    BY Zenon, <2>4 DEF Abstract!Next
<1>5. ASSUME NEW t \in Workers, Rest(t)
      PROVE  Same
  BY <1>5 DEF Rest, StopWorking, RestUnlock, Signal, AllAt
<1>6. ASSUME NEW t \in Workers, Handler(t)
      PROVE  Same
  BY Zenon, <1>6 DEF Handler, HoldSignal, HoldReturn
<1>7. ASSUME NEW t \in Threads, AddWork(t)
      PROVE  Same
  BY Zenon, <1>7 DEF AddWork
<1>8. ASSUME NEW t \in Threads, Push(t)
      PROVE  Abstract!Next \/ UNCHANGED Abstract!vars
  <2>1. CASE PushJob(t)
    <3>1. /\ pushed' = pushed + 1
          /\ queue' = Append(queue, pushed')
          /\ UNCHANGED <<job, finished, dropped, seen, pool>>
      BY Zenon, <2>1 DEF PushJob
    <3>2. Waiting' = Waiting
      BY Zenon, <2>1, <3>1 DEF PushJob, Waiting
    <3>3. Taken' = Taken
      BY Zenon, <3>1 DEF Taken
    <3>4. Abstract!Submit
      BY Zenon, <3>1, <3>2, <3>3 DEF Abstract!Submit
    <3> QED
      BY Zenon, <3>4 DEF Abstract!Next
  <2>2. CASE PushPost(t) \/ PushPostUnlock(t) \/ PushUnlock(t)
    <3>1. Same
      BY Zenon, <2>2 DEF PushPost, PushPostUnlock, PushUnlock, BsemPost, Signal, AllAt
    <3> QED
      BY ONLY Zenon, <1>0, <3>1
  <2> QED
    BY ONLY Zenon, <1>8, <2>1, <2>2 DEF Push
<1>9. ASSUME NEW t \in Clients, InitPool(t) \/ InitStep(t)
      PROVE  Abstract!Next \/ UNCHANGED Abstract!vars
  <2>1. CASE InitPool(t)
    <3>1. queue = <<>>
      BY <2>1 DEF InitPool, JobqueueInit, PoolPhase, TypeOK, JobsOK
    <3>2. Same
      BY Zenon, <2>1, <3>1 DEF InitPool, JobqueueInit
    <3> QED
      BY ONLY Zenon, <1>0, <3>2
  <2>2. CASE CreateThread(t)
    <3>1. n \in Workers /\ pc[n] = "none"
      BY ONLY Zenon, <2>2, FreshThread, TypeOK, PoolPhase, t \in Clients
    <3>2. Same
      BY Zenon, <2>2, <3>1 DEF CreateThread
    <3> QED
      BY ONLY Zenon, <1>0, <3>2
  <2>3. CASE InitReturn(t)
    <3>1. Same
      BY Zenon, <2>3 DEF InitReturn, PoolPhase
    <3> QED
      BY ONLY Zenon, <1>0, <3>1
  <2> QED
    BY ONLY Zenon, <1>9, <2>1, <2>2, <2>3 DEF InitStep
<1>10. ASSUME NEW t \in Clients, WaitCall(t) \/ WaitStep(t)
      PROVE  Abstract!Next \/ UNCHANGED Abstract!vars
  <2>1. CASE WaitCall(t)
    <3>1. Waiting[t] = -1
      BY Zenon, <2>1 DEF WaitCall, Waiting
    <3>2. Waiting' = [Waiting EXCEPT ![t] = pushed]
      <4>1. seen' = [seen EXCEPT ![t] = pushed] /\ pc' = [pc EXCEPT ![t] = "wait_lock"]
        BY Zenon, <2>1 DEF WaitCall
      <4> QED
        BY Zenon, <4>1, JobTyped DEF Waiting
    <3>3. pool = "live" /\ pool' = "live" /\ UNCHANGED jobVars /\ Taken' = Taken
      BY Zenon, <2>1 DEF WaitCall, Taken
    <3>4. Abstract!Wait(t)
      BY Zenon, <3>1, <3>2, <3>3 DEF Abstract!Wait, Abstract!NotWaiting
    <3> QED
      BY Zenon, <3>4 DEF Abstract!Next
  <2>2. CASE WaitTest(t)
    <3>1. Same
      BY <2>2 DEF WaitTest
    <3> QED
      BY ONLY Zenon, <1>0, <3>1
  <2>3. CASE WaitReturn(t)
    <3>1. Waiting[t] = seen[t] /\ Waiting' = [Waiting EXCEPT ![t] = -1]
      BY Zenon, <2>3 DEF WaitReturn, Waiting
    <3>2. seen[t] # -1
      BY DEF TypeOK, JobsOK
    <3>3. 1 .. seen[t] \subseteq finished
      BY Zenon, <2>3 DEF WaitReturn, WaitSound
    <3>4. UNCHANGED <<jobVars, pool>> /\ Taken' = Taken
      BY Zenon, <2>3 DEF WaitReturn, Taken
    <3>5. Abstract!Return(t)
      BY Zenon, <3>1, <3>2, <3>3, <3>4 DEF Abstract!Return, Abstract!NotWaiting
    <3> QED
      BY Zenon, <3>5 DEF Abstract!Next
  <2> QED
    BY ONLY Zenon, <1>10, <2>1, <2>2, <2>3 DEF WaitStep
<1>11. ASSUME NEW t \in Clients, PauseCall(t) \/ ResumeCall(t) \/ PauseStep(t)
      PROVE  Same
  BY Zenon, <1>11 DEF PauseCall, ResumeCall, PauseStep, PauseThread, ResumePool
<1>12. ASSUME NEW t \in Clients, DestroyCall(t) \/ DestroyStep(t)
      PROVE  Abstract!Next \/ UNCHANGED Abstract!vars
  <2>1. CASE DestroyCall(t)
    <3>1. \A c \in Clients : Waiting[c] = -1
      BY Zenon, <2>1 DEF DestroyCall, Waiting
    <3>2. UNCHANGED <<jobVars, Waiting>> /\ Taken' = Taken
      BY Zenon, <2>1 DEF DestroyCall, Waiting, Taken
    <3>3. pool = "live" /\ pool' = "closing"
      BY Zenon, <2>1 DEF DestroyCall
    <3>4. Abstract!Close
      BY Zenon, <3>1, <3>2, <3>3 DEF Abstract!Close, Abstract!NotWaiting
    <3> QED
      BY Zenon, <3>4 DEF Abstract!Next
  <2>2. CASE DestroyPoll(t) \/ DestroyPostUnlock(t)
    <3>1. Same
      BY Zenon, <2>2 DEF DestroyPoll, DestroyPostUnlock
    <3> QED
      BY ONLY Zenon, <1>0, <3>1
  <2>3. CASE DestroyClear(t) /\ queue = <<>>
    <3>1. Same
      BY Zenon, <2>3 DEF DestroyClear, ClearJob, FreePool, PoolPhase, DestroyLabels
    <3> QED
      BY ONLY Zenon, <1>0, <3>1
  <2>4. CASE DestroyClear(t) /\ queue # <<>>
    <3>1. pool = "closing" /\ alive = 0
      BY Zenon, <2>4 DEF DestroyClear, ClearJob, FreePool, PoolPhase, DestroyLabels
    <3>2. Taken = {}
      BY Zenon, <3>1, NobodyAlive DEF AliveZone, WorkingCount, WorkZone, WorkLabels,
         PullLabels, PushLabels, Taken
    <3>3. /\ queue' = Tail(queue)
          /\ dropped' = dropped \cup {Head(queue)}
          /\ UNCHANGED <<job, pushed, finished, seen, pool, pc>>
      BY Zenon, <2>4 DEF DestroyClear, ClearJob, FreePool
    <3>4. Taken' = Taken /\ Waiting' = Waiting
      BY Zenon, <3>3 DEF Taken, Waiting
    <3>5. Abstract!Discard
      BY Zenon, <2>4, <3>1, <3>2, <3>3, <3>4 DEF Abstract!Discard
    <3> QED
      BY Zenon, <3>5 DEF Abstract!Next
  <2> QED
    BY ONLY Zenon, <1>12, <2>1, <2>2, <2>3, <2>4 DEF DestroyStep
<1>13. ASSUME NEW t \in Threads, SpuriousWakeup(t)
      PROVE  Same
  BY Zenon, <1>13 DEF SpuriousWakeup
<1> QED
  BY ONLY Zenon, Next, <1>0, <1>1, <1>2, <1>3, <1>4, <1>5, <1>6, <1>7, <1>8,
     <1>9, <1>10, <1>11, <1>12, <1>13 DEF Next, WorkerStep, ClientCall,
     ClientStep, Threads

(* thpool.c implements the abstract pool: FIFO, at most num_threads active   *)
(* jobs, thpool_wait returns when the jobs before it are done, and only      *)
(* thpool_destroy discards jobs, when no job is active any more.             *)
THEOREM Refinement == Spec => ImplementsWorkPool
<1>1. Init => Abstract!Init
  <2> SUFFICES ASSUME Init PROVE Abstract!Init
    BY Zenon
  <2>1. Taken = {}
    BY Zenon DEF Init, Taken
  <2>2. Waiting = [c \in Clients |-> -1]
    BY Zenon, ThreadAssumption DEF Init, Waiting, WaitLabels, Threads
  <2> QED
    BY Zenon, <2>1, <2>2 DEF Init, Abstract!Init, Abstract!NotWaiting
<1>2. IndInv /\ [Next]_vars => [Abstract!Next]_(Abstract!vars)
  <2> SUFFICES ASSUME IndInv, [Next]_vars PROVE [Abstract!Next]_(Abstract!vars)
    BY Zenon
  <2>1. CASE Next
    BY Zenon, <2>1, StepSimulation DEF IndInv
  <2>2. CASE UNCHANGED vars
    BY Zenon, <2>2 DEF vars, Abstract!vars, Waiting, Taken
  <2> QED
    BY Zenon, <2>1, <2>2
<1> QED
  BY <1>1, <1>2, Invariance, PTL DEF Spec, ImplementsWorkPool, Abstract!Spec
-------------------------------------------------------------------------------
(* One client waits.                                                         *)

(* The program waits for the pool in one client only. *)
OneWaiter ==
  \A c, d \in Clients : <<c, "wait">> \in Calls /\ <<d, "wait">> \in Calls => c = d

(* Only a client that may call thpool_wait is inside it. *)
WaitCallers ==
  \A c \in Clients : pc[c] \in WaitLabels => <<c, "wait">> \in Calls

(* A client gets into thpool_wait by calling it. *)
LEMMA CallersStep ==
  ASSUME TypeOK, PoolPhase, WaitCallers, Next
  PROVE  WaitCallers'
<1> DEFINE Same ==
       \A c \in Clients : pc'[c] \in WaitLabels => pc[c] \in WaitLabels
<1>0. Same => WaitCallers'
  BY Zenon DEF WaitCallers
<1> USE TypedFacts DEF Typed, WaitLabels, At, Goto, Acquire, Unlock
<1>1. ASSUME NEW t \in Workers, ThreadLife(t)
      PROVE  Same
  BY Zenon, <1>1 DEF ThreadLife, ThreadStart, StartUnlock, LoopTest, ThreadExit,
     ExitUnlock
<1>2. ASSUME NEW t \in Workers, GetTurn(t)
      PROVE  Same
  BY Zenon, <1>2 DEF GetTurn, BsemWait, BsemUnlock, CheckKeepalive, StartWorking,
     WorkUnlock
<1>3. ASSUME NEW t \in Workers, Pull(t)
      PROVE  Same
  BY Zenon, <1>3 DEF Pull, PullJob, PullPost, PullPostUnlock, PullUnlock, BsemPost,
     Signal, AllAt
<1>4. ASSUME NEW t \in Workers, JobReturn(t)
      PROVE  Same
  BY Zenon, <1>4 DEF JobReturn
<1>5. ASSUME NEW t \in Workers, Rest(t)
      PROVE  Same
  BY <1>5 DEF Rest, StopWorking, RestUnlock, Signal, AllAt
<1>6. ASSUME NEW t \in Workers, Handler(t)
      PROVE  Same
  BY Zenon, <1>6 DEF Handler, HoldSignal, HoldReturn
<1>7. ASSUME NEW t \in Threads, AddWork(t)
      PROVE  Same
  BY Zenon, <1>7 DEF AddWork
<1>8. ASSUME NEW t \in Threads, Push(t)
      PROVE  Same
  BY Zenon, <1>8 DEF Push, PushJob, PushPost, PushPostUnlock, PushUnlock, BsemPost,
     Signal, AllAt
<1>9. ASSUME NEW t \in Clients, InitPool(t) \/ InitStep(t)
      PROVE  Same
  <2>1. CASE InitPool(t) \/ InitReturn(t)
    BY Zenon, <2>1 DEF InitPool, InitReturn
  <2>2. CASE CreateThread(t)
    <3>1. n \in Workers /\ pc[n] = "none"
      BY ONLY Zenon, <2>2, FreshThread, TypeOK, PoolPhase, t \in Clients
    <3> QED
      BY Zenon, <2>2, <3>1 DEF CreateThread
  <2> QED
    BY ONLY Zenon, <1>9, <2>1, <2>2 DEF InitStep
<1>10. ASSUME NEW t \in Clients, WaitCall(t)
      PROVE  WaitCallers'
  BY Zenon, <1>10 DEF WaitCall, WaitCallers
<1>11. ASSUME NEW t \in Clients, WaitStep(t)
      PROVE  Same
  BY Zenon, <1>11 DEF WaitStep, WaitTest, WaitReturn
<1>12. ASSUME NEW t \in Clients, PauseCall(t) \/ ResumeCall(t) \/ PauseStep(t)
      PROVE  Same
  BY Zenon, <1>12 DEF PauseCall, ResumeCall, PauseStep, PauseThread, ResumePool
<1>13. ASSUME NEW t \in Clients, DestroyCall(t) \/ DestroyStep(t)
      PROVE  Same
  <2>1. CASE DestroyPoll(t)
    BY Zenon, <2>1 DEF DestroyPoll
  <2>2. CASE DestroyCall(t) \/ DestroyPostUnlock(t) \/ DestroyClear(t)
    BY Zenon, <2>2 DEF DestroyCall, DestroyPostUnlock, DestroyClear, ClearJob, FreePool
  <2> QED
    BY ONLY Zenon, <1>13, <2>1, <2>2 DEF DestroyStep
<1>14. ASSUME NEW t \in Threads, SpuriousWakeup(t)
      PROVE  Same
  BY Zenon, <1>14 DEF SpuriousWakeup
<1> HIDE DEF Same
<1> QED
  BY ONLY Zenon, Next, <1>0, <1>1, <1>2, <1>3, <1>4, <1>5, <1>6, <1>7, <1>8,
     <1>9, <1>10, <1>11, <1>12, <1>13, <1>14 DEF Next, WorkerStep, ClientCall,
     ClientStep, Threads

(* The pull that empties the queue is done by a thread that counts as        *)
(* working, the thread that stops working last wakes the waiting client, and *)
(* jobqueue_clear runs when no client waits.                                 *)
LEMMA CoveredStep ==
  ASSUME IndInv, OneWaiter, WaitCallers, WaiterCovered, Next
  PROVE  WaiterCovered'
<1> DEFINE NoBlock(c) == pc'[c] = "wait_blocked" => pc[c] = "wait_blocked"
<1> DEFINE Same ==
       /\ \A c \in Clients : NoBlock(c)
       /\ Outstanding => Outstanding'
<1>0. Same => WaiterCovered'
  BY Zenon DEF WaiterCovered
<1>a. TypeOK /\ PoolPhase /\ WorkingCount
  BY Zenon DEF IndInv
<1>b. Typed
  BY Zenon, <1>a, TypedFacts
<1> USE <1>a, <1>b DEF Typed, At, Goto, Acquire, Unlock, Outstanding, jobVars
<1>1. ASSUME NEW t \in Workers, ThreadLife(t)
      PROVE  Same
  BY Zenon, <1>1 DEF ThreadLife, ThreadStart, StartUnlock, LoopTest, ThreadExit,
     ExitUnlock
<1>2. ASSUME NEW t \in Workers, GetTurn(t)
      PROVE  Same
  <2>1. CASE StartWorking(t)
    <3>1. \A c \in Clients : NoBlock(c)
      BY Zenon, <2>1 DEF StartWorking
    <3>2. working \in Nat
      BY ONLY TypeOK, <1>a, ThreadAssumption DEF TypeOK, CountersOK
    <3>3. working' = working + 1
      BY ONLY Zenon, <2>1 DEF StartWorking
    <3>4. Outstanding'
      BY ONLY <3>2, <3>3 DEF Outstanding
    <3> QED
      BY Zenon, <3>1, <3>4
  <2>2. CASE BsemWait(t) \/ BsemUnlock(t) \/ CheckKeepalive(t) \/ WorkUnlock(t)
    BY Zenon, <2>2 DEF BsemWait, BsemUnlock, CheckKeepalive, WorkUnlock
  <2> QED
    BY ONLY Zenon, <1>2, <2>1, <2>2 DEF GetTurn
<1>3. ASSUME NEW t \in Workers, Pull(t)
      PROVE  Same
  <2>1. CASE PullJob(t)
    <3>1. \A c \in Clients : NoBlock(c)
      BY Zenon, <2>1 DEF PullJob
    <3>2. working # 0
      BY Zenon, <2>1, NobodyWorks DEF PullJob, WorkLabels, PullLabels
    <3>3. Outstanding'
      BY Zenon, <2>1, <3>2 DEF PullJob
    <3> QED
      BY Zenon, <3>1, <3>3
  <2>2. CASE PullPost(t)
    BY Zenon, <2>2 DEF PullPost, BsemPost, Signal, AllAt
  <2>3. CASE PullPostUnlock(t) \/ PullUnlock(t)
    BY Zenon, <2>3 DEF PullPostUnlock, PullUnlock
  <2> QED
    BY ONLY Zenon, <1>3, <2>1, <2>2, <2>3 DEF Pull
<1>4. ASSUME NEW t \in Workers, JobReturn(t)
      PROVE  Same
  BY Zenon, <1>4 DEF JobReturn
<1>5. ASSUME NEW t \in Workers, Rest(t)
      PROVE  WaiterCovered'
  <2>1. CASE StopWorking(t) /\ working' # 0
    BY Zenon, <2>1 DEF WaiterCovered
  <2>2. CASE StopWorking(t) /\ working' = 0
    <3>1. Signal(t, "rest_unlock", "wait_blocked", "wait_lock")
      BY Zenon, <2>2 DEF StopWorking
    <3>2. CASE AllAt("wait_blocked") = {}
      BY Zenon, <3>1, <3>2 DEF Signal, AllAt, WaiterCovered
    <3>3. CASE \E u \in AllAt("wait_blocked") :
                 pc' = [pc EXCEPT ![t] = "rest_unlock", ![u] = "wait_lock"]
      <4>1. PICK u \in AllAt("wait_blocked") :
              pc' = [pc EXCEPT ![t] = "rest_unlock", ![u] = "wait_lock"]
        BY Zenon, <3>3
      <4>2. u \in Clients
        BY Zenon DEF AllAt, TypeOK, LabelsOK, WorkerLabels, PullLabels, PushLabels
      <4>3. \A c \in Clients : pc[c] = "wait_blocked" => c = u
        BY Zenon, <4>2 DEF OneWaiter, WaitCallers, WaitLabels, AllAt
      <4>4. \A c \in Clients : pc'[c] # "wait_blocked"
        BY Zenon, <4>1, <4>2, <4>3
      <4> QED
        BY Zenon, <4>4 DEF WaiterCovered
    <3> QED
      BY ONLY Zenon, <3>1, <3>2, <3>3 DEF Signal
  <2>3. CASE RestUnlock(t)
    BY Zenon, <2>3, <1>0 DEF RestUnlock
  <2> QED
    BY ONLY Zenon, <1>5, <2>1, <2>2, <2>3 DEF Rest
<1>6. ASSUME NEW t \in Workers, Handler(t)
      PROVE  Same
  BY Zenon, <1>6 DEF Handler, HoldSignal, HoldReturn
<1>7. ASSUME NEW t \in Threads, AddWork(t)
      PROVE  Same
  BY Zenon, <1>7 DEF AddWork
<1>8. ASSUME NEW t \in Threads, Push(t)
      PROVE  Same
  <2>1. CASE PushJob(t)
    <3>1. \A c \in Clients : NoBlock(c)
      BY Zenon, <2>1 DEF PushJob
    <3>2. queue' # <<>>
      BY <2>1 DEF PushJob, TypeOK, JobsOK
    <3> QED
      BY Zenon, <3>1, <3>2
  <2>2. CASE PushPost(t)
    BY Zenon, <2>2 DEF PushPost, BsemPost, Signal, AllAt
  <2>3. CASE PushPostUnlock(t) \/ PushUnlock(t)
    BY Zenon, <2>3 DEF PushPostUnlock, PushUnlock
  <2> QED
    BY ONLY Zenon, <1>8, <2>1, <2>2, <2>3 DEF Push
<1>9. ASSUME NEW t \in Clients, InitPool(t) \/ InitStep(t)
      PROVE  WaiterCovered'
  <2>1. CASE InitPool(t)
    <3>1. \A c \in Clients : pc'[c] # "wait_blocked"
      BY Zenon, <2>1 DEF InitPool, PoolPhase
    <3> QED
      BY Zenon, <3>1 DEF WaiterCovered
  <2>2. CASE InitReturn(t)
    BY Zenon, <2>2, <1>0 DEF InitReturn
  <2>3. CASE CreateThread(t)
    <3>1. n \in Workers /\ pc[n] = "none"
      BY ONLY Zenon, <2>3, <1>a, FreshThread, t \in Clients
    <3> QED
      BY Zenon, <2>3, <3>1, <1>0 DEF CreateThread
  <2> QED
    BY ONLY Zenon, <1>9, <2>1, <2>2, <2>3 DEF InitStep
<1>10. ASSUME NEW t \in Clients, WaitCall(t) \/ WaitStep(t)
      PROVE  WaiterCovered'
  <2>1. CASE WaitCall(t) \/ WaitReturn(t)
    BY Zenon, <2>1, <1>0 DEF WaitCall, WaitReturn
  <2>2. CASE WaitTest(t)
    BY Zenon, <2>2 DEF WaitTest, WaiterCovered
  <2> QED
    BY ONLY Zenon, <1>10, <2>1, <2>2 DEF WaitStep
<1>11. ASSUME NEW t \in Clients, PauseCall(t) \/ ResumeCall(t) \/ PauseStep(t)
      PROVE  Same
  BY Zenon, <1>11 DEF PauseCall, ResumeCall, PauseStep, PauseThread, ResumePool
<1>12. ASSUME NEW t \in Clients, DestroyCall(t) \/ DestroyStep(t)
      PROVE  WaiterCovered'
  <2>1. CASE DestroyCall(t) \/ DestroyPostUnlock(t) \/ FreePool(t)
    BY Zenon, <2>1, <1>0 DEF DestroyCall, DestroyPostUnlock, FreePool
  <2>2. CASE DestroyPoll(t)
    BY Zenon, <2>2, <1>0 DEF DestroyPoll
  <2>3. CASE ClearJob(t)
    <3>1. pool = "closing" /\ pc' = pc
      BY Zenon, <2>3 DEF ClearJob, PoolPhase, DestroyLabels
    <3>2. \A c \in Clients : pc[c] \notin WaitLabels
      BY Zenon, <3>1 DEF PoolPhase
    <3> QED
      BY Zenon, <3>1, <3>2 DEF WaiterCovered, WaitLabels
  <2> QED
    BY ONLY Zenon, <1>12, <2>1, <2>2, <2>3 DEF DestroyStep, DestroyClear
<1>13. ASSUME NEW t \in Threads, SpuriousWakeup(t)
      PROVE  Same
  BY Zenon, <1>13 DEF SpuriousWakeup
<1> HIDE DEF Same
<1> QED
  BY ONLY Zenon, Next, <1>0, <1>1, <1>2, <1>3, <1>4, <1>5, <1>6, <1>7, <1>8,
     <1>9, <1>10, <1>11, <1>12, <1>13 DEF Next, WorkerStep, ClientCall,
     ClientStep, Threads

(* When one client waits, it never sleeps in thpool_wait without a reason:   *)
(* the last signal of threads_all_idle is not missed.  With two waiters the  *)
(* claim is false, since pthread_cond_signal wakes one of them.              *)
THEOREM WaiterIsCovered ==
  ASSUME OneWaiter
  PROVE  Spec => []WaiterCovered
<1>1. Init => WaitCallers /\ WaiterCovered
  BY Zenon, ThreadAssumption DEF Init, WaitCallers, WaiterCovered, WaitLabels, Threads
<1>2. IndInv /\ WaitCallers /\ WaiterCovered /\ [Next]_vars
        => (WaitCallers /\ WaiterCovered)'
  <2>1. ASSUME IndInv, WaitCallers, WaiterCovered, Next
        PROVE  (WaitCallers /\ WaiterCovered)'
    <3>1. TypeOK /\ PoolPhase
      BY Zenon, <2>1 DEF IndInv
    <3> QED
      BY Zenon, <2>1, <3>1, CallersStep, CoveredStep
  <2>2. ASSUME WaitCallers, WaiterCovered, UNCHANGED vars
        PROVE  (WaitCallers /\ WaiterCovered)'
    BY Zenon, <2>2 DEF vars, WaitCallers, WaiterCovered, Outstanding
  <2> QED
    BY Zenon, <2>1, <2>2
<1> QED
  BY <1>1, <1>2, Invariance, PTL DEF Spec
===============================================================================
