# C-Practice-hand: a TLA+ verification project

This directory models the programs under `person/` of the repository, and the database library of `extra_lib/apue.3e/db`,
in TLA+. Small instances are checked with TLC, and the safety properties of the thread pool, the servers, traceroute, readline and
the job queue are proved with TLAPS for every value of the constants. Line numbers below refer to the files of the repository.

## 1. Inventory

The repository is a collection of C programs written while working through systems-programming books. The
author's code is under `person/` (about 2,700 lines of C). `extra_lib/` holds the sources of the books
(apue, unpv13e, unpv22e) and ncurses; `include/` holds their headers. These are vendored unchanged and are the environment of the programs;
one of them, the database library, is a concurrent system of its own and is modelled too.

| Part | State | Operations | Interacts with |
|---|---|---|---|
| thread pool, `thread_pool/thpool.c` | globals `threads_keepalive`, `threads_on_hold`; per pool `num_threads_alive`, `num_threads_working`, the job queue, the binary semaphore `has_jobs`, three mutexes, two condition variables | `thpool_init`, `_add_work`, `_wait`, `_pause`, `_resume`, `_destroy`, `_num_threads_working`; the worker loop `thread_do`; the SIGUSR1 handler `thread_hold` | client threads, jobs (which may call the API), signals |
| descriptor-passing server, `client_server/serv05.c`, `child05.c` | table of children (pid, pipe, status, count), `navail`, the set of descriptors for `select` | accept and hand over a connection; note that a child is free again | one stream pipe per child |
| prethreaded server with a ring, `serv08.c`, `pthread08.c` | `clifd[MAXNCLI]`, `iput`, `iget`, a mutex and a condition variable | put by the main thread, get by the workers | request loop |
| preforked and prethreaded accept pools, `serv02`–`serv04`, `serv07`, `serv09` and their children | who is in `accept`, the lock around it, counters in shared memory | lock, accept, serve, close | accept locks |
| accept locks, `lock_fcntl.c`, `lock_pthread.c` | a file lock or a process-shared mutex | init, wait, release | accept pools |
| iterative, forking and thread-per-client servers, `serv00`, `serv01`, `serv06` | open descriptors of parent and children, zombies | accept, fork or create, close, reap | SIGCHLD |
| request loop, `web_child.c`, `web_child_r.c`, `readline.c`, `readline_r.c` | none, or a buffer per connection with a count and a pointer | read a line, write the reply | all servers |
| load clients, `client.c`, `clientrst.c` | children and their connections | connect, write a request, read the reply | servers |
| traceroute, `traceroute/*.c` | probe number, ttl, `gotalarm`, the timer | send a probe, receive or time out, classify the ICMP message | network, SIGALRM |
| Internet checksum, `in_checknum.c` | none (pure) | `in_checknum` | traceroute |
| database library, `extra_lib/apue.3e/db/db.c` | index file with hash chains and a free list, data file, record locks | `db_fetch`, `db_store`, `db_delete`, `db_rewind`, `db_nextrec` | other processes on the same files |
| timer exercises, statistics, `compile_hello` | local | print | none |

**What is hard about it.** In the pool: the semaphore merges posts; two counters and the queue length are read without the mutex that
guards them; a signal handler that sleeps may run while its thread owns a mutex; `threads_all_idle` is signalled
once; `thpool_destroy` polls a counter that drops before a thread's last access. In the servers: the parent's view of
a child (`child_status`, `navail`) lags behind the child; the ring may meet its limit; `accept` is interrupted; a lock
owner may end. In traceroute: an alarm may arrive before, during or after `recvfrom`, and a reply may belong to an
earlier probe. In the database: a record moves between two lists under locks of three kinds while a scan reads past the chains' locks.

**What should hold.** Every job added is executed exactly once or freed by `thpool_destroy`, in order of arrival; no
wakeup is lost; `thpool_wait` returns when, and only when, the work is done; `thpool_destroy` returns and leaves nothing
behind; pausing delays but loses nothing. A connection is served by exactly one child or thread, and no connection waits
while a child is free. SIGINT ends a server with all its children. A trace ends, and names no router too far away.
The processes that share a database see one map.

## 2. Modules

| | Module | Models | Status |
|---|---|---|---|
| 1 | `ThreadPool`, `ThreadPoolProps`, `MCThreadPool` | `thpool.c` and its properties | checked and proved |
| 2 | `WorkPool` | what a pool promises; implemented by `ThreadPool` | checked and proved |
| 3 | `ThreadPoolFacts`, `ThreadPoolProof` | the proofs | checked and proved |
| 4 | `JobQueue` | the linked list of `thpool.c` against the sequence in `ThreadPool` | checked and proved |
| 5 | `DescriptorServer`, `DescriptorServerProps`, `DescriptorServerProof` | `serv05`/`child05` | checked, safety proved |
| 6 | `RingServer`, `RingServerProps`, `ConnQueue`, `RingServerProof` | `serv08`/`pthread08` and the bounded queue it implements | checked, safety and refinement proved |
| 7 | `AcceptServers` | the other nine servers, with the accept locks, SIGCHLD and the clients | checked, safety proved |
| 8 | `Database`, `KeyStore` | `db.c`, and the map it implements | checked |
| 9 | `Traceroute` | the probe loop with its alarm, late and lost replies | checked, safety proved |
| 10 | `Readline` | `readline` and `readline_r`, for every way the bytes may arrive | checked and proved |
| 11 | `Checksum` | `in_checknum` against one's complement addition | checked |
| 12 | `MCPrograms` | the instance of 4 and 7 to 11 for TLC | |
| 13 | `ProgramsProof` | the proofs for 4, 7, 9 and 10 | |

Properties under fairness stay with TLC: liveness is outside the prover's reach.

## 3. The thread pool

### State and actions

`ThreadPool` has one variable per field of the code (`alive` is `num_threads_alive`, `v` is `has_jobs->v`, …), the
owner of each mutex (`mutex`), a program counter per thread (`pc`) and, for the signal, the workers with a pending
SIGUSR1 (`sigpend`) and those inside the handler (`held`). `pushed`, `finished`, `dropped` and `seen` are history:
a job is named by its position in the order of the pushes. `pool` is the phase of the one pool of the process.

A `pthread_mutex_lock` is one step with the statements it guards, up to the next synchronisation call. Every
`pthread_mutex_unlock` is a step of its own. A thread can therefore be preempted, or be stopped by the handler, with
any mutex locked. Reads the code makes without the mutex are steps that do not need it.

| Action | Code (`thpool.c`) |
|---|---|
| `InitPool`, `CreateThread`, `InitReturn` | `thpool_init` 121–173, `thread_init` 282–296; an allocation of `thpool_init` or `pthread_create` may fail |
| `ThreadStart` … `ExitUnlock` | `thread_do` 317–384 |
| `BsemWait`, `BsemPost`, `DestroyPoll` | `bsem_wait`, `bsem_post`, `bsem_post_all` 526–551 |
| `PullJob`, `PullPost`, `PullUnlock` | `jobqueue_pull` 465–491 |
| `PushJob`, `PushPost`, `PushUnlock` | `jobqueue_push` 434–455 |
| `WaitCall`, `WaitTest`, `WaitReturn` | `thpool_wait` 197–203 |
| `HoldSignal`, `HoldReturn` | `thread_hold` 300–306 |
| `PauseCall`, `PauseThread`, `ResumeCall`, `ResumePool` | 246–262 |
| `DestroyCall`, `DestroyPoll`, `ClearJob`, `FreePool` | `thpool_destroy` 207–242, `jobqueue_clear` 418–430 |
| `SpuriousWakeup` | what POSIX allows `pthread_cond_wait` to do |

The program around the pool is the constant `Calls`: which thread makes which API call. Calls may be made at any
time, except that only `Main` creates, pauses, resumes and destroys the pool, and destroys it when no other client
is inside the API: a program that does otherwise uses freed memory whatever the pool does. Jobs may call
`thpool_add_work`, also while the pool is being destroyed.

`WorkPool` is the abstract pool: jobs are submitted, started in order with at most `Capacity` active, finished, or
discarded once the pool is closed; a wait ends when the jobs submitted before it are done. Threads, mutexes and
the semaphore do not occur in it. `ThreadPoolProps!Abstract` is the refinement mapping.

### Runs

| Run | Instance | Shows |
|---|---|---|
| `PoolWork` | 3 workers, 2 clients, 4 jobs | types, FIFO and exactly-once execution, `thpool_wait` never returns early, no wakeup for a job or a waiter is lost |
| `PoolPause` | 2 workers, pause and resume at any time | the inductive invariant holds with signals anywhere; `PauseLosesNothing`: once no thread is held any more, every job added before, during or after the pauses is executed, although a thread may have been stopped with a mutex or with the only wakeup |
| `PoolLive` | 2 workers, 3 jobs, thread creation may fail, destroy at any time | liveness of jobs, of `thpool_wait` and of `thpool_destroy`; a destroyed pool leaves nothing behind; `ThreadPool` implements `WorkPool` |
| `PoolTwoWaiters` | 2 clients wait | **violated**: one signal for two waiters |
| `PoolResumeRace` | pause, resume | **violated**: a late handler undoes the resume |
| `PoolPausedAdd` | pause, add | **violated**: a worker paused with `rwmutex` locked blocks `thpool_add_work` |
| `PoolFreeRace` | destroy | **violated**: the pool is freed before the last worker unlocks `thcount_lock` |

`PoolLive` does not check for deadlock: a destroyed pool is the end of the program.

*Bounds.* Two workers are enough for one to be in any place of the code while another is asleep, and three for one to
post, one to be on its way and one to sleep. Three jobs make the queue hold two behind the one being pulled, which is
where `jobqueue_pull` changes its branch (lengths 0, 1 and more). `MaxJobs` is the only bound on a counter.

*Fairness.* `FairSpec` asks strong fairness of each thread's steps: no thread blocks with a mutex locked (except in
the handler, which `PoolPausedAdd` shows), and a loop that takes a mutex again blocks, sleeps or leaves in between, so
a thread that waits for a mutex gets it. A pending signal is delivered (weak fairness). Nobody is obliged to call the
API, and jobs may run for ever: `JobStarts` holds even then, and the properties that need jobs to return say so
(`JobsReturn`).

### Observations without a run

- `thpool_pause` returns when the signals are pending, so a worker may still take a job after it. `thpool.h` says "Pauses all threads
  immediately" (101) and `thread_pool/README.md` (54) that all threads "will pause"; the delay is as long as the kernel takes to deliver a
  signal, and only the lasting consequences have runs (`PoolResumeRace`, `PoolPausedAdd`).
- If `pthread_create` fails, `thpool_init` spins at line 169 for ever.
- `thread_init` tests `thread_p == NULL` where it means `*thread_p` (285): if that `malloc` fails, the next line writes through a null
  pointer. This failure is not modelled; those of `thpool_init` are.
- `threads_keepalive` and `threads_on_hold` are one per process (37-38), so two pools would act on each other. `docs/Analysis.md` (6) says that
  only one pool per process is supported, and the model has one.
- A pool destroyed while paused hangs in the second loop (228) until somebody resumes it.

### The queue as a list

`JobQueue` models `jobqueue_push`, `_pull` and `_clear` with `front`, `rear`, `prev` and `len` over a set of addresses. `Free` gives an address
back after the job has run, and `Push` may get it again with the old `prev` in it. `ListIsQueue` says that `len` is the length of the queue, `front` and `rear`
are its ends, `prev` leads from each job to the next and each pull returned the oldest: this is what allows `ThreadPool` to keep the queue as a sequence.
`ProgramsProof` proves it for every set of addresses (`ListRepresentsQueue`); the strengthening is that no address is queued twice (`Distinct`).

### Proofs

`ThreadPoolProof` proves, for every `NumThreads`, `Clients`, `Calls` and `MaxJobs`, from `ThreadAssumption` alone:

| Theorem | States |
|---|---|
| `Invariance` | `Spec => []IndInv` |
| `TypeCorrect`, `MutualExclusion`, `WorkingIsExact`, `JobsAccounted`, `WaitIsSound`, `WakeupsAreKept`, `DestroyIsClean` | the invariants of the runs, and the conjuncts `LockOwner` and `WorkingCount` of `IndInv` |
| `Refinement` | `Spec => ImplementsWorkPool` |
| `WaiterIsCovered` | `Spec => []WaiterCovered`, if `Calls` lets one client only call `thpool_wait` (`OneWaiter`); `PoolTwoWaiters` shows why |

*The argument.* None of the invariants is inductive alone. `LockOwner` ties each mutex to program counters, so an
update under a mutex happens alone. `AliveCount` and `WorkingCount` equate each counter with the number of threads
between its two updates. `JobHolder` says where a worker can have a job, which gives `JobAccounting` (a pull moves the
head to a worker without one) and, with `WorkingCount`, `WaitSound`: if the queue is empty and the counter is 0 then no
job is anywhere but in `finished`. `dropped` is empty then by `PoolPhase`, which bounds what can happen in each phase of
the pool. `WakeupChain` is inductive with `LockOwner` and `PoolPhase`: a worker that takes the semaphore is on its way to the queue, a
worker that pulls either empties the queue or posts, and a post either finds nobody asleep or wakes somebody.
`DestroyClean` follows from `AliveCount` (`alive = 0` puts every worker behind its last decrement).

| Module | Lemmas |
|---|---|
| `ThreadPoolFacts` | cardinality facts, what each group of actions changes, types and `LockOwner`; `AliveCount`, `WorkingCount`, `JobHolder`, `JobAccounting` |
| `ThreadPoolProof` | `PoolPhase`, `WaitSound`, `WakeupChain`; the theorems; step simulation: each action is an abstract action or a stutter; one waiter |

Everything under fairness is only model-checked.

## 4. The descriptor-passing server

`DescriptorServer` models `serv05.c` and `child05.c`. Variables of the parent: `pc`, the loop index `i`, what `select`
reported (`rset`, `nsel`), `connfd`, and its table `status`, `count`, `navail`. Of a child: `cpc` and `cconn`. Of the pipes: the
connections in flight to a child (`down`) and the number of bytes in flight to the parent (`up`). Connections are numbered as
they arrive; `served` and `lost` are history.

| Action | Code |
|---|---|
| `MakeChild` | `child_make` (`child05.c` 6–27), the loop at `serv05.c` 35–39 |
| `CallFails` | `Socketpair`, `Fork`, `Select` or `Accept` fails and `err_sys` ends the parent |
| `Select`, `Accept`, `Pass`, `CloseConn`, `Scan` | the loop of `main`, 43–81 |
| `SigInt`, `Reap` | `sig_int`, 85–105 |
| `ChildRead`, `ServeReturn`, `Notify` | `child_main`, 40–50 |
| `ServeFails`, `Exit` | `err_quit` and `err_sys` below `web_child`, signals |
| `Connect`, `Abort` | clients |

Two facts about descriptors matter and are modelled. The child's end of the pipe is its standard error, so the message
of a fatal error is `MsgLen` bytes to the parent. A child inherits the parent's ends of the older children's pipes
(`PipeOpen`), so the end of the parent is seen by the youngest child first and by the others one after the other.

`ServerWork` (2 children, 4 connections, so that all children are busy while connections wait; requests and the parent's system calls may fail)
shows: `Books`, the parent's table and the children agree up to one token per busy child, as long as no child failed;
`SelectFresh`, the snapshot of `select` is still true when it is used, so that the parent never blocks in a `Read`;
`ConnAccounting`; and, under weak fairness of every process, `ConnServed`, `FailureNoticed` and `Shutdown`. Clients need not
act; the properties that need requests to end say so (`RequestsEnd`). Deadlock is not checked because all
processes may end. `FailureNoticed` has one exception, the parent blocked in `accept` because the client that `select` saw has gone.

`ServerFailedChild` (**violated**): the error message of an ending child is read as ready bytes. The parent marks the
child free, raises `navail` once per byte, and may pass a connection to it.

*Proofs.* `DescriptorServerProof` proves `BooksBalance` (`Spec => []Books`) and `SelectStaysFresh` (`Spec => []SelectFresh`) for any number
of children and connections and any length of the messages, from `ServerAssumption`. The inductive invariant `IndInv` adds the types and
`Phases`: while children are made, none was killed, all are marked free and the ones to come do nothing; the parent that passes a
connection has a child and a connection; a child that serves has a connection. `SelectFresh` is kept because only the parent takes bytes out of a pipe and a
child that has ended stays so. `Books` is kept because a step moves a child's one token on (parent, pipe, child, pipe) and only
`Accept` and `Scan` create and take one, together with `status` and `navail`; once a child is ending or the parent ends, the server never
becomes `Healthy` again (`HealthyBefore`). 
`ServerTypes` is the type invariant. `ConnsAccounted` (`Spec => []ConnAccounting`) needs a second layer on top of `IndInv`: `Places` says, element by element, that the connections that arrived are in
the backlog, with the parent or passed on, and that no two places share one, except that the parent still has the one it passed last until it closes it. `Shapes` says that
no queue holds a connection twice, that only a child that serves or is ending has one open, and that the pipe of a child that has ended is empty. Each action takes a connection out of one place and puts it into the next; the
lemmas `AddMember`, `TakeMember`, `DropShape` and `DropMember` say what that does to a queue. What is under fairness is only model-checked.

## 5. The prethreaded server with a ring

`RingServer` models `serv08.c` and `pthread08.c`: `Accept`, `Put`, `PutUnlock` and `SigInt` of the main thread (35–46, 51–63),
`Get`, `GetUnlock`, `ServeReturn` and `ServeFails` of the others (`pthread08.c` 20–31). `ConnQueue` is the bounded queue the
ring implements, with room for `MAXNCLI - 1`.

`RingWork` (3 threads, 3 slots, 6 connections: the indices wrap twice, the ring overflows, and two threads can sleep while a
third is overtaken) shows `RingAccounting` (FIFO, no slot overwritten before it is taken), `WakeupPerConn` (if a thread sleeps,
as many are awake and on their way as there are connections), `OverflowIsFull`, `ImplementsConnQueue` and, under strong
fairness of the threads' steps (the mutex is held for a few instructions), `ConnTaken` and `ConnServed`. Deadlock is not
checked because the process may end. An `Accept` or a mutex call that fails ends the process like `SigInt`, from the same states, and has no action of its own.

*Proofs.* `RingServerProof` proves, for any number of threads, slots and connections, from `RingAssumption`: `RingIsTyped`, `RingIsFifo`, `NoLostSignal`,
`OverflowOnlyWhenFull` (the invariants of the run) and `RingRefinement` (`Spec => ImplementsConnQueue`). The inductive invariant
`IndInv` is their conjunction with the types and `InHand`, which ties the connection a thread has to where it is. The
lemmas about `Slot` and `Size` (a put adds the last slot, a get removes the first one, different positions are different slots) carry
the wrap-around; the rest is one step per action. The two liveness properties are only model-checked.

## 6. The accept servers

`AcceptServers` models the servers in which the process or thread that calls `accept` also serves or hands the connection to a new one. `kind`, chosen in `Init`, says which
of the nine it is; the table at the head of the module lists them. Main, the children or threads, and the clients are concurrent.

| Action | Code (`client_server/`) |
|---|---|
| `MainAccept`, `IterativeClose` | `serv00.c` 22–29, `serv01.c` 24–31, `serv06.c` 24–29 |
| `ForkChild`, `ChildStart`, `ForkClose` | `serv01.c` 33–38: two processes have the connection until both have closed it |
| `CreateThread`, `MakeWorker`, `NoResources` | a thread per connection; children and threads made in advance; `Fork`, `Pthread_create` fail |
| `LockWait`, `Select`, `WorkerAccept`, `LockRelease`, `WorkerClose` | `child02.c` … `child04.c`, `pthread07.c`, `pthread09.c` |
| `AcceptAborted` | `Accept` (`wrapsock.c` 26–33) tries again after ECONNABORTED or EPROTO; `serv01.c` 26–31 calls `accept` itself and ends |
| `CallFails` | any other error of `accept` or `Select` (`wrapsock.c` 34–35, 229–230) or of the file lock (`lock_fcntl.c` 40–41, 48–49): `err_sys` ends the process, with all its threads |
| `Reply`, `Return`, `RequestFails` | `web_child.c` 12–22; a reset, or a size that is refused (17–19), ends the process |
| `SigChld`, `WaitPid` | `sig_chld_waitpid.c` |
| `SigInt`, `KillAll`, `Terminate`, `WaitAll` | `sig_int` of each server |
| `Connect`, `Request`, `Broken` | `client.c` 25–32, `clientrst.c` 39–51 |

The clients are `Ordinary` (they ask for a number of bytes that `web_child` accepts) or `Unruly` (they reset the connection, or ask for a size that is refused).
`blame` is history: where the last process to end with a connection open had failed.

`FaultsContained`: an ordinary client whose connection was accepted loses it only to SIGINT, to another thread of the same process, or to a failure of the very process that
had it in hand and could not go on (`serv01` cannot fork for it, `serv03` cannot release its lock); never to an unruly client or an error of `accept` in another process, and never because
somebody closed it unanswered. `ConnAnswered`: every request is answered or its client finds the connection broken, and all descriptors of the connection get closed; a client waits for ever
only in the backlog, when nobody can accept any more (`Abandoned`). There are two such cases, which main does not notice because it only pauses: every child has failed, or a child of `serv04` has
failed in `accept` with the process-shared mutex locked, which nobody unlocks. `Reaped`: no zombie stays, although signals merge. `ShutdownCompletes`: SIGINT ends a server with all its children, wherever they are with respect to the
lock. The fairness is weak fairness of each process, each thread, the delivery of a signal and of clients between `connect` and their request. Weak fairness promises no
particular waiter the lock; somebody gets it, and with finitely many connections that is enough. SIGINT goes to
main only; if it comes while children are still being made, main ends and they stay, which nothing in the repository rules out.

*Proofs.* `ProgramsProof` proves for every number of workers and every set of clients, for all nine servers: `FaultsAreContained` (`FaultsContained`), `ConnectionsServedOnce`
(no connection is held by two processes, or held and still in the backlog) and, if `NoOne` is no worker, `OneInAccept` (a lock around accept lets one worker in, also when workers die with it).
The assumption is `AcceptAssumption`: `NoConn` is no connection. The strengthening of `FaultsContained` is `InFlight`: an ordinary client that is connected is in the backlog, or a process owes it an answer (`Holds`), or it is excused for one
of the listed reasons; and once it has noticed, nobody has its connection any more. `EmptyHands` says where a process has no connection, which is why an error of `accept` takes none with it. The lemmas
`EndMainInv` and `EndChildInv` prove it once for every way a process can end.

## 7. The database library

`Database` models `db.c`: index records on hash chains and on the free list, data records, and the record locks on a chain, the free list, the end of the index file and the data
file. A step is one lock, with the reads up to the next write, or one write, with the unlocks after it; chains and the free list are walked a record per step. A single `read` or `writev` is one step.

| Action | Code (`db.c`) |
|---|---|
| `CallDb`, `FindLock`, `Walk`, `FetchDat`, `EndCall` | `db_fetch`, `db_delete`, `db_store`, `_db_find_and_lock` |
| `DelDat`, `DelIdx`, `DelFree`, `DelUnlink` | `_db_dodelete` 463–525 |
| `FreeLock`, `FreeWalk`, `TakeFree` | `_db_findfree` 752–805 |
| `AppendDat`, `WriteDat`, `AppendIdx`, `WriteIdx`, `LinkChain`, `PointerTooBig` | `_db_writedat`, `_db_writeidx`, `_db_writeptr` as `db_store` calls them |
| `Rewind`, `NextLock`, `NextIdx`, `NextReturn` | `db_rewind`, `db_nextrec` |

`KeyStore` is the abstract database: a map on which each call acts at once. The refinement mapping `Visible` shows, for a key whose chain a process has locked for writing, the
contents the chain had before; a call takes effect when it unlocks. `ImplementsKeyStore` therefore says that the calls are linearizable with the effect at the unlock, that a scan
returns a key with data of that key and never blanks or half of a deletion, and that a process which ends because an offset exceeds `PTR_MAX` leaves the old record or none.
`IndexSound`: chains and free list end, hold the right records, and together every record once when the database is at rest. `CallReturns`, under weak fairness of each process:
the locks never form a circle. The instance has two processes, two calls, two initial databases (keys on different chains with a free record; keys on one chain),
data of two lengths (in place, or delete and append) and room for three index records, so that the fourth does not fit.

## 8. Traceroute, readline and the checksum

`Traceroute` models `traceloop` and `recv_v4` with the alarm: `SigAlrm` may come between any two statements, and `TestAlarm`, `EnterRecvfrom` and `Recvfrom` are separate.
The network may lose, delay and reorder answers. `recv_v4` does not match answers with probes, so a late answer is credited to a later hop; `NeverTooFar` says that
it is never credited to an earlier one, although `ip_ttl` has 8 bits and starts again at 0 after hop 255 (`TtlSize`), and that the destination is announced only once the ttl reaches it. `TraceEndsHere` (weak fairness of the program and of the
alarm): the trace ends, unless the alarm fires between the test of `gotalarm` and the call of `recvfrom`, where nothing else would end the wait.
`ProgramsProof` proves `NeverTooFar` for every `HopsMax`, `Tries` and distance from `TraceAssumption`; the strengthening is that no answer is on its way for a ttl that
was not sent (`NoEarlyAnswer`) and that a hop is being probed between `HopLoop` and the return of `recv_v4` (`Probing`).

`Readline` runs both readers over every stream of up to four bytes, every way `read` can split it, and a `maxlen` and a buffer that are smaller than the stream.
`LinesKept`: the calls return the bytes that were sent, in order, none twice and none lost, cut where a line ends or `maxlen` is reached.
`ProgramsProof` proves it for streams of any length and any sizes (`LinesAreKept`, from `ReadlineAssumption`); the strengthening says that the line in progress has room and no newline, and that
a short line is returned only when nothing is left (`InProgress`).

`Checksum` runs `in_checknum` over every message of up to five bytes for a byte of four values, with folds that carry again: the result is that of `in_cksum`, and a
message that holds it sums to zero. The width of the C types is not reached by any packet the program sends.

## 9. The runs `Programs` and `Servers`

`MCPrograms` chooses one of six components in `Init` (`AcceptServers`, `Database`, `Traceroute`, `JobQueue`, `Readline`, `Checksum`). They do not interact, and the variables of the
others keep an initial value. Each temporal formula gets the fairness of its own component. Deadlock is not checked: most of the programs end.
A theorem of `ProgramsProof` states a property of the component alone and of `MCSpec`: a step of `MCSpec` is a step of the component or leaves it alone (`StepsOfPrograms`).
`Programs` runs them all, and checks `AcceptServers` for its types only, with two clients. `Servers` runs `AcceptServers` alone (`Running`), with three clients, and checks `FaultsContained`, `ConnAnswered`, `Reaped` and `ShutdownCompletes`.
`TypesOK` covers the variables of `Database`, `Traceroute`, `AcceptServers` and `JobQueue`; those of `Readline` and `Checksum` are bounded by their own properties.
Three connections, one of them unruly, and two children make one child hold the lock, one wait for it, and a connection wait for both.

## 10. Not modelled

- The timer exercises, the statistics (`meter.c`, `pr_cpu_time.c`) and `compile_hello` have no state another part depends on.
- Of traceroute: name lookup, options, the layout of headers, round-trip times and `icmpcode_v4`, which nothing calls for a decision.
- Of the database: `db_open` with `O_CREAT` and `db_close`; a process killed between two writes, for which the library has no recovery; a second call that moves the file offset
  of a scan.
- Of the clients: the parent that forks them.
- Failures of `malloc` in `thread_init` (section 3), and of calls that succeed once the program runs (`Close`, `Pthread_mutex_lock`, `Signal`, `Pthread_detach`).
- The rest of `extra_lib/` (unpv13e, unpv22e, apue.3e, ncurses; more than nine tenths of the lines of the repository) is vendored unchanged. It consists of libraries that wrap one
  system call per function and of several hundred separate example programs that nothing under `person/` runs. The models contain what the programs above see of them
  (mutexes, condition variables, signals, `select`, stream pipes, `accept`, record locks, the fatal-error functions), most of it marked external. For this reason the map
  covers most of the author's concurrent code but a small share of all lines.
- Proofs: everything under fairness stays with TLC, and so do `Database` and `Checksum`, whose result is an induction over the message.
