# A TLA+ model of the Operating-Systems-Programs demos

The repository is a collection of small C programs, one per interprocess
communication or I/O mechanism of Linux. Each is complete in itself: a `main()`
that usually forks, processes that share one kernel object, and a clean-up. They
share `Common/common.c` (error exits, `wait_for_pid`, `reap_all_children`,
`write_all`). The only two programs that talk to each other are the calculator
server and client.

What is hard about them is not their length but what happens between their lines:
two processes in a read-modify-write, a signal handler inside `poll()`, a `fork()`
whose failure nobody looks at, a process killed with a lock in its hand. The
modules here model those programs step by step, with one step per system call or
shared-memory access, and check what the programs rely on.

## Inventory

| Program | State | Operations | Hard part | Module |
|---|---|---|---|---|
| `SharedMemory/posix_shm_ring_sem.c` | slots, head, tail, three semaphores | produce, consume, fork, reap, unlink | full and empty ring, wrap-around, unchecked fork | `ShmRing`, `BoundedFifo` |
| `SharedMemory/mmap_file_lock_counter.c` | shared int, record lock | lock, load, store, unlock | kill inside the lock | `CounterProcs`, `LockedCounter` |
| `SharedMemory/process_shared_mutex.c` | shared int, mutex | the same | the mutex is not robust | `CounterProcs`, `LockedCounter` |
| `FileLocking/ofd_lock_counter.c` | shared int, OFD lock | the same | all children share one description | `CounterProcs`, `LockedCounter` |
| `Semaphores/sysv_binary_semaphore_guard.c` | shared int, semaphore, undo adjustments | the same | `SEM_UNDO` after a kill | `CounterProcs`, `SemGuard` |
| `MessageQueues/sysv_priority_workers.c` | one bounded queue with types | jobs, results, stop messages | a full queue, a missing worker | `PriorityWorkers` |
| `Signals/sigchld_supervisor.c` | worker, signal, self-pipe, stdio buffer | start, handler, poll, reap | lost wakeups, EINTR, copied buffers | `Supervisor` |
| `FileLocking/lockfile_single_instance.c` | path, files, record locks | open, try lock, fork, unlink | unlink against open, kills | `SingleInstance` |
| `Sockets/unix_calc_server.c`, `unix_calc_client.c` | backlog, connections, workers, SIGCHLD | accept, fork, close, handler, serve; connect, write, shutdown, read | merged signals, failed fork, end of file; grouping and precedence in the parser | `CalcServer`, `CalcParser` |
| `Pipes/fifo_select_chat.c` | two FIFOs | open, write, select, read, wait | opens that wait, reads that merge messages | `FifoChat` |
| `Semaphores/sysv_semaphore_set_barrier.c` | one semaphore | change, wait for zero | a worker that does not come | `Handshakes` |
| `Semaphores/posix_named_sem_pingpong.c` | two semaphores, stdio buffer | wait, print, post | taking turns, output that is not flushed | `Handshakes` |
| `Semaphores/posix_shm_unnamed_sem_latch.c` | message, semaphore | store, post; wait, print | the message before the post | `Handshakes` |
| `MessageQueues/sysv_request_reply.c` | queue with two types | send, receive, answer | each waits for the other's message | `Handshakes` |
| `FileLocking/deadlock_avoidance_ordering.c` | two byte locks | lock, lock | lock order | `Handshakes` |
| `FileLocking/fcntl_byte_range_locks.c` | two ranges | lock, wait, wait | a failed fork makes `waitpid(-1)` | `Handshakes` |
| `FileLocking/flock_parent_child.c` | one lock per description | lock, try, unlock | inherited and new descriptions | `Handshakes` |
| `Pipes/full_duplex_pipe_poll.c` | two pipes | write, poll, read, close | a timeout against a late reply, orphans | `Streams` |
| `Pipes/anonymous_pipeline_exec.c` | pipe | write, close, exec, read to the end | end of file, SIGPIPE, a failed exec | `Streams` |
| `InternetSockets/tcp_shutdown_halfclose.c` | connection | connect, shutdown, accept, read, write | end of file in one direction | `Streams` |
| `InternetSockets/tcp_forking_echo_server.c` | backlog, connections | connect, accept, fork, read, reap | clients that never come | `Streams` |
| `InternetSockets/udp_connected_echo.c` | datagrams | send, receive | loss | `Streams` |
| `Sockets/abstract_namespace_ping.c`, `Sockets/unix_dgram_logger.c`, `Sockets/socketpair_fd_passing.c` | connection, datagrams, socket pair | write, accept, read | a peer that dies | `Streams` |
| `Sockets/epoll_unix_echo.c` | backlog, epoll set, events | wait, accept, read, close | events in any order and grouping, timeout | `Streams` |
| `AlternativeIO/eventfd_counter.c`, `select_timeout_pipe.c`, `poll_many_pipes.c`, `epoll_edge_triggered_pipe.c`, `MessageQueues/posix_mq_timed_receive.c` | pipes, queue | write, poll, read | little: one writer, one reader | `Streams` |
| `Signals/sigsuspend_wait.c` | mask, pending signal | block, kill, suspend | the signal before the wait | `Signals` |
| `Signals/sigaction_restart_demo.c` | pipe, signal | kill, write, read | a handler inside a read | `Signals` |
| `Pipes/self_pipe_signal_reactor.c` | pipe, two signals, alarm | handler, poll, read | a handler inside `poll()` | `Signals` |
| `Signals/signal_mask_pending.c`, `sigqueue_payload.c`, `realtime_signal_order.c`, `MessageQueues/posix_mq_notify_signal.c`, `AlternativeIO/signalfd_sigusr1.c` | mask, pending and queued signals | raise, block, pause, read | merging and order of signals | `Signals` |

All other programs are listed in `PROJECT.json` with the reason why they are not
modelled; see the end of this file.

## How the modules correspond to the code

A process is a program counter (`pc`, `ppc` for a parent, `wpc` for workers, ...)
whose values name the call about to be made. An action is one system call with the
local computation around it. Kernel objects are modelled by how the programs use
them: a semaphore is its value, a pipe its unread bytes or messages, a signal one
pending bit. Names of definitions are those of the C functions and calls where
there is one. `ForkCanFail` lets `fork()` return -1; what follows is what the code
does then, which for most programs is nothing.

* **`ShmRing`**: parent and child loops of the ring, every `sem_wait`, `sem_post`,
  slot and index access a step. `BoundedFifo` is what the ring promises: a queue of
  at most `CAPACITY` numbers, put in order, taken in order. `ImplementsFifo` is the
  refinement: the queue is the slots whose turn the semaphores have announced.
* **`CounterProcs`** is the skeleton of four programs: fork `N` children, each adds
  `DELTA` in a load and a store, reap, print. **`LockedCounter`** adds a lock that
  has an owner; the variable `mechanism`, chosen at the start, is the program.
  **`SemGuard`** adds the System V semaphore with undo adjustments, which has no
  owner, and is shown to implement `LockedCounter` with record locks.
* **`PriorityWorkers`**: every receive names a type, so that the queue is one
  sequence per type; the byte limit is shared. `qbytes` is chosen at the start, the
  way the system's configuration would. A job is its number; its square is not kept.
* **`Supervisor`**: the handler is a step that can come between any two steps of
  `main()`, and `PollInterrupted` is the handler inside a blocked `poll()`, which
  `SA_RESTART` never restarts. `buf`, `wbuf` and `out` are stdio: unflushed lines,
  the worker's copy of them, and what reached stdout.
* **`SingleInstance`**: the program started `P` times. The path names a file or
  nothing, and `unlinked` is the set of the files removed; a lock belongs to a file and a
  process and goes with the process. Instances and their children may be killed. What is
  written into the file is left out, since nothing reads it.
* **`CalcServer`**: the server's loop, the handler `reap()`, a worker per connection
  and the clients. `Loads` says what the clients ask. The worker reads once, at most
  `READ_MAX` characters (`Received`); a request that arrives in pieces is not modelled. Linux
  lets one connection more than the argument of `listen()` wait. When a failed fork has ended
  the server, a client that writes is ended by SIGPIPE (`broken`), and one that has written
  reads the end of file. **`CalcParser`** is the parser: every C function is an
  operator that returns the set of its result, empty where the C code calls `die()`,
  and a value is the term the code computes, so that grouping is visible.
  `Expressions` is the reference, the usual grammar as the set of all terms a text
  has, written without a position or a loop. **`MCCalcServer`** puts them together.
* **`FifoChat`**: both peers; a FIFO's contents are counted in messages, and it has
  a reader or writer when the process that opened the end still has it open.
* **`Processes`**, **`Handshakes`**, **`Streams`**, **`Signals`**, **`Demos`**: twenty-nine
  small programs over one layer. A process is the list of the calls it makes
  (`BarrierChild`, `DuplexParent`, ...), and one action per kind of call says what the call
  does, when it waits and how it fails. `program` is chosen at the start. Creating the
  kernel object comes before the start of the model (its failure ends the program at once),
  removing it is part of the parent's `Exit`.
  * `Processes` has `fork()` (checked or not), `wait_for_pid`, `reap_all_children`, `die`,
    `_exit` and stdout. `log` is what others see, in order; `buf` is what was printed
    without `fflush` when stdout is not a terminal (`tty`); a fork copies it, `die` and
    a return write it, `_exit` and signals lose it. `faults` remembers what went wrong.
    `Wait` of a child whose fork failed is `waitpid(-1)`, which takes any child.
  * `Handshakes` has semaphores and locks. A queue with one message per type behaves as a
    semaphore and is one. The barrier's second semaphore is never used by the code and is
    left out.
  * `Streams` has channels: the messages in one direction of a pipe, socket or queue, and
    who holds each end. End of file is "empty, and nobody can write"; SIGPIPE is "nobody
    can read". `execlp` goes on with the new program or fails. Before `accept()` the kernel holds the server's ends. A timeout may expire
    whenever there is nothing to read. Messages are far smaller than a pipe, so that
    `write_all` is one step.
  * `Signals` has signals sent to the parent, its mask and its handlers. A signal that is not
    blocked is handled before the next call (`Handle`), in `pause()` or `sigsuspend()`
    (`HandleWaiting`), or in `poll()`, which then fails with the handler's byte in the pipe (`HandlePolling`). The alarm is a
    second process that sends one signal.
  * `Demos` composes them: what `fork()` shares and what the end of a process gives up.

Definitions marked "Mutant" are not part of a specification. Each is a plausible
slip in the definition that follows it, under which the named property fails.

## Runs

| Run | Config | Instance | Distinct states | Checks |
|---|---|---|---|---|
| `ring` | `ShmRing.cfg` | 3 slots, 7 numbers | 404 | `RingInv`, `ImplementsFifo`, `ConsumerCompletes`, `OrphanProducerStops` |
| `locked_counter` | `LockedCounter.cfg` | 2 mechanisms, 3 children, 2 additions each, 1 kill | 29532 | `CounterInv`, `NoLostUpdate`, `PrintsExpected`, `CompletesUnlessOrphaned`, `OrphanedMutexBlocks` |
| `ofd_counter` | `OfdCounter.cfg` | 2 children | violation | `PrintsExpected` |
| `sem_guard` | `SemGuard.cfg` | 3 children, 2 kills | 36492 | `SemaphoreAccounts`, `ImplementsLockedCounter` |
| `priority_workers` | `PriorityWorkers.cfg` | 3 workers, 6 jobs, 72 or 144 bytes | 13330 | `TypeOK`, `EachJobInOnePlace`, `StopsWithoutWork`, `SendNeverBlocks`, `CompletesOrFull`, `MissingWorkerBlocks` |
| `supervisor` | `Supervisor.cfg` | 4 workers, 2 stray signals | 496 | `WakeupNotLost`, `NoWorkerAbandoned`, `ReportsAccounted` |
| `supervisor_timeout` | `SupervisorTimeout.cfg` | 2 workers | violation | `TimeoutMeansNoSignal` |
| `single_instance` | `SingleInstance.cfg` | 3 starts, 1 kill | 27067 | `OneMorePerRemoval`, `ChildRejected`, `RejectedByLiving`, `AllEnd` |
| `calc_server` | `MCCalcServer.cfg` | 2 clients with 3 requests, `listen(server, 0)`, or 1 client with 873 texts | 58554 | `TypeOK`, `AnswersMatch`, `ZombiesAnnounced`, `ClientsEnd`, `WorkersReaped` |
| `fifo_chat` | `FifoChat.cfg` | 6 rounds | 155 | `NoBrokenPipe`, `ReadsWhole`, `AllRead`, `EndsUnlessCoalesced` |
| `fifo_chat_hang` | `FifoChatHang.cfg` | 3 rounds | violation | `FifosRemoved` |
| `handshakes` | `Demos.cfg` | 29 programs, 3 workers, 3 rounds, 2 kills, any fork failing | 42666 | `InOrder`, `NoLockCycle`, `SignalsKept`, `Completes`, `Settles`, `NoOrphanWaits`, `AfterFailedFork` |

Deadlock checking is off everywhere because all programs end, and because several
of them really stop when a fork fails; the liveness properties say when.

### Bounds

* Ring: 7 numbers through 3 slots wrap both indices twice and reach the full and
  the empty ring, as the program's 20 through 8 do.
* Counters: three children are needed for one to wait, one to hold and one to be
  killed. With `ITERATIONS = 2` a child comes back to the lock. `DELTA = 2` tells
  the additions made from the counter.
* Queue: 144 bytes hold all results, 72 do not. The dependence on the size is not
  monotone (with two workers and six jobs, 88 bytes never deadlock and 96 may), so the
  bound stated in `SendNeverBlocks` is the one that holds everything.
* Supervisor: four workers let two reports wait in a buffer that two workers copy.
* Single instance: three starts are needed for one to unlink, one to lock the
  unlinked file and one to create a new file.
* Calculator: with `BACKLOG = 0` one connection may wait, so that two clients fill the
  queue and the second has to wait for room, and two workers can
  end on one signal. The texts are all of up to three characters out of eight, and 256
  with three operands, every pair of operators and parentheses around two of the
  operands, matched or not. 32 more are one character longer than the buffer, `READ_MAX`
  being 9 in place of 511.
* The twenty-nine programs: the sizes are those of the programs. Any fork may fail, also
  several, and any two children may be killed at any point. Every datagram may be lost,
  every timeout may expire. Nothing else bounds the behaviours, since every loop ends.
* Chat: twice the rounds of the program. `READ_MAX` is how many messages the 95 bytes
  of one read hold.

### Fairness

Weak fairness of each process: the scheduler runs what can run. A blocked call is a
disabled action, so nothing is assumed of it. Handler and signal delivery belong to
the process that receives them; in `Demos` delivery is a fair step of its own. The supervisor has no liveness property: its
`poll()` has a timeout, so that it ends whatever is wrong with its signals. Kills, stray signals and failing forks are never
fair. No strong fairness is assumed anywhere: in the counter programs a waiting
child cannot be overtaken for ever, since its rivals run out of iterations.

### What the runs found

Most properties hold. The three violations are disagreements between the code and
what it prints or the docs say:

* `ofd_counter`: the OFD lock is taken through one description opened before
  `fork()`. It never conflicts with itself, so updates can be lost although
  `docs/SAMPLE_OUTPUT.md:94` shows 1500 of 1500.
* `supervisor_timeout`: `poll()` returns -1 when SIGCHLD interrupts it, and
  `<= 0` reports that as "poll timed out waiting for SIGCHLD" with the worker dead
  and the byte in the pipe.
* `fifo_chat_hang`: `peer()` never closes its FIFOs. If peer-B once reads two
  messages with one `read()`, its last `select()` waits for an end of file that
  peer-A, waiting for peer-B, does not give. Built and run, the program hangs
  in some runs and not in others.

Properties that hold only with a condition say what the code does otherwise:
`OneMorePerRemoval` (each removal of the file lets in one more instance, and no more than
one: an instance opens the file, another removes it and ends, the first locks the removed
file, and a third creates the file anew, locks that, and runs beside the first), `ChildRejected` (the child gets the lock if its parent was killed or its parent's file
was removed), `ReportsAccounted` (with stdout redirected a report is repeated by
every later worker), `AnswersMatch` (a request beyond 511 characters is answered, without
notice, for its first 511), `CompletesUnlessOrphaned`, `CompletesOrFull`, `Completes` and
`EndsUnlessCoalesced`.

`Settles` is the list of what can make the small programs hang: only at the calls in
`StuckAt`, and every entry of it is needed (with any one removed TLC finds the hang).
A killed child or a lost datagram leaves ten parents in a call that has no timeout: `accept()`
(half-close, abstract, forking), `read()` (eventfd, restart), `recvfrom()` (udp), `sem_wait()`
and `msgrcv()` (ping-pong, request), `sigsuspend()`, or, with the barrier's workers waiting,
`wait()`. `AfterFailedFork` says for each program what a failed fork leads to: the parent
dies at once or at `waitpid` and its object stays, waits for ever, or is not disturbed
(ordered locks; a connection whose worker is missing). `InOrder` needs its second half:
when stdout is redirected, the ping-pong program prints all pings after all pongs.

`Completes`, `Settles` and `InOrder` hold of `self_pipe_signal_reactor.c` because an
interrupted `poll()` counts as a fault there. It is the same slip as the supervisor's: SIGALRM
makes `poll()` return -1, and the program dies with "poll timed out". The process spends the
second until the alarm in `poll()`, so that in practice this is how it ends. `SignalsKept`
shows that the signal is in the pipe all the same, unread.

`RejectedByLiving` is why a lock file that a killed instance leaves behind does no harm: a
start is turned away only by a living process that has locked the very file it opened. An
`open()` with `O_EXCL`, the mutant, would be turned away by the file itself.

## Proofs

Eight modules hold proofs for every value of the constants under the named
assumptions of the component modules (`CounterAssumption` and the like: sizes are
naturals, flags are Booleans).

* **`ShmRingProofs`**. `RingInv` is inductive. That head and tail stay apart follows
  only from the semaphores: `SemaphoreInv` ties `empty` and `full` to the two loop
  variables, `MutexInv` says who is inside, `ContentsInv` that the slots between head
  and tail hold the next numbers, `DeliveryInv` what the child has read. The sum the
  child prints (`RingConsumerTotal`) is a consequence. The one arithmetic fact about
  `%` is a lemma of its own. `RingRefinesFifo`: under the invariant the unread slots hold
  an interval of numbers (`InTransit`), storing lengthens it at the end, loading shortens it
  at the front (`IntervalSteps`), and no other step moves either count (`CountSteps`), so
  that every step is a `Put`, a `Get` or invisible in `BoundedFifo`.
* **`LockedCounterProofs`**. `CounterInv`: who is inside the critical section owns
  the lock (`OwnerInside`), and what a child loaded is still the counter
  (`FreshRead`). Mutual exclusion and "every step adds `DELTA` or nothing" follow
  when the OFD program is not among the mechanisms; that the number is final when
  printed holds for all three. The iterations done are a set of pairs (`Additions`: child and
  number), to which a store adds one pair (`AdditionsCounted`): with `CounterInv` that makes
  "the counter is `DELTA` times the iterations done" inductive (`CounterNoLostUpdate`).
  `EndInv` adds that a child that ended without being killed has done all its iterations;
  the set is then the whole product, and `main()` prints the expected total
  (`CounterPrintsExpected`). `OrphanedMutexStaysLocked` is the action property: the dead
  owner of a mutex is never replaced.
* **`SemGuardProofs`**. `SemaphoreAccounts` with the types is inductive: undo
  adjustments are 1 exactly inside the critical section, and the value is 0 exactly
  when somebody is there. From it every step of the semaphore program is a step of
  `LockedCounter` under the mapping `lock <- Holder` (`SemaphoreRefinesLock`). The theorems
  of `LockedCounterProofs`, instantiated under the same mapping, then hold of the semaphore
  program: `SemaphoreNoLostUpdate` and `SemaphorePrintsExpected` are not proved a second time.
* **`SupervisorProofs`**. `WakeupInv`: a dead, unreaped worker has left a pending
  signal or a byte, or the supervisor is at `waitpid` already. `ReportInv` counts the lines
  in the three places where they can be: a report is once in the buffer of a supervisor that
  writes to no terminal, once in the copy its worker inherited, and out once for every later
  worker that has printed; `exit()` adds the last copy. That concatenation adds the counts
  (`CountConcat`) is a lemma about shifted positions. `SupervisorReportsAccounted` follows
  for returns, timeouts and failed forks alike.
* **`FifoChatProofs`**. `ChatInv` relates each peer's round to what it wrote and got:
  nobody is more than one round ahead, since a round ends with a read that needs a
  message. No write without a reader, at most two messages waiting, and everything
  read at the end are consequences.
* **`PriorityWorkersProofs`**. `JobInv` follows the jobs as sets for any number of jobs
  and up to 99 workers (the next would share type 100 with the results): queued, held by a
  worker, queued as results, printed. The sets are disjoint
  (`Apart`), hold what was sent (`Own`, `Cover`) and no sequence repeats itself (`Single`),
  which makes every count in `EachJobInOnePlace` 0 or 1. When `main()` has printed `JOBS`
  results without repetition these are all jobs (`AllJobs`, the pigeonhole principle), so
  that a stop message is alone in its worker's queue: `StopsWithoutWork`. `CountInv` counts
  messages: until the stop messages go out, the queued jobs, the held ones, the queued results
  and the printed ones add up to the jobs sent, and the payload is within `qbytes`. A job takes
  no more room than a result (`JOB_SIZE <= RESULT_SIZE`), so that `JOBS` results bound whatever
  is queued at a `msgsnd` (`BytesBound`): `QueueTypes` and `RoomySendNeverBlocks`.
* **`CalcServerProofs`**. For any clients and requests. `FlowInv` follows a connection
  from the queue (nobody waits twice, `QueueInv`) through the server's hands (`ServerInv`)
  to the one worker that holds it (`WorkerInv`), so that the answer a client reads is the
  one its own worker wrote (`AnswerInv`). No worker has read what its client has not
  written (`ClientInv`), so that a client whose write breaks never had a worker. `AnswersCorrect` assumes that the parser computes
  what a text means (`Value = Meaning`) and that the empty text means nothing; for the operators
  of `CalcParser` TLC checks that on the texts of the `calc_server` run. `CalcTypes`,
  `ZombiesFound` and the results on termination need no such assumption.
* **`SingleInstanceProofs`**. `InstanceInv` for any number of starts and kills: a lock belongs
  to a living process that has opened the file (`LockInv`), whoever is past `try_lock()` has
  the lock on its file (`HolderInv`), and every file created was removed or has the name
  (`FilesInv`). Running instances thus hold different files, of which all but one are
  removed: mapping each to its file gives `OneMorePerRemoval` (`OneInstance`).
  `RejectedOnlyByLiving` follows from `LockInv`, `ChildGetsNoLock` from what `FamilyInv` says
  of the two descriptors. That there are never more files than starts (`CreatedInv`) keeps
  the descriptors in range.

### Termination

What a liveness property says is "the program gets there if the scheduler is fair". Its last
step, from fairness to "eventually", is out of the prover's reach. The two facts about the
program that it rests on are not, and are proved for every value of the constants in the last
section of each of the eight modules:

* **The steps run out.** `StepsLeft` is a natural number, and every step of every process,
  signal or kill lowers it (`[][StepsLeft' < StepsLeft]_vars`). Its first value, a lemma of each
  module, is a bound on the length of every run. Nothing in these programs polls, retries or
  sends a message in a circle.
* **The program stops only at an end.** `CanStep` is the disjunction of the guards of the
  actions, written out because `ENABLED` is out of reach (TLC was used to compare the two).
  Every reachable state satisfies `CanStep` or is one of the ends named in the theorem. An end
  other than the normal one is a state in which the program really stays.

| Module | Bound on the steps | Where it may stop |
|---|---|---|
| `ShmRingProofs` | `12*ITEMS + 3` | completed; or the fork failed, and the parent is blocked on the full ring or died in `wait_for_pid` |
| `LockedCounterProofs` | `N*(4*ITERATIONS + 1) + N + 2` | `main()` done; or a killed child left the mutex locked |
| `SemGuardProofs` | the same, through the refinement | `main()` done, also after kills |
| `PriorityWorkersProofs` | `4*(WORKERS + JOBS) + 1` | queue removed; a process blocked in a full queue; `main()` waiting for a worker that was never forked, all other jobs printed. With `Room` in the queue, not the second |
| `SupervisorProofs` | `7*RESTART_LIMIT + 5*MaxStray + 9` | the supervisor has ended; neither the timeout of `poll()` nor a stray signal is needed for that |
| `FifoChatProofs` | `6*ROUNDS + 6` | peer-A ended; or both wait for each other and peer-B is in its last round, the hang of `fifo_chat_hang` and the only one |
| `SingleInstanceProofs` | `9*P` | each instance by itself: it or its own child can go on until it has ended |
| `CalcServerProofs` | `13` for each client that asks, and 1 | each client by itself: it, its own worker or the server can go on until it has ended |

The first theorem of a pair is named `...StepsRunOut`, the second `...StopsOnlyAtEnd`
(`NoInstanceWaits` and `NoClientWaits` for the last two). Together they are what
`ConsumerCompletes`, `OrphanProducerStops`, `CompletesUnlessOrphaned`, `CompletesOrFull`,
`MissingWorkerBlocks`, `EndsUnlessCoalesced`, `AllEnd` and `ClientsEnd` need beyond fairness;
with `ZombiesFound` in place of the second, the same goes for `WorkersReaped`.

Where the work of several processes is added up, `StepsLeft` is the size of a set of (process,
step) pairs, since a sum over a set is a recursive definition. Most of the second theorems
need a small invariant of their own. `AheadInv` bounds what the chat's peers have got by the rounds
they have done. `AwaitStop` says that a worker of the queue program that was told to stop finds
the stop message, so that `reap_all_children` does not wait in vain. `HeldInv` says that
whoever owns the lock of the counter programs is inside the critical section or, with the
mutex, was killed there. `BlockedInv` says that the supervisor blocks in `poll()` only on an
empty pipe, `ReapedInv` that nobody waits for a child already reaped.

One theorem has a hypothesis on the constants that the model does not make: `CalcStepsRunOut`
needs finitely many clients.

### Only model-checked

All liveness properties as such and the fairness part of the refinement (`ENABLED` and fairness
are beyond the prover). `InOrder`, `NoLockCycle` and `SignalsKept` of the twenty-nine programs of
`Demos`, which are fixed sequences of calls whose sizes are fixed in the code, so that the run
covers them. The parser, whose operators are recursive.

## What is not modelled

* Programs that are one sequence of calls in one process, where there is nothing to
  interleave and no state of their own to go wrong: `splice_zero_copy_pipe`,
  `reuseaddr_rebind_demo`, `getaddrinfo_loopback_client`, `sysv_queue_control`,
  `posix_sem_timedwait_timeout`, `altstack_segv_recovery`.
* `memfd_sealed_config` and `mmap_copy_on_write`: two processes ordered by `fork()` and
  `wait_for_pid` alone; what they show is that the kernel keeps seals and private pages,
  which a model would have to assume.
* Short writes in `write_all`, and a calculator request that arrives in pieces: all
  messages of the programs are far below the size of a pipe or socket buffer, so that a
  write is whole. Numbers in the calculator are digits; `strtod`, rounding and the
  formatting of the result are left out.
* Failures of the calls that create the kernel objects: the program ends at once.
* The death of a parent by a signal from outside. The programs' own ways of ending it (`die`,
  SIGPIPE) are modelled.
