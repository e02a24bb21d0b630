-------------------------- MODULE PriorityWorkers --------------------------
(***************************************************************************)
(* MessageQueues/sysv_priority_workers.c: main() forks WORKERS workers,    *)
(* sends JOBS jobs over one System V queue, worker by message type, reads  *)
(* as many results of type 100 from the same queue, then sends every       *)
(* worker a stop message, reaps them and removes the queue.                *)
(*                                                                         *)
(* Every receive asks for one type, so only the order within a type can be *)
(* observed: the queue is one sequence per type.  All types share qbytes:  *)
(* msgsnd blocks while the payload does not fit.  The kernel's queue is    *)
(* external.  A job is its number; its result carries the job and the      *)
(* worker's identity (the square is a function of the job).                *)
(***************************************************************************)
EXTENDS Integers, Sequences, FiniteSets

CONSTANTS WORKERS,       \* 3 in the program
          JOBS,          \* 9 in the program
          JOB_SIZE,      \* sizeof(struct job_msg) - sizeof(long): 8
          RESULT_SIZE,   \* sizeof(struct result_msg) - sizeof(long): 24
          QBYTES,        \* the values msg_qbytes may have; 16384 by default
          ForkCanFail    \* may fork() return -1?

ASSUME QueueAssumption == /\ WORKERS \in 1 .. 99     \* no worker has type 100
                          /\ JOBS \in Nat
                          /\ QBYTES \subseteq Nat /\ JOB_SIZE \in Nat /\ RESULT_SIZE \in Nat
                          /\ JOB_SIZE <= RESULT_SIZE
                          /\ ForkCanFail \in BOOLEAN

STOP == -1               \* the job_id of a stop message

VARIABLES jobs,          \* per worker: queued messages of its type
          results,       \* queued messages of type 100
          wpc, job,      \* per worker: where it is and the job it holds
          ppc, i,        \* main(): where it is and its loop variable
          printed,       \* the results main() has printed
          qbytes         \* msg_qbytes of the queue

vars == <<jobs, results, wpc, job, ppc, i, printed, qbytes>>

Workers == 1 .. WORKERS

\* The type of job k, the worker it is for.
WorkerOf(k) == ((k - 1) % WORKERS) + 1

\* Payload bytes in the queue, and whether msgsnd can add `size' to them.
Queued == {p \in Workers \X (1 .. JOBS + 1) : p[2] \in DOMAIN jobs[p[1]]}
Bytes == JOB_SIZE * Cardinality(Queued) + RESULT_SIZE * Len(results)
Fits(size) == Bytes + size <= qbytes

Init == /\ jobs = [w \in Workers |-> << >>]
        /\ results = << >>
        /\ wpc = [w \in Workers |-> "unborn"]
        /\ job = [w \in Workers |-> 0]
        /\ ppc = "fork"
        /\ i = 1
        /\ printed = << >>
        /\ qbytes \in QBYTES

-----------------------------------------------------------------------------
(* main()                                                                  *)

\* The four loops of main(): where loop l goes when its variable becomes k.
Loop(l, k, bound, next) == IF k <= bound
                             THEN ppc' = l /\ i' = k
                             ELSE ppc' = next /\ i' = 1

\* A failed fork() is not noticed.
Fork == /\ ppc = "fork"
        /\ \/ wpc' = [wpc EXCEPT ![i] = "receive"]
           \/ ForkCanFail /\ UNCHANGED wpc
        /\ Loop("fork", i + 1, WORKERS, IF JOBS = 0 THEN "stop" ELSE "send")
        /\ UNCHANGED <<jobs, results, job, printed, qbytes>>

\* Mutant of SendJob: msgsnd does not wait for room.
SendJobUnbounded == /\ ppc = "send"
                    /\ jobs' = [jobs EXCEPT ![WorkerOf(i)] = Append(@, i)]
                    /\ Loop("send", i + 1, JOBS, "receive")
                    /\ UNCHANGED <<results, wpc, job, printed, qbytes>>

SendJob == /\ ppc = "send"
           /\ Fits(JOB_SIZE)
           /\ jobs' = [jobs EXCEPT ![WorkerOf(i)] = Append(@, i)]
           /\ Loop("send", i + 1, JOBS, "receive")
           /\ UNCHANGED <<results, wpc, job, printed, qbytes>>

\* Mutants of ReceiveResult: stop messages go out one result early; the result
\* is copied instead of taken; msgrcv does not wait and its failure is ignored.
ReceiveResultShort == /\ ppc = "receive"
                      /\ results # << >>
                      /\ printed' = Append(printed, Head(results))
                      /\ results' = Tail(results)
                      /\ Loop("receive", i + 1, JOBS - 1, "stop")
                      /\ UNCHANGED <<jobs, wpc, job, qbytes>>
ReceiveResultCopies == /\ ppc = "receive"
                       /\ results # << >>
                       /\ printed' = Append(printed, Head(results))
                       /\ Loop("receive", i + 1, JOBS, "stop")
                       /\ UNCHANGED <<jobs, results, wpc, job, qbytes>>

ReceiveResultNowait == /\ ppc = "receive"
                       /\ printed' = IF results = << >> THEN printed
                                     ELSE Append(printed, Head(results))
                       /\ results' = IF results = << >> THEN results ELSE Tail(results)
                       /\ Loop("receive", i + 1, JOBS, "stop")
                       /\ UNCHANGED <<jobs, wpc, job, qbytes>>

ReceiveResult == /\ ppc = "receive"
                 /\ results # << >>
                 /\ printed' = Append(printed, Head(results))
                 /\ results' = Tail(results)
                 /\ Loop("receive", i + 1, JOBS, "stop")
                 /\ UNCHANGED <<jobs, wpc, job, qbytes>>

\* Mutant of SendStop: the last worker is forgotten.
SendStopOneLess == /\ ppc = "stop"
                   /\ Fits(JOB_SIZE)
                   /\ jobs' = [jobs EXCEPT ![i] = Append(@, STOP)]
                   /\ Loop("stop", i + 1, WORKERS - 1, "reap")
                   /\ UNCHANGED <<results, wpc, job, printed, qbytes>>

SendStop == /\ ppc = "stop"
            /\ Fits(JOB_SIZE)
            /\ jobs' = [jobs EXCEPT ![i] = Append(@, STOP)]
            /\ Loop("stop", i + 1, WORKERS, "reap")
            /\ UNCHANGED <<results, wpc, job, printed, qbytes>>

\* reap_all_children, one wait(NULL) at a time.
Reap(w) == /\ ppc = "reap"
           /\ wpc[w] = "zombie"
           /\ wpc' = [wpc EXCEPT ![w] = "reaped"]
           /\ UNCHANGED <<jobs, results, job, ppc, i, printed, qbytes>>

\* No child is left: msgctl(IPC_RMID) discards whatever is queued.
Remove == /\ ppc = "reap"
          /\ \A w \in Workers : wpc[w] \in {"unborn", "reaped"}
          /\ ppc' = "removed"
          /\ jobs' = [w \in Workers |-> << >>]
          /\ results' = << >>
          /\ UNCHANGED <<wpc, job, i, printed, qbytes>>

Main == \/ Fork \/ SendJob \/ ReceiveResult \/ SendStop
        \/ (\E w \in Workers : Reap(w)) \/ Remove

-----------------------------------------------------------------------------
(* worker()                                                                *)

\* msgrcv of the worker's own type; a stop message ends the worker.
Receive(w) == /\ wpc[w] = "receive"
              /\ jobs[w] # << >>
              /\ job' = [job EXCEPT ![w] = Head(jobs[w])]
              /\ jobs' = [jobs EXCEPT ![w] = Tail(@)]
              /\ wpc' = [wpc EXCEPT ![w] = IF Head(jobs[w]) < 0 THEN "zombie" ELSE "send"]
              /\ UNCHANGED <<results, ppc, i, printed, qbytes>>

SendResult(w) == /\ wpc[w] = "send"
                 /\ Fits(RESULT_SIZE)
                 /\ results' = Append(results, [job |-> job[w], worker |-> w])
                 /\ wpc' = [wpc EXCEPT ![w] = "receive"]
                 /\ UNCHANGED <<jobs, job, ppc, i, printed, qbytes>>

Worker(w) == Receive(w) \/ SendResult(w)

Next == Main \/ \E w \in Workers : Worker(w)

Spec == Init /\ [][Next]_vars

\* Every process that can run is scheduled.
FairSpec == Spec /\ WF_vars(Main) /\ \A w \in Workers : WF_vars(Worker(w))

-----------------------------------------------------------------------------
(* Properties.                                                             *)

Result == [job : 1 .. JOBS, worker : Workers]

\* The variables have their types; the payload never exceeds msg_qbytes.
TypeOK == /\ jobs \in [Workers -> Seq(1 .. JOBS \cup {STOP})]
          /\ results \in Seq(Result)
          /\ wpc \in [Workers -> {"unborn", "receive", "send", "zombie", "reaped"}]
          /\ job \in [Workers -> 0 .. JOBS \cup {STOP}]
          /\ ppc \in {"fork", "send", "receive", "stop", "reap", "removed"}
          /\ i \in Nat
          /\ printed \in Seq(Result)
          /\ Bytes <= qbytes

\* How many jobs main() has sent.
Sent == IF ppc = "fork" THEN 0 ELSE IF ppc = "send" THEN i - 1 ELSE JOBS

\* Where job k is: the places, each with its multiplicity.
Places(k) == Cardinality({x \in DOMAIN jobs[WorkerOf(k)] : jobs[WorkerOf(k)][x] = k})
             + Cardinality({w \in Workers : wpc[w] = "send" /\ job[w] = k})
             + Cardinality({x \in DOMAIN results : results[x].job = k})
             + Cardinality({x \in DOMAIN printed : printed[x].job = k})

\* No job is lost or done twice: a job that main() has sent is in exactly one
\* place - queued for its worker, held by it, queued as a result, or printed.
EachJobInOnePlace == \A k \in 1 .. JOBS : Places(k) = IF k <= Sent THEN 1 ELSE 0

\* A worker ends only after it has sent the results of all jobs of its type,
\* and it leaves nothing of its type in the queue.
StopsWithoutWork ==
  \A w \in Workers : wpc[w] \in {"zombie", "reaped"} =>
    /\ jobs[w] = << >>
    /\ \A k \in 1 .. JOBS : WorkerOf(k) = w => \E x \in DOMAIN printed : printed[x].job = k

\* The only thing that can keep the program from ending is a queue too small for
\* it: it ends, or a process is stuck in msgsnd.  main() sends every job before
\* it reads a result, so a small queue does deadlock it.
CompletesOrFull ==
  (ppc = "send" /\ \A w \in Workers : wpc[w] # "unborn")
    ~> [](\/ ppc = "removed"
          \/ ppc = "send" /\ ~ENABLED SendJob
          \/ \E w \in Workers : wpc[w] = "send" /\ ~ENABLED SendResult(w))

\* Room for a result of every job and a stop message for every worker.
Room == LET r == JOBS * RESULT_SIZE
            t == WORKERS * JOB_SIZE
        IN  IF r > t THEN r ELSE t

\* With that much room no msgsnd ever blocks, so that nothing keeps the program
\* from ending: its 9 jobs are far below the default 16384.
SendNeverBlocks ==
  qbytes >= Room => /\ ppc \in {"send", "stop"} => Fits(JOB_SIZE)
                    /\ \A w \in Workers : wpc[w] = "send" => Fits(RESULT_SIZE)

\* If the fork of a worker failed and there is a job for it, main() waits for
\* results for ever; the jobs of the other workers are done and printed.
MissingWorkerBlocks ==
  (qbytes >= Room /\ ppc = "send" /\ \E k \in 1 .. JOBS : wpc[WorkerOf(k)] = "unborn")
    ~> [](/\ ppc = "receive" /\ results = << >>
          /\ \A k \in 1 .. JOBS : \/ wpc[WorkerOf(k)] = "unborn"
                                  \/ \E x \in DOMAIN printed : printed[x].job = k)
=============================================================================
