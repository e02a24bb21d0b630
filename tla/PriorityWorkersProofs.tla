----------------------- MODULE PriorityWorkersProofs ------------------------
(***************************************************************************)
(* Proofs about PriorityWorkers, for any number of jobs and up to 99       *)
(* workers (the next would share type 100 with the results), any size of   *)
(* the queue, and with forks that may fail.  Followed as sets, the jobs    *)
(* move from the queue to a worker, to the results, to what is printed.    *)
(* When main() has printed JOBS results these are all the jobs, so that no *)
(* worker has any left when the stop messages go out.  Counted, they never *)
(* take more of the queue than msg_qbytes, nor more than a result for each *)
(* job, so that no msgsnd blocks in a queue with that much room.  The last *)
(* part bounds the steps of the program and says where it may stop.        *)
(***************************************************************************)
EXTENDS PriorityWorkers, FiniteSetTheorems, TLAPS

-----------------------------------------------------------------------------
(* Sequences as sets, without repetition.                                  *)

Elems(s) == {s[x] : x \in DOMAIN s}
Once(s) == \A x, y \in DOMAIN s : s[x] = s[y] => x = y

\* The same for results, by their jobs.
JobsIn(s) == {s[x].job : x \in DOMAIN s}
JobOnce(s) == \A x, y \in DOMAIN s : s[x].job = s[y].job => x = y

\* msgsnd appends a job.
LEMMA AppendElem ==
  ASSUME NEW S, NEW s \in Seq(S), NEW e \in S
  PROVE  /\ Append(s, e) \in Seq(S)
         /\ Elems(Append(s, e)) = Elems(s) \cup {e}
         /\ Once(s) /\ e \notin Elems(s) => Once(Append(s, e))
<1> DEFINE t == Append(s, e)
<1>1. t \in Seq(S) /\ DOMAIN t = 1 .. Len(s) + 1 /\ DOMAIN s = 1 .. Len(s) /\ Len(s) \in Nat
  OBVIOUS
<1>2. t[Len(s) + 1] = e /\ \A x \in DOMAIN s : t[x] = s[x]
  OBVIOUS
<1> HIDE DEF t
<1>3. Elems(t) = Elems(s) \cup {e}
  BY <1>1, <1>2 DEF Elems
<1>4. Once(s) /\ e \notin Elems(s) => Once(t)
  BY <1>1, <1>2 DEF Elems, Once
<1> QED BY <1>1, <1>3, <1>4 DEF t

\* msgrcv takes the first job and no other.
LEMMA TailElem ==
  ASSUME NEW S, NEW s \in Seq(S), s # << >>, Once(s)
  PROVE  /\ Head(s) \in S /\ Head(s) \in Elems(s) /\ Tail(s) \in Seq(S)
         /\ Elems(Tail(s)) = Elems(s) \ {Head(s)}
         /\ Once(Tail(s))
<1> DEFINE t == Tail(s)
<1>1. /\ t \in Seq(S) /\ Len(s) \in Nat /\ Len(s) > 0
      /\ DOMAIN t = 1 .. Len(s) - 1 /\ DOMAIN s = 1 .. Len(s)
  OBVIOUS
<1>2. Head(s) = s[1] /\ Head(s) \in S /\ \A x \in DOMAIN t : t[x] = s[x + 1]
  OBVIOUS
<1> HIDE DEF t
<1>3. Elems(t) = Elems(s) \ {Head(s)}
  <2>1. ASSUME NEW x \in DOMAIN t PROVE t[x] \in Elems(s) \ {Head(s)}
    BY <1>1, <1>2, x + 1 \in DOMAIN s, 1 \in DOMAIN s, x + 1 # 1 DEF Elems, Once
  <2>2. ASSUME NEW x \in DOMAIN s, s[x] # Head(s) PROVE s[x] \in Elems(t)
    BY <1>1, <1>2, <2>2, x - 1 \in DOMAIN t, t[x - 1] = s[x] DEF Elems
  <2> QED BY <2>1, <2>2 DEF Elems
<1>4. Once(t)
  BY <1>1, <1>2, SMTT(30) DEF Once
<1>5. Head(s) \in Elems(s)
  BY <1>1, <1>2 DEF Elems
<1> QED BY <1>1, <1>2, <1>3, <1>4, <1>5, ZenonT(30) DEF t

\* A result is appended: to the queue by a worker, to what is printed by main().
LEMMA AppendResult ==
  ASSUME NEW s \in Seq(Result), NEW e \in Result
  PROVE  /\ Append(s, e) \in Seq(Result) /\ Len(Append(s, e)) = Len(s) + 1
         /\ JobsIn(Append(s, e)) = JobsIn(s) \cup {e.job}
         /\ JobOnce(s) /\ e.job \notin JobsIn(s) => JobOnce(Append(s, e))
<1> DEFINE t == Append(s, e)
<1>1. /\ t \in Seq(Result) /\ Len(t) = Len(s) + 1 /\ Len(s) \in Nat
      /\ DOMAIN t = 1 .. Len(s) + 1 /\ DOMAIN s = 1 .. Len(s)
  OBVIOUS
<1>2. t[Len(s) + 1] = e /\ \A x \in DOMAIN s : t[x] = s[x]
  OBVIOUS
<1> HIDE DEF t, Result
<1>3. JobsIn(t) = JobsIn(s) \cup {e.job}
  BY <1>1, <1>2 DEF JobsIn
<1>4. JobOnce(s) /\ e.job \notin JobsIn(s) => JobOnce(t)
  BY <1>1, <1>2 DEF JobsIn, JobOnce
<1> QED BY <1>1, <1>3, <1>4 DEF t

\* main() takes the first result and no other.
LEMMA TailResult ==
  ASSUME NEW s \in Seq(Result), s # << >>, JobOnce(s)
  PROVE  /\ Head(s) \in Result /\ Head(s).job \in JobsIn(s) /\ Tail(s) \in Seq(Result)
         /\ JobsIn(Tail(s)) = JobsIn(s) \ {Head(s).job}
         /\ JobOnce(Tail(s))
<1> DEFINE t == Tail(s)
<1>1. /\ t \in Seq(Result) /\ Len(s) \in Nat /\ Len(s) > 0
      /\ DOMAIN t = 1 .. Len(s) - 1 /\ DOMAIN s = 1 .. Len(s)
  OBVIOUS
<1>2. Head(s) = s[1] /\ Head(s) \in Result /\ \A x \in DOMAIN t : t[x] = s[x + 1]
  OBVIOUS
<1> HIDE DEF t, Result
<1>3. JobsIn(t) = JobsIn(s) \ {Head(s).job}
  <2>1. ASSUME NEW x \in DOMAIN t PROVE t[x].job \in JobsIn(s) \ {Head(s).job}
    BY <1>1, <1>2, x + 1 \in DOMAIN s, 1 \in DOMAIN s, x + 1 # 1 DEF JobsIn, JobOnce
  <2>2. ASSUME NEW x \in DOMAIN s, s[x].job # Head(s).job PROVE s[x].job \in JobsIn(t)
    BY <1>1, <1>2, <2>2, x - 1 \in DOMAIN t, t[x - 1] = s[x] DEF JobsIn
  <2> QED BY <2>1, <2>2 DEF JobsIn
<1>4. JobOnce(t)
  BY <1>1, <1>2, SMTT(30) DEF JobOnce
<1>5. Head(s).job \in JobsIn(s)
  BY <1>1, <1>2 DEF JobsIn
<1> QED BY <1>1, <1>2, <1>3, <1>4, <1>5, ZenonT(30) DEF t

\* JOBS results without repetition are the results of all jobs.
LEMMA AllJobs ==
  ASSUME NEW s \in Seq(Result), JobOnce(s), Len(s) = JOBS
  PROVE  JobsIn(s) = 1 .. JOBS
<1> DEFINE f == [x \in 1 .. JOBS |-> s[x].job]
<1>1. DOMAIN s = 1 .. JOBS /\ \A x \in 1 .. JOBS : s[x].job \in 1 .. JOBS
  <2>1. DOMAIN s = 1 .. JOBS /\ \A x \in 1 .. JOBS : s[x] \in Result
    OBVIOUS
  <2> QED BY <2>1 DEF Result
<1>2. f \in Injection(1 .. JOBS, 1 .. JOBS)
  BY <1>1 DEF JobOnce, Injection, IsInjective
<1>3. f \in Surjection(1 .. JOBS, 1 .. JOBS)
  BY <1>2, FS_Injection, FS_Interval, QueueAssumption
<1>4. \A k \in 1 .. JOBS : \E x \in 1 .. JOBS : f[x] = k
  BY <1>3, ZenonT(40) DEF Surjection
<1> QED BY <1>1, <1>4, ZenonT(40) DEF JobsIn

\* A sequence without elements is empty.
LEMMA NoElems ==
  ASSUME NEW S, NEW s \in Seq(S), Elems(s) = {}
  PROVE  s = << >>
<1>1. DOMAIN s = {}
  BY ZenonT(40) DEF Elems
<1>2. Len(s) = 0
  BY <1>1, DOMAIN s = 1 .. Len(s), Len(s) \in Nat
<1> QED BY <1>2

\* The places of a value in a sequence without repetition.
LEMMA OneIndex ==
  ASSUME NEW s, NEW k, Once(s)
  PROVE  Cardinality({x \in DOMAIN s : s[x] = k}) = IF k \in Elems(s) THEN 1 ELSE 0
<1>1. CASE k \in Elems(s)
  <2>1. PICK x \in DOMAIN s : s[x] = k
    BY <1>1 DEF Elems
  <2>2. {y \in DOMAIN s : s[y] = k} = {x}
    BY <2>1 DEF Once
  <2> QED BY <1>1, <2>2, FS_Singleton, ZenonT(40)
<1>2. CASE k \notin Elems(s)
  <2>1. {y \in DOMAIN s : s[y] = k} = {}
    BY <1>2 DEF Elems
  <2> QED BY <1>2, <2>1, FS_EmptySet
<1> QED BY <1>1, <1>2

\* The same for the results of a job.
LEMMA OneResult ==
  ASSUME NEW s, NEW k, JobOnce(s)
  PROVE  Cardinality({x \in DOMAIN s : s[x].job = k}) = IF k \in JobsIn(s) THEN 1 ELSE 0
<1>1. CASE k \in JobsIn(s)
  <2>1. PICK x \in DOMAIN s : s[x].job = k
    BY <1>1 DEF JobsIn
  <2>2. {y \in DOMAIN s : s[y].job = k} = {x}
    BY <2>1 DEF JobOnce
  <2> QED BY <1>1, <2>2, FS_Singleton, ZenonT(40)
<1>2. CASE k \notin JobsIn(s)
  <2>1. {y \in DOMAIN s : s[y].job = k} = {}
    BY <1>2 DEF JobsIn
  <2> QED BY <1>2, <2>1, FS_EmptySet
<1> QED BY <1>1, <1>2

\* Every job has a worker.
LEMMA WorkerOfJob == \A k \in 1 .. JOBS : WorkerOf(k) \in Workers
  BY QueueAssumption DEF WorkerOf, Workers

-----------------------------------------------------------------------------
(* The invariant.                                                          *)

Types == /\ jobs \in [Workers -> Seq(1 .. JOBS \cup {STOP})]
         /\ results \in Seq(Result)
         /\ wpc \in [Workers -> {"unborn", "receive", "send", "zombie", "reaped"}]
         /\ job \in [Workers -> 0 .. JOBS \cup {STOP}]
         /\ ppc \in {"fork", "send", "receive", "stop", "reap", "removed"}
         /\ i \in Nat
         /\ printed \in Seq(Result)

\* The loop variable of main(), and how many results it has printed.
Loops == /\ ppc \in {"fork", "stop"} => i \in Workers
         /\ ppc \in {"send", "receive"} => i \in 1 .. JOBS
         /\ Len(printed) = IF ppc \in {"fork", "send"} THEN 0
                           ELSE IF ppc = "receive" THEN i - 1 ELSE JOBS

\* The job a worker has taken and not yet answered.
Held(w) == IF wpc[w] = "send" THEN {job[w]} ELSE {}

\* No message is in a queue twice.
Single == (\A w \in Workers : Once(jobs[w])) /\ JobOnce(results) /\ JobOnce(printed)

\* A worker has jobs of its own type only, and only jobs that were sent.
Own == /\ \A w \in Workers : \A k \in Elems(jobs[w]) \cup Held(w) :
            k = STOP \/ (k \in 1 .. Sent /\ WorkerOf(k) = w)
       /\ \A w \in Workers : STOP \notin Held(w)
       /\ JobsIn(results) \cup JobsIn(printed) \subseteq 1 .. Sent

\* No job is in two places.
Apart == /\ \A w \in Workers : /\ Elems(jobs[w]) \cap Held(w) = {}
                               /\ Elems(jobs[w]) \cap (JobsIn(results) \cup JobsIn(printed)) = {}
                               /\ Held(w) \cap (JobsIn(results) \cup JobsIn(printed)) = {}
         /\ JobsIn(results) \cap JobsIn(printed) = {}

\* Every job that was sent is in some place.
Cover == \A k \in 1 .. Sent : k \in Elems(jobs[WorkerOf(k)]) \cup Held(WorkerOf(k))
                                    \cup JobsIn(results) \cup JobsIn(printed)

\* main() has begun to stop the workers and has sent worker w its stop message.
Stopped(w) == ppc \in {"reap", "removed"} \/ (ppc = "stop" /\ w < i)

\* A stop message was sent by main(), and a worker that ended has read its own.
Stops == \A w \in Workers : /\ STOP \in Elems(jobs[w]) => Stopped(w)
                            /\ wpc[w] \in {"zombie", "reaped"} => Stopped(w) /\ jobs[w] = << >>

JobInv == Types /\ Loops /\ Single /\ Own /\ Apart /\ Cover /\ Stops

\* Once main() sends stop messages, every job is printed and is nowhere else.
LEMMA AllPrinted ==
  ASSUME JobInv, ppc \in {"stop", "reap", "removed"}
  PROVE  /\ JobsIn(printed) = 1 .. JOBS /\ JobsIn(results) = {}
         /\ \A w \in Workers : Elems(jobs[w]) \subseteq {STOP} /\ Held(w) = {}
<1>1. JobsIn(printed) = 1 .. JOBS
  BY AllJobs DEF JobInv, Types, Single, Loops
<1>2. Sent = JOBS
  BY DEF Sent
<1>3. JobsIn(results) = {}
  BY <1>1, <1>2 DEF JobInv, Own, Apart
<1>4. ASSUME NEW w \in Workers PROVE Elems(jobs[w]) \subseteq {STOP} /\ Held(w) = {}
  BY <1>1, <1>2 DEF JobInv, Own, Apart
<1> QED BY <1>1, <1>3, <1>4

\* The invariant holds at the start.
LEMMA JobInvInit == Init => JobInv
<1> SUFFICES ASSUME Init PROVE JobInv
  OBVIOUS
<1>1. Types /\ Loops
  BY QueueAssumption DEF Init, Types, Loops, Workers
<1>2. /\ \A w \in Workers : jobs[w] = << >> /\ Elems(jobs[w]) = {} /\ Held(w) = {}
      /\ JobsIn(results) = {} /\ JobsIn(printed) = {} /\ Sent = 0
  BY DEF Init, Elems, JobsIn, Held, Sent
<1>3. Single
  BY DEF Init, Single, Once, JobOnce
<1>4. Own /\ Apart /\ Cover
  BY <1>2, SMTT(30) DEF Own, Apart, Cover
<1>5. Stops
  BY <1>2 DEF Stops, Init
<1> QED BY <1>1, <1>3, <1>4, <1>5 DEF JobInv

-----------------------------------------------------------------------------
(* Every step keeps the invariant.                                         *)

\* main() forks, or fails to fork, a worker: no job is anywhere yet.
LEMMA ForkStep == JobInv /\ Fork => JobInv'
<1> SUFFICES ASSUME JobInv, Fork PROVE JobInv'
  OBVIOUS
<1>1. Types' /\ Loops'
  <2>1. i \in 1 .. WORKERS /\ WORKERS \in Nat /\ WORKERS > 0 /\ JOBS \in Nat
    BY QueueAssumption DEF JobInv, Loops, Fork, Workers
  <2>2. wpc' \in [Workers -> {"unborn", "receive", "send", "zombie", "reaped"}]
    BY ZenonT(40) DEF JobInv, Types, Fork
  <2>3. Types'
    BY <2>1, <2>2 DEF JobInv, Types, Fork, Loop
  <2>4. Len(printed) = 0 /\ printed' = printed
    BY DEF JobInv, Loops, Fork
  <2>5. Loops'
    BY <2>1, <2>4 DEF Loops, Fork, Loop, Workers
  <2> QED BY <2>3, <2>5
<1>2. Sent = 0 /\ Sent' = 0
  BY QueueAssumption DEF JobInv, Types, Loops, Fork, Loop, Sent, Workers
<1>3. \A w \in Workers : Held(w) = {} /\ Held(w)' = {} /\ Elems(jobs[w]) \subseteq {STOP}
  <2>1. \A w \in Workers : Held(w) = {} /\ Elems(jobs[w]) \subseteq {STOP}
    BY <1>2 DEF JobInv, Own
  <2>2. \A w \in Workers : wpc'[w] = "send" => wpc[w] = "send"
    BY DEF JobInv, Types, Loops, Fork
  <2> QED BY <2>1, <2>2 DEF Held
<1>4. jobs' = jobs /\ results' = results /\ printed' = printed
  BY DEF Fork
<1>5. Single' /\ Own' /\ Apart' /\ Cover'
  BY <1>2, <1>3, <1>4 DEF JobInv, Single, Own, Apart, Cover
<1>6. Stops'
  BY <1>4 DEF JobInv, Types, Loops, Stops, Stopped, Fork
<1> QED BY <1>1, <1>5, <1>6 DEF JobInv

\* main() sends job i, which was nowhere before, to its worker.
LEMMA SendJobStep == JobInv /\ SendJob => JobInv'
<1> DEFINE u == WorkerOf(i)
<1> SUFFICES ASSUME JobInv, SendJob PROVE JobInv'
  OBVIOUS
<1>1. i \in 1 .. JOBS /\ u \in Workers /\ JOBS \in Nat
  BY WorkerOfJob, QueueAssumption DEF JobInv, Loops, SendJob
<1>2. Sent = i - 1 /\ Sent' = i
  BY <1>1 DEF SendJob, Loop, Sent
<1>3. /\ jobs'[u] = Append(jobs[u], i)
      /\ \A w \in Workers : w # u => jobs'[w] = jobs[w]
      /\ results' = results /\ printed' = printed
      /\ \A w \in Workers : Held(w)' = Held(w)
  BY <1>1 DEF JobInv, Types, SendJob, Held
<1> HIDE DEF u
<1>4. /\ i \notin Elems(jobs[u])
      /\ \A w \in Workers : i \notin Held(w)
      /\ i \notin JobsIn(results) \cup JobsIn(printed)
  BY <1>1, <1>2 DEF JobInv, Own, STOP
<1>5. /\ jobs'[u] \in Seq(1 .. JOBS \cup {STOP})
      /\ Elems(jobs'[u]) = Elems(jobs[u]) \cup {i} /\ Once(jobs'[u])
  <2>1. jobs[u] \in Seq(1 .. JOBS \cup {STOP}) /\ Once(jobs[u])
    BY <1>1 DEF JobInv, Types, Single
  <2> QED BY <2>1, <1>1, <1>3, <1>4, AppendElem
<1>6. Types' /\ Loops'
  <2>1. jobs' \in [Workers -> Seq(1 .. JOBS \cup {STOP})]
    BY <1>1, <1>3, <1>5 DEF JobInv, Types, SendJob, u
  <2> QED BY <2>1, <1>1 DEF JobInv, Types, Loops, SendJob, Loop
<1>7. Single'
  BY <1>3, <1>5, ZenonT(40) DEF JobInv, Single
<1>8. Own'
  <2>1. \A k \in 1 .. Sent : k \in 1 .. Sent'
    BY <1>1, <1>2
  <2>2. i \in 1 .. Sent' /\ WorkerOf(i) = u
    BY <1>1, <1>2 DEF u
  <2> QED BY <2>1, <2>2, <1>3, <1>5, ZenonT(40) DEF JobInv, Own
<1>9. Apart'
  <2>1. \A w \in Workers : Elems(jobs'[w]) \subseteq Elems(jobs[w]) \cup {i}
    BY <1>3, <1>5, ZenonT(40)
  <2> QED BY <2>1, <1>3, <1>4, SMTT(30) DEF JobInv, Apart
<1>10. Cover'
  <2> SUFFICES ASSUME NEW k \in 1 .. Sent'
               PROVE  (k \in Elems(jobs[WorkerOf(k)]) \cup Held(WorkerOf(k))
                               \cup JobsIn(results) \cup JobsIn(printed))'
    BY DEF Cover
  <2>1. k = i \/ k \in 1 .. Sent
    BY <1>1, <1>2
  <2>2. WorkerOf(k) \in Workers
    BY <1>1, <1>2, WorkerOfJob
  <2> QED BY <2>1, <2>2, <1>3, <1>5, ZenonT(40) DEF JobInv, Cover, u
<1>11. Stops'
  <2>1. ~\E w \in Workers : Stopped(w)
    BY DEF SendJob, Stopped
  <2>2. \A w \in Workers : STOP \notin Elems(jobs'[w]) /\ wpc'[w] \notin {"zombie", "reaped"}
    BY <2>1, <1>1, <1>3, <1>5 DEF JobInv, Stops, SendJob, STOP
  <2> QED BY <2>2 DEF Stops
<1> QED BY <1>6, <1>7, <1>8, <1>9, <1>10, <1>11 DEF JobInv

\* main() takes a result from the queue and prints it.
LEMMA ReceiveResultStep == JobInv /\ ReceiveResult => JobInv'
<1> DEFINE r == Head(results)
<1> SUFFICES ASSUME JobInv, ReceiveResult PROVE JobInv'
  OBVIOUS
<1>1. /\ results' = Tail(results) /\ printed' = Append(printed, r)
      /\ jobs' = jobs /\ wpc' = wpc /\ job' = job
      /\ \A w \in Workers : Held(w)' = Held(w)
  BY DEF ReceiveResult, Held
<1>2. i \in 1 .. JOBS /\ JOBS \in Nat /\ Len(printed) = i - 1
  BY QueueAssumption DEF JobInv, Loops, ReceiveResult
<1>3. /\ r \in Result /\ r.job \in JobsIn(results) /\ results' \in Seq(Result)
      /\ JobsIn(results') = JobsIn(results) \ {r.job} /\ JobOnce(results')
  <2>1. results \in Seq(Result) /\ results # << >> /\ JobOnce(results)
    BY DEF JobInv, Types, Single, ReceiveResult
  <2> QED BY <2>1, <1>1, TailResult
<1> HIDE DEF r
<1>4. r.job \notin JobsIn(printed)
  BY <1>3 DEF JobInv, Apart
<1>5. /\ printed' \in Seq(Result) /\ Len(printed') = i
      /\ JobsIn(printed') = JobsIn(printed) \cup {r.job} /\ JobOnce(printed')
  <2>1. printed \in Seq(Result) /\ JobOnce(printed)
    BY DEF JobInv, Types, Single
  <2>2. /\ printed' \in Seq(Result) /\ Len(printed') = Len(printed) + 1
        /\ JobsIn(printed') = JobsIn(printed) \cup {r.job} /\ JobOnce(printed')
    BY <2>1, <1>1, <1>3, <1>4, AppendResult
  <2> QED BY <2>2, <1>2
<1>6. Sent' = Sent
  BY <1>2 DEF ReceiveResult, Loop, Sent
<1>7. Types'
  BY <1>1, <1>2, <1>3, <1>5 DEF JobInv, Types, ReceiveResult, Loop
<1>8. Loops'
  BY <1>2, <1>5, QueueAssumption DEF Loops, ReceiveResult, Loop, Workers
<1>9. Single'
  BY <1>1, <1>3, <1>5 DEF JobInv, Single
<1>10. Own'
  BY <1>1, <1>3, <1>5, <1>6 DEF JobInv, Own
<1>11. Apart'
  BY <1>1, <1>3, <1>5 DEF JobInv, Apart
<1>12. Cover'
  <2>1. JobsIn(results') \cup JobsIn(printed') = JobsIn(results) \cup JobsIn(printed)
    BY <1>3, <1>5
  <2>2. \A k \in 1 .. Sent : WorkerOf(k) \in Workers
    BY <1>2, WorkerOfJob DEF Sent, ReceiveResult
  <2> QED BY <2>1, <2>2, <1>1, <1>6 DEF JobInv, Cover
<1>13. Stops'
  <2>1. ~\E w \in Workers : Stopped(w)
    BY DEF ReceiveResult, Stopped
  <2> QED BY <2>1, <1>1 DEF JobInv, Stops
<1> QED BY <1>7, <1>8, <1>9, <1>10, <1>11, <1>12, <1>13 DEF JobInv

\* main() sends worker i its only stop message.
LEMMA SendStopStep == JobInv /\ SendStop => JobInv'
<1> SUFFICES ASSUME JobInv, SendStop PROVE JobInv'
  OBVIOUS
<1>1. i \in Workers /\ i \in 1 .. WORKERS /\ WORKERS \in Nat /\ JOBS \in Nat
  BY QueueAssumption DEF JobInv, Loops, SendStop, Workers
<1>2. /\ jobs'[i] = Append(jobs[i], STOP)
      /\ \A w \in Workers : w # i => jobs'[w] = jobs[w]
      /\ results' = results /\ printed' = printed /\ wpc' = wpc /\ job' = job
      /\ \A w \in Workers : Held(w)' = Held(w)
  BY <1>1 DEF JobInv, Types, SendStop, Held
<1>3. STOP \notin Elems(jobs[i]) /\ wpc[i] \notin {"zombie", "reaped"}
  <2>1. ~Stopped(i)
    BY <1>1 DEF SendStop, Stopped
  <2> QED BY <2>1, <1>1 DEF JobInv, Stops
<1>4. /\ jobs'[i] \in Seq(1 .. JOBS \cup {STOP})
      /\ Elems(jobs'[i]) = Elems(jobs[i]) \cup {STOP} /\ Once(jobs'[i])
  <2>1. jobs[i] \in Seq(1 .. JOBS \cup {STOP}) /\ Once(jobs[i])
    BY <1>1 DEF JobInv, Types, Single
  <2> QED BY <2>1, <1>2, <1>3, AppendElem
<1>5. Sent = JOBS /\ Sent' = JOBS
  BY DEF SendStop, Loop, Sent
<1>6. Types'
  <2>1. jobs' \in [Workers -> Seq(1 .. JOBS \cup {STOP})]
    BY <1>1, <1>2, <1>4 DEF JobInv, Types, SendStop
  <2> QED BY <2>1, <1>1 DEF JobInv, Types, SendStop, Loop
<1>7. Loops'
  BY <1>1, <1>2 DEF JobInv, Loops, SendStop, Loop, Workers
<1>8. Single'
  BY <1>2, <1>4, ZenonT(40) DEF JobInv, Single
<1>9. Own'
  <2>1. \A w \in Workers : Elems(jobs'[w]) \subseteq Elems(jobs[w]) \cup {STOP}
    BY <1>2, <1>4, ZenonT(40)
  <2> QED BY <2>1, <1>2, <1>5 DEF JobInv, Own
<1>10. Apart'
  <2>1. /\ STOP \notin JobsIn(results) \cup JobsIn(printed)
        /\ \A w \in Workers : STOP \notin Held(w)
    BY <1>1, <1>5 DEF JobInv, Own, STOP
  <2>2. \A w \in Workers : Elems(jobs'[w]) \subseteq Elems(jobs[w]) \cup {STOP}
    BY <1>2, <1>4, ZenonT(40)
  <2> QED BY <2>1, <2>2, <1>2, SMTT(30) DEF JobInv, Apart
<1>11. Cover'
  BY <1>2, <1>4, <1>5, WorkerOfJob, ZenonT(40) DEF JobInv, Cover
<1>12. Stops'
  <2>1. \A w \in Workers : (Stopped(w) \/ w = i) => Stopped(w)'
    BY <1>1 DEF Stopped, SendStop, Loop, Workers
  <2> QED BY <2>1, <1>2, <1>3, <1>4 DEF JobInv, Stops
<1> QED BY <1>6, <1>7, <1>8, <1>9, <1>10, <1>11, <1>12 DEF JobInv

\* main() reaps a worker that has ended.
LEMMA ReapStep == ASSUME NEW u \in Workers PROVE JobInv /\ Reap(u) => JobInv'
<1> SUFFICES ASSUME JobInv, Reap(u) PROVE JobInv'
  OBVIOUS
<1>1. /\ jobs' = jobs /\ results' = results /\ printed' = printed /\ ppc' = ppc /\ i' = i
      /\ \A w \in Workers : Held(w)' = Held(w)
      /\ \A w \in Workers : wpc'[w] \in {"zombie", "reaped"} => wpc[w] \in {"zombie", "reaped"}
  BY DEF JobInv, Types, Reap, Held
<1>2. Sent' = Sent
  BY <1>1 DEF Sent
<1>3. Types' /\ Loops'
  BY DEF JobInv, Types, Loops, Reap
<1>4. Single' /\ Own' /\ Apart'
  BY <1>1, <1>2 DEF JobInv, Single, Own, Apart
<1>5. Cover'
  BY <1>1, <1>2, WorkerOfJob DEF JobInv, Cover, Sent, Reap
<1>6. Stops'
  BY <1>1 DEF JobInv, Stops, Stopped
<1> QED BY <1>3, <1>4, <1>5, <1>6 DEF JobInv

\* main() removes the queue, in which no job is left.
LEMMA RemoveStep == JobInv /\ Remove => JobInv'
<1> SUFFICES ASSUME JobInv, Remove PROVE JobInv'
  OBVIOUS
<1>1. /\ JobsIn(printed) = 1 .. JOBS
      /\ \A w \in Workers : Held(w) = {}
  BY AllPrinted DEF Remove
<1>2. /\ \A w \in Workers : jobs'[w] = << >> /\ Elems(jobs'[w]) = {} /\ Once(jobs'[w])
      /\ results' = << >> /\ JobsIn(results') = {} /\ JobOnce(results')
      /\ printed' = printed /\ Sent = JOBS /\ Sent' = JOBS
      /\ \A w \in Workers : Held(w)' = {}
  BY <1>1 DEF Remove, Elems, Once, JobsIn, JobOnce, Sent, Held
<1>3. Types' /\ Loops'
  BY DEF JobInv, Types, Loops, Remove
<1>4. Single' /\ Own' /\ Apart' /\ Cover'
  BY <1>1, <1>2, ZenonT(40) DEF JobInv, Single, Own, Apart, Cover
<1>5. Stops'
  BY <1>2 DEF Stops, Stopped, Remove
<1> QED BY <1>3, <1>4, <1>5 DEF JobInv

\* A worker takes a message of its type; behind a stop message there is none.
LEMMA ReceiveStep == ASSUME NEW u \in Workers PROVE JobInv /\ Receive(u) => JobInv'
<1> DEFINE h == Head(jobs[u])
<1> SUFFICES ASSUME JobInv, Receive(u) PROVE JobInv'
  OBVIOUS
<1>1. /\ wpc[u] = "receive" /\ jobs'[u] = Tail(jobs[u]) /\ job'[u] = h
      /\ wpc'[u] = IF h < 0 THEN "zombie" ELSE "send"
      /\ \A w \in Workers : w # u => jobs'[w] = jobs[w] /\ wpc'[w] = wpc[w] /\ job'[w] = job[w]
      /\ results' = results /\ printed' = printed /\ ppc' = ppc /\ i' = i
  BY DEF JobInv, Types, Receive
<1>2. /\ h \in 1 .. JOBS \cup {STOP} /\ h \in Elems(jobs[u])
      /\ jobs'[u] \in Seq(1 .. JOBS \cup {STOP})
      /\ Elems(jobs'[u]) = Elems(jobs[u]) \ {h} /\ Once(jobs'[u])
  <2>1. jobs[u] \in Seq(1 .. JOBS \cup {STOP}) /\ jobs[u] # << >> /\ Once(jobs[u])
    BY DEF JobInv, Types, Single, Receive
  <2> QED BY <2>1, <1>1, TailElem
<1>3. Types'
  <2>1. jobs' \in [Workers -> Seq(1 .. JOBS \cup {STOP})]
    BY <1>1, <1>2 DEF JobInv, Types, Receive
  <2>2. job' \in [Workers -> 0 .. JOBS \cup {STOP}]
    <3>1. h \in 0 .. JOBS \cup {STOP}
      BY <1>2, QueueAssumption
    <3> QED BY <3>1 DEF JobInv, Types, Receive
  <2>3. wpc' \in [Workers -> {"unborn", "receive", "send", "zombie", "reaped"}]
    BY DEF JobInv, Types, Receive
  <2> QED BY <2>1, <2>2, <2>3, <1>1 DEF JobInv, Types
<1> HIDE DEF h
<1>4. Held(u) = {} /\ Held(u)' = IF h = STOP THEN {} ELSE {h}
  BY <1>1, <1>2 DEF Held, STOP
<1>5. \A w \in Workers : w # u => Held(w)' = Held(w)
  BY <1>1 DEF Held
<1>6. Sent' = Sent /\ Loops'
  BY <1>1 DEF JobInv, Loops, Sent
<1>7. Single'
  BY <1>1, <1>2 DEF JobInv, Single
<1>8. Own'
  <2>1. /\ Elems(jobs'[u]) \cup Held(u)' \subseteq Elems(jobs[u])
        /\ STOP \notin Held(u)'
    BY <1>2, <1>4
  <2>2. \A w \in Workers : /\ Elems(jobs'[w]) \cup Held(w)' \subseteq Elems(jobs[w]) \cup Held(w)
                          /\ STOP \notin Held(w)'
    BY <2>1, <1>1, <1>5 DEF JobInv, Own
  <2> QED BY <2>2, <1>1, <1>6 DEF JobInv, Own
<1>9. Apart'
  BY <1>1, <1>2, <1>4, <1>5 DEF JobInv, Apart
<1>10. Cover'
  <2> SUFFICES ASSUME NEW k \in 1 .. Sent
               PROVE  (k \in Elems(jobs[WorkerOf(k)]) \cup Held(WorkerOf(k))
                               \cup JobsIn(results) \cup JobsIn(printed))'
    BY <1>6 DEF Cover
  <2>1. k # STOP /\ WorkerOf(k) \in Workers
    BY WorkerOfJob, QueueAssumption DEF STOP, Sent, JobInv, Types, Loops
  <2>2. k \in Elems(jobs[WorkerOf(k)]) \cup Held(WorkerOf(k))
               \cup JobsIn(results) \cup JobsIn(printed)
    BY DEF JobInv, Cover
  <2> QED BY <2>1, <2>2, <1>1, <1>2, <1>4, <1>5
<1>11. Stops'
  <2>1. \A w \in Workers : Stopped(w)' = Stopped(w)
    BY <1>1 DEF Stopped
  <2>2. ASSUME h < 0 PROVE Stopped(u) /\ jobs'[u] = << >>
    <3>1. h = STOP
      BY <2>2, <1>2, QueueAssumption
    <3>2. Stopped(u)
      BY <3>1, <1>2 DEF JobInv, Stops
    <3>3. Elems(jobs'[u]) = {}
      BY <3>1, <3>2, <1>2, AllPrinted DEF Stopped
    <3> QED BY <3>2, <3>3, <1>2, NoElems
  <2>3. STOP \in Elems(jobs'[u]) => Stopped(u)
    BY <1>2 DEF JobInv, Stops
  <2> QED BY <2>1, <2>2, <2>3, <1>1, ZenonT(40) DEF JobInv, Stops
<1> QED BY <1>3, <1>6, <1>7, <1>8, <1>9, <1>10, <1>11 DEF JobInv

\* A worker sends the result of the job it holds.
LEMMA SendResultStep == ASSUME NEW u \in Workers PROVE JobInv /\ SendResult(u) => JobInv'
<1> DEFINE k0 == job[u]
           r == [job |-> job[u], worker |-> u]
<1> SUFFICES ASSUME JobInv, SendResult(u) PROVE JobInv'
  OBVIOUS
<1>1. /\ wpc[u] = "send" /\ wpc'[u] = "receive" /\ results' = Append(results, r)
      /\ \A w \in Workers : w # u => wpc'[w] = wpc[w]
      /\ jobs' = jobs /\ job' = job /\ printed' = printed /\ ppc' = ppc /\ i' = i
  BY DEF JobInv, Types, SendResult
<1>2. Held(u) = {k0} /\ Held(u)' = {} /\ \A w \in Workers : w # u => Held(w)' = Held(w)
  BY <1>1 DEF Held
<1>3. Sent' = Sent /\ Sent \in Int /\ Sent <= JOBS /\ JOBS \in Nat
  BY <1>1, QueueAssumption DEF Sent, JobInv, Types, Loops
<1>4. k0 \in 1 .. Sent /\ WorkerOf(k0) = u
  BY <1>2 DEF JobInv, Own
<1>5. r \in Result /\ r.job = k0
  BY <1>3, <1>4 DEF Result
<1> HIDE DEF k0, r
<1>6. k0 \notin JobsIn(results) \cup JobsIn(printed) /\ k0 \notin Elems(jobs[u])
  BY <1>2 DEF JobInv, Apart
<1>7. /\ results' \in Seq(Result) /\ JobsIn(results') = JobsIn(results) \cup {k0}
      /\ JobOnce(results')
  <2>1. results \in Seq(Result) /\ JobOnce(results)
    BY DEF JobInv, Types, Single
  <2> QED BY <2>1, <1>1, <1>5, <1>6, AppendResult
<1>8. Types' /\ Loops'
  <2>1. wpc' \in [Workers -> {"unborn", "receive", "send", "zombie", "reaped"}]
    BY DEF JobInv, Types, SendResult
  <2> QED BY <2>1, <1>1, <1>7 DEF JobInv, Types, Loops
<1>9. Single'
  BY <1>1, <1>7 DEF JobInv, Single
<1>10. Own'
  BY <1>1, <1>2, <1>3, <1>4, <1>7 DEF JobInv, Own
<1>11. Apart'
  <2>1. \A w \in Workers : w # u => k0 \notin Held(w) /\ k0 \notin Elems(jobs[w])
    BY <1>3, <1>4 DEF JobInv, Own, STOP
  <2> QED BY <2>1, <1>1, <1>2, <1>6, <1>7 DEF JobInv, Apart
<1>12. Cover'
  <2>1. \A k \in 1 .. Sent : WorkerOf(k) \in Workers
    BY <1>3, WorkerOfJob
  <2> QED BY <2>1, <1>1, <1>2, <1>3, <1>7 DEF JobInv, Cover
<1>13. Stops'
  BY <1>1 DEF JobInv, Stops, Stopped
<1> QED BY <1>8, <1>9, <1>10, <1>11, <1>12, <1>13 DEF JobInv

-----------------------------------------------------------------------------
(* The theorems.                                                           *)

\* Every step of main() and of the workers keeps the invariant.
LEMMA JobInvStep == JobInv /\ [Next]_vars => JobInv'
<1> SUFFICES ASSUME JobInv, [Next]_vars PROVE JobInv'
  OBVIOUS
<1>1. CASE Main
  BY <1>1, ForkStep, SendJobStep, ReceiveResultStep, SendStopStep, ReapStep, RemoveStep DEF Main
<1>2. CASE \E w \in Workers : Worker(w)
  BY <1>2, ReceiveStep, SendResultStep DEF Worker
<1>3. CASE UNCHANGED vars
  BY <1>3, SMTT(30) DEF vars, JobInv, Types, Loops, Single, Own, Apart, Cover, Stops, Stopped, Held, Sent
<1> QED BY <1>1, <1>2, <1>3 DEF Next

\* The invariant holds throughout every run of the program.
LEMMA JobsTracked == Spec => []JobInv
  BY JobInvInit, JobInvStep, PTL DEF Spec

\* However many jobs there are and whichever forks fail, a job that main() sends
\* is never lost and never done twice.
THEOREM NoJobLost == Spec => []EachJobInOnePlace
<1>1. JobInv => EachJobInOnePlace
  <2> SUFFICES ASSUME JobInv, NEW k \in 1 .. JOBS
               PROVE  Places(k) = IF k <= Sent THEN 1 ELSE 0
    BY DEF EachJobInOnePlace
  <2> DEFINE u == WorkerOf(k)
             A == Elems(jobs[u])
             B == Held(u)
             C == JobsIn(results)
             D == JobsIn(printed)
  <2>1. u \in Workers /\ k # STOP /\ k \in Int /\ k >= 1
    BY WorkerOfJob DEF STOP
  <2>2. Places(k) = (IF k \in A THEN 1 ELSE 0) + (IF k \in B THEN 1 ELSE 0)
                    + (IF k \in C THEN 1 ELSE 0) + (IF k \in D THEN 1 ELSE 0)
    <3>1. Cardinality({x \in DOMAIN jobs[u] : jobs[u][x] = k}) = IF k \in A THEN 1 ELSE 0
      BY <2>1, OneIndex DEF JobInv, Single
    <3>2. Cardinality({w \in Workers : wpc[w] = "send" /\ job[w] = k}) = IF k \in B THEN 1 ELSE 0
      <4>1. {w \in Workers : wpc[w] = "send" /\ job[w] = k} = {w \in Workers : k \in Held(w)}
        BY DEF Held
      <4>2. \A w \in Workers : k \in Held(w) => w = u
        BY <2>1 DEF JobInv, Own
      <4>3. CASE k \in B
        <5>1. {w \in Workers : k \in Held(w)} = {u}
          BY <2>1, <4>2, <4>3
        <5> QED BY <4>1, <4>3, <5>1, FS_Singleton
      <4>4. CASE k \notin B
        <5>1. {w \in Workers : k \in Held(w)} = {}
          BY <4>2, <4>4
        <5> QED BY <4>1, <4>4, <5>1, FS_EmptySet, SMTT(30)
      <4> QED BY <4>3, <4>4
    <3>3. Cardinality({x \in DOMAIN results : results[x].job = k}) = IF k \in C THEN 1 ELSE 0
      BY OneResult DEF JobInv, Single
    <3>4. Cardinality({x \in DOMAIN printed : printed[x].job = k}) = IF k \in D THEN 1 ELSE 0
      BY OneResult DEF JobInv, Single
    <3> QED BY <3>1, <3>2, <3>3, <3>4, SMTT(30) DEF Places
  <2>3. /\ ~(k \in A /\ k \in B) /\ ~(k \in A /\ k \in C) /\ ~(k \in A /\ k \in D)
        /\ ~(k \in B /\ k \in C) /\ ~(k \in B /\ k \in D) /\ ~(k \in C /\ k \in D)
    BY <2>1 DEF JobInv, Apart
  <2>4. Sent \in Int
    BY QueueAssumption DEF Sent, JobInv, Types
  <2>5. k \in A \/ k \in B \/ k \in C \/ k \in D <=> k \in 1 .. Sent
    BY <2>1 DEF JobInv, Own, Cover
  <2> HIDE DEF A, B, C, D
  <2> QED BY <2>1, <2>2, <2>3, <2>4, <2>5
<1> QED BY <1>1, JobsTracked, PTL

\* A worker that has ended leaves no job of its type: main() prints every result
\* before it sends the first stop message.
THEOREM NoWorkLeft == Spec => []StopsWithoutWork
<1>1. JobInv => StopsWithoutWork
  <2> SUFFICES ASSUME JobInv, NEW w \in Workers, wpc[w] \in {"zombie", "reaped"}
               PROVE  /\ jobs[w] = << >>
                      /\ \A k \in 1 .. JOBS : \E x \in DOMAIN printed : printed[x].job = k
    BY DEF StopsWithoutWork
  <2>1. Stopped(w) /\ jobs[w] = << >>
    BY DEF JobInv, Stops
  <2>2. JobsIn(printed) = 1 .. JOBS
    BY <2>1, AllPrinted DEF Stopped
  <2> QED BY <2>1, <2>2 DEF JobsIn
<1> QED BY <1>1, JobsTracked, PTL

-----------------------------------------------------------------------------
(* Counting what is in the queue.                                          *)

\* The workers that hold a job.
Holders == {w \in Workers : wpc[w] = "send"}

\* A sequence of jobs and stop messages without repetition is short enough for
\* Queued to see all of it.
LEMMA ShortQueue ==
  ASSUME NEW s \in Seq(1 .. JOBS \cup {STOP}), Once(s)
  PROVE  Len(s) \in 0 .. JOBS + 1
<1> DEFINE T == 1 .. JOBS \cup {STOP}
<1>1. IsFiniteSet(T) /\ Cardinality(T) = JOBS + 1
  <2>1. IsFiniteSet(1 .. JOBS) /\ Cardinality(1 .. JOBS) = JOBS
    BY FS_Interval, QueueAssumption
  <2>2. STOP \notin 1 .. JOBS
    BY QueueAssumption DEF STOP
  <2> QED BY <2>1, <2>2, FS_AddElement, ZenonT(40)
<1>2. Len(s) \in Nat /\ DOMAIN s = 1 .. Len(s) /\ s \in [1 .. Len(s) -> T]
  OBVIOUS
<1>3. s \in Injection(1 .. Len(s), T)
  BY <1>2 DEF Injection, IsInjective, Once
<1>4. Cardinality(1 .. Len(s)) <= Cardinality(T)
  BY <1>1, <1>3, FS_Injection
<1>5. Cardinality(1 .. Len(s)) = Len(s)
  <2> DEFINE n == Len(s)
  <2>1. n \in Nat
    BY <1>2
  <2> HIDE DEF n
  <2>2. Cardinality(1 .. n) = IF 1 > n THEN 0 ELSE n - 1 + 1
    BY <2>1, FS_Interval
  <2>3. Cardinality(1 .. n) = n
    BY <2>1, <2>2
  <2> QED BY <2>3 DEF n
<1> QED BY <1>1, <1>2, <1>4, <1>5, QueueAssumption

\* What Queued contains, position by position.
LEMMA QueuedIs ==
  ASSUME JobInv
  PROVE  /\ Queued = {p \in Workers \X (1 .. JOBS + 1) : p[2] <= Len(jobs[p[1]])}
         /\ \A w \in Workers : Len(jobs[w]) \in 0 .. JOBS + 1
         /\ IsFiniteSet(Queued) /\ Cardinality(Queued) \in Nat
<1>1. \A w \in Workers : /\ jobs[w] \in Seq(1 .. JOBS \cup {STOP}) /\ Once(jobs[w])
                         /\ DOMAIN jobs[w] = 1 .. Len(jobs[w])
  BY DEF JobInv, Types, Single
<1>2. \A w \in Workers : Len(jobs[w]) \in 0 .. JOBS + 1
  BY <1>1, ShortQueue
<1>3. IsFiniteSet(Workers \X (1 .. JOBS + 1))
  <2>1. IsFiniteSet(Workers) /\ IsFiniteSet(1 .. JOBS + 1)
    BY FS_Interval, QueueAssumption DEF Workers
  <2> QED BY <2>1, FS_Product, ZenonT(40)
<1>4. IsFiniteSet(Queued) /\ Cardinality(Queued) \in Nat
  BY <1>3, FS_Subset, FS_CardinalityType DEF Queued
<1>5. ASSUME NEW p \in Workers \X (1 .. JOBS + 1)
      PROVE  p[2] \in DOMAIN jobs[p[1]] <=> p[2] <= Len(jobs[p[1]])
  BY <1>1, <1>2, p[1] \in Workers, p[2] \in 1 .. JOBS + 1
<1> QED BY <1>2, <1>4, <1>5 DEF Queued

\* A message more or less in the queue of one worker is one more or less in all.
LEMMA QueuedSteps ==
  ASSUME JobInv, JobInv', NEW u \in Workers,
         \A w \in Workers : w # u => jobs'[w] = jobs[w]
  PROVE  /\ Len(jobs'[u]) = Len(jobs[u]) + 1 => Cardinality(Queued') = Cardinality(Queued) + 1
         /\ Len(jobs'[u]) = Len(jobs[u]) - 1 => Cardinality(Queued') = Cardinality(Queued) - 1
<1> DEFINE All == Workers \X (1 .. JOBS + 1)
<1>1. /\ Queued = {p \in All : p[2] <= Len(jobs[p[1]])}
      /\ \A w \in Workers : Len(jobs[w]) \in 0 .. JOBS + 1
      /\ IsFiniteSet(Queued) /\ Cardinality(Queued) \in Nat
  BY QueuedIs
<1>2. /\ Queued' = {p \in All : p[2] <= Len(jobs'[p[1]])}
      /\ \A w \in Workers : Len(jobs'[w]) \in 0 .. JOBS + 1
  <2>1. JobInv' => (/\ Queued = {p \in Workers \X (1 .. JOBS + 1) : p[2] <= Len(jobs[p[1]])}
                    /\ \A w \in Workers : Len(jobs[w]) \in 0 .. JOBS + 1)'
    BY QueuedIs, PTL
  <2> QED BY <2>1 DEF Workers
<1>3. \A p \in All : p = <<p[1], p[2]>> /\ p[1] \in Workers /\ p[2] \in 1 .. JOBS + 1
  OBVIOUS
<1>4. ASSUME Len(jobs'[u]) = Len(jobs[u]) + 1
      PROVE  Cardinality(Queued') = Cardinality(Queued) + 1
  <2> DEFINE x == <<u, Len(jobs[u]) + 1>>
  <2>1. x \in All /\ x \notin Queued
    BY <1>1, <1>2, <1>4
  <2>2. ASSUME NEW p \in All
        PROVE  p[2] <= Len(jobs'[p[1]]) <=> p[2] <= Len(jobs[p[1]]) \/ p = x
    <3>1. CASE p[1] = u
      BY <1>1, <1>3, <1>4, <3>1
    <3>2. CASE p[1] # u
      BY <1>3, <3>2
    <3> QED BY <3>1, <3>2
  <2>3. Queued' = Queued \cup {x}
    BY <1>1, <1>2, <2>1, <2>2
  <2> QED BY <1>1, <2>1, <2>3, FS_AddElement, ZenonT(40)
<1>5. ASSUME Len(jobs'[u]) = Len(jobs[u]) - 1
      PROVE  Cardinality(Queued') = Cardinality(Queued) - 1
  <2> DEFINE x == <<u, Len(jobs[u])>>
  <2>1. x \in Queued
    BY <1>1, <1>2, <1>5
  <2>2. ASSUME NEW p \in All
        PROVE  p[2] <= Len(jobs'[p[1]]) <=> p[2] <= Len(jobs[p[1]]) /\ p # x
    <3>1. CASE p[1] = u
      BY <1>1, <1>3, <1>5, <3>1
    <3>2. CASE p[1] # u
      BY <1>3, <3>2
    <3> QED BY <3>1, <3>2
  <2>3. Queued' = Queued \ {x}
    BY <1>1, <1>2, <2>2
  <2> QED BY <1>1, <2>1, <2>3, FS_RemoveElement, ZenonT(40)
<1> QED BY <1>4, <1>5

\* Holders grows and shrinks by the worker that takes or answers a job.
LEMMA HoldersSteps ==
  /\ IsFiniteSet(Holders) /\ Cardinality(Holders) \in Nat
  /\ \A u \in Workers : (\A w \in Workers : w # u => wpc'[w] = wpc[w]) =>
       /\ wpc[u] # "send" /\ wpc'[u] = "send" => Cardinality(Holders') = Cardinality(Holders) + 1
       /\ wpc[u] = "send" /\ wpc'[u] # "send" => Cardinality(Holders') = Cardinality(Holders) - 1
       /\ wpc[u] # "send" /\ wpc'[u] # "send" => Holders' = Holders
<1>1. IsFiniteSet(Workers)
  BY FS_Interval, QueueAssumption DEF Workers
<1>2. IsFiniteSet(Holders) /\ Cardinality(Holders) \in Nat
  BY <1>1, FS_Subset, FS_CardinalityType DEF Holders
<1>3. Holders' = {w \in Workers : wpc'[w] = "send"}
  BY DEF Holders, Workers
<1>4. ASSUME NEW u \in Workers, \A w \in Workers : w # u => wpc'[w] = wpc[w]
      PROVE  /\ wpc[u] # "send" /\ wpc'[u] = "send" => Cardinality(Holders') = Cardinality(Holders) + 1
             /\ wpc[u] = "send" /\ wpc'[u] # "send" => Cardinality(Holders') = Cardinality(Holders) - 1
             /\ wpc[u] # "send" /\ wpc'[u] # "send" => Holders' = Holders
  <2>1. CASE wpc[u] # "send" /\ wpc'[u] = "send"
    <3>1. Holders' = Holders \cup {u} /\ u \notin Holders
      BY <1>3, <1>4, <2>1 DEF Holders
    <3> QED BY <1>2, <2>1, <3>1, FS_AddElement, ZenonT(40)
  <2>2. CASE wpc[u] = "send" /\ wpc'[u] # "send"
    <3>1. Holders' = Holders \ {u} /\ u \in Holders
      BY <1>3, <1>4, <2>2 DEF Holders
    <3> QED BY <1>2, <2>2, <3>1, FS_RemoveElement, ZenonT(40)
  <2>3. CASE wpc[u] # "send" /\ wpc'[u] # "send"
    BY <1>3, <1>4, <2>3 DEF Holders
  <2> QED BY <2>1, <2>2, <2>3
<1> QED BY <1>2, <1>4, ZenonT(40)

\* The accounts: until the first stop message every job sent is queued, held,
\* answered or printed and these add up; then only stop messages are queued, at
\* most one for every turn of the loop.  The payload never exceeds msg_qbytes.
CountInv == /\ qbytes \in Nat /\ Bytes <= qbytes
            /\ ppc \in {"fork", "send", "receive"}
                 => Cardinality(Queued) + Cardinality(Holders) + Len(results) + Len(printed) = Sent
            /\ ppc = "stop" => Cardinality(Queued) <= i - 1

\* The byte count follows the numbers of messages.
LEMMA BytesMonotone ==
  ASSUME NEW q \in Nat, NEW r \in Nat
  PROVE  /\ JOB_SIZE * q + RESULT_SIZE * r \in Nat
         /\ JOB_SIZE * (q + 1) + RESULT_SIZE * r = JOB_SIZE * q + RESULT_SIZE * r + JOB_SIZE
         /\ JOB_SIZE * q + RESULT_SIZE * (r + 1) = JOB_SIZE * q + RESULT_SIZE * r + RESULT_SIZE
  BY QueueAssumption

\* Every step keeps the accounts.
LEMMA CountInvStep == JobInv /\ JobInv' /\ CountInv /\ [Next]_vars => CountInv'
<1> SUFFICES ASSUME JobInv, JobInv', CountInv, [Next]_vars PROVE CountInv'
  OBVIOUS
<1> DEFINE q == Cardinality(Queued)
           h == Cardinality(Holders)
           r == Len(results)
           s == Len(printed)
<1>1. q \in Nat /\ h \in Nat /\ r \in Nat /\ s \in Nat
  BY QueuedIs, HoldersSteps DEF JobInv, Types
<1>2. q' \in Nat /\ h' \in Nat /\ r' \in Nat /\ s' \in Nat
  <2>1. (q \in Nat)'
    <3>1. JobInv' => (Cardinality(Queued) \in Nat)'
      BY QueuedIs, PTL
    <3> QED BY <3>1
  <2>2. (h \in Nat)'
    <3>1. (Cardinality(Holders) \in Nat)'
      BY HoldersSteps, PTL
    <3> QED BY <3>1
  <2> QED BY <2>1, <2>2 DEF JobInv, Types
<1>3. Bytes = JOB_SIZE * q + RESULT_SIZE * r /\ Bytes' = JOB_SIZE * q' + RESULT_SIZE * r'
  BY DEF Bytes
<1>4. JOBS \in Nat /\ JOB_SIZE \in Nat /\ RESULT_SIZE \in Nat /\ WORKERS \in Nat
  BY QueueAssumption
<1>5. i \in Nat /\ Sent = IF ppc = "fork" THEN 0 ELSE IF ppc = "send" THEN i - 1 ELSE JOBS
  BY DEF JobInv, Types, Sent
<1>6. qbytes \in Nat /\ Bytes <= qbytes
  BY DEF CountInv
<1>7. \A a, b, c \in Nat : a + c <= b => a <= b
  OBVIOUS
<1>8. /\ qbytes \in Nat /\ Bytes <= qbytes
      /\ ppc \in {"fork", "send", "receive"} => q + h + r + s = Sent
      /\ ppc = "stop" => q <= i - 1
  BY DEF CountInv
<1> DEFINE Kept == /\ qbytes' \in Nat /\ Bytes' <= qbytes'
                   /\ ppc' \in {"fork", "send", "receive"} => q' + h' + r' + s' = Sent'
                   /\ ppc' = "stop" => q' <= i' - 1
<1>9. SUFFICES Kept
  BY DEF CountInv
<1> HIDE DEF q, h, r, s
<1>10. CASE Fork
  <2>1. q' = q /\ r' = r /\ s' = s /\ Bytes' = Bytes /\ qbytes' = qbytes
    BY <1>10 DEF Fork, q, r, s, Bytes, Queued, Workers
  <2>2. h = 0 /\ q = 0 /\ r = 0 /\ s = 0
    BY <1>1, <1>5, <1>8, <1>10 DEF Fork
  <2>3. Holders = {}
    BY <2>2, HoldersSteps, FS_EmptySet DEF h
  <2>4. Holders' = {}
    BY <1>10, <2>3 DEF Fork, Holders, Workers, JobInv, Types
  <2>5. h' = 0
    BY <2>4, FS_EmptySet DEF h
  <2> QED BY <1>4, <1>5, <1>8, <1>10, <2>1, <2>2, <2>5 DEF Fork, Loop, Sent
<1>11. CASE SendJob
  <2>1. i \in 1 .. JOBS /\ WorkerOf(i) \in Workers
    BY <1>11, WorkerOfJob DEF JobInv, Loops, SendJob
  <2>2. q' = q + 1
    <3>1. /\ jobs'[WorkerOf(i)] = Append(jobs[WorkerOf(i)], i)
          /\ jobs[WorkerOf(i)] \in Seq(1 .. JOBS \cup {STOP})
          /\ \A w \in Workers : w # WorkerOf(i) => jobs'[w] = jobs[w]
      BY <1>11, <2>1 DEF SendJob, JobInv, Types
    <3>2. Len(jobs'[WorkerOf(i)]) = Len(jobs[WorkerOf(i)]) + 1
      BY <3>1, <2>1
    <3> QED BY <2>1, <3>1, <3>2, QueuedSteps DEF q
  <2>3. h' = h /\ r' = r /\ s' = s /\ qbytes' = qbytes
    BY <1>11 DEF SendJob, h, r, s, Holders, Workers
  <2>4. Bytes' <= qbytes
    BY <1>1, <1>3, <1>11, <2>2, <2>3, BytesMonotone DEF SendJob, Fits
  <2>5. ppc' \in {"send", "receive"} /\ Sent' = i
    BY <1>4, <1>11, <2>1 DEF SendJob, Loop, Sent
  <2> QED BY <1>1, <1>5, <1>8, <1>11, <2>2, <2>3, <2>4, <2>5 DEF SendJob
<1>12. CASE ReceiveResult
  <2>1. q' = q /\ h' = h /\ qbytes' = qbytes
    BY <1>12 DEF ReceiveResult, q, h, Queued, Holders, Workers
  <2>2. r' = r - 1 /\ s' = s + 1
    <3>1. results \in Seq(Result) /\ results # << >> /\ printed \in Seq(Result)
      BY <1>12 DEF ReceiveResult, JobInv, Types
    <3> QED BY <1>12, <3>1 DEF ReceiveResult, r, s
  <2>3. Bytes' <= qbytes
    <3>1. r = r' + 1
      BY <1>1, <2>2
    <3>2. Bytes = Bytes' + RESULT_SIZE /\ Bytes' \in Nat
      BY <1>1, <1>2, <1>3, <2>1, <3>1, BytesMonotone
    <3>3. Bytes' \in Nat /\ Bytes' + RESULT_SIZE <= qbytes
      BY <1>6, <3>2
    <3> QED BY <1>4, <1>6, <1>7, <3>3, ZenonT(40)
  <2>4. i \in 1 .. JOBS /\ s = i - 1
    BY <1>12 DEF ReceiveResult, JobInv, Loops, s
  <2>5. CASE i + 1 <= JOBS
    BY <1>1, <1>5, <1>8, <1>12, <2>1, <2>2, <2>3, <2>5 DEF ReceiveResult, Loop, Sent
  <2>6. CASE ~(i + 1 <= JOBS)
    <3>1. ppc' = "stop" /\ i' = 1
      BY <1>12, <2>6 DEF ReceiveResult, Loop
    <3>2. q + h + r + s = JOBS /\ i = JOBS
      BY <1>4, <1>5, <1>8, <1>12, <2>4, <2>6 DEF ReceiveResult
    <3>3. q = 0
      BY <1>1, <1>2, <1>4, <2>2, <2>4, <3>2
    <3> QED BY <1>8, <2>1, <2>3, <3>1, <3>3
  <2> QED BY <2>5, <2>6
<1>13. CASE SendStop
  <2>1. i \in Workers /\ i \in 1 .. WORKERS
    BY <1>13 DEF SendStop, JobInv, Loops, Workers
  <2>2. q' = q + 1
    <3>1. /\ jobs'[i] = Append(jobs[i], STOP) /\ jobs[i] \in Seq(1 .. JOBS \cup {STOP})
          /\ \A w \in Workers : w # i => jobs'[w] = jobs[w]
      BY <1>13, <2>1 DEF SendStop, JobInv, Types
    <3>2. Len(jobs'[i]) = Len(jobs[i]) + 1
      BY <3>1
    <3> QED BY <2>1, <3>1, <3>2, QueuedSteps DEF q
  <2>3. r' = r /\ qbytes' = qbytes
    BY <1>13 DEF SendStop, r
  <2>4. Bytes' <= qbytes
    BY <1>1, <1>3, <1>13, <2>2, <2>3, BytesMonotone DEF SendStop, Fits
  <2>5. ppc' \in {"stop", "reap"} /\ (ppc' = "stop" => i' = i + 1)
    BY <1>13 DEF SendStop, Loop
  <2> QED BY <1>1, <1>5, <1>8, <1>13, <2>2, <2>3, <2>4, <2>5 DEF SendStop
<1>14. ASSUME NEW w \in Workers, Reap(w) PROVE Kept
  <2>1. q' = q /\ r' = r /\ qbytes' = qbytes /\ ppc' = "reap"
    BY <1>14 DEF Reap, q, r, Queued, Workers
  <2> QED BY <1>3, <1>8, <2>1
<1>15. CASE Remove
  <2>1. Queued' = {} /\ r' = 0 /\ ppc' = "removed" /\ qbytes' = qbytes
    BY <1>15 DEF Remove, Queued, Workers, r
  <2>2. q' = 0
    BY <2>1, FS_EmptySet DEF q
  <2> QED BY <1>3, <1>4, <1>8, <2>1, <2>2
<1>16. ASSUME NEW u \in Workers, Receive(u) PROVE Kept
  <2>1. /\ \A w \in Workers : w # u => jobs'[w] = jobs[w] /\ wpc'[w] = wpc[w]
        /\ jobs[u] \in Seq(1 .. JOBS \cup {STOP}) /\ jobs[u] # << >> /\ jobs'[u] = Tail(jobs[u])
        /\ wpc[u] = "receive" /\ wpc'[u] = IF Head(jobs[u]) < 0 THEN "zombie" ELSE "send"
        /\ r' = r /\ s' = s /\ ppc' = ppc /\ i' = i /\ qbytes' = qbytes
    BY <1>16 DEF Receive, JobInv, Types, r, s
  <2>2. q' = q - 1
    <3>1. Len(jobs'[u]) = Len(jobs[u]) - 1
      BY <2>1
    <3> QED BY <2>1, <3>1, QueuedSteps, ZenonT(40) DEF q
  <2>3. Bytes' <= qbytes'
    <3>1. q = q' + 1
      BY <1>1, <2>2
    <3>2. Bytes = Bytes' + JOB_SIZE /\ Bytes' \in Nat
      BY <1>1, <1>2, <1>3, <2>1, <3>1, BytesMonotone, ZenonT(40)
    <3>3. Bytes' \in Nat /\ Bytes' + JOB_SIZE <= qbytes
      BY <1>6, <3>2
    <3> QED BY <1>4, <1>6, <1>7, <2>1, <3>3, ZenonT(40)
  <2>4. ASSUME ppc \in {"fork", "send", "receive"} PROVE h' = h + 1
    <3>1. STOP \notin Elems(jobs[u])
      BY <2>4 DEF JobInv, Stops, Stopped
    <3>2. Head(jobs[u]) \in Elems(jobs[u]) /\ Head(jobs[u]) \in 1 .. JOBS \cup {STOP}
      BY <2>1, TailElem DEF JobInv, Single
    <3>3. wpc'[u] = "send"
      BY <2>1, <3>1, <3>2, <1>4
    <3> QED BY <2>1, <3>3, HoldersSteps, ZenonT(40) DEF h
  <2>5. Sent' = Sent
    BY <2>1 DEF Sent
  <2>6. ppc \in {"fork", "send", "receive"} => q' + h' + r' + s' = Sent'
    BY <1>1, <1>8, <2>1, <2>2, <2>4, <2>5
  <2>7. ppc = "stop" => q' <= i' - 1
    BY <1>1, <1>5, <1>8, <2>1, <2>2, SMTT(30)
  <2> QED BY <1>6, <2>1, <2>3, <2>6, <2>7
<1>17. ASSUME NEW u \in Workers, SendResult(u) PROVE Kept
  <2>1. /\ \A w \in Workers : w # u => wpc'[w] = wpc[w]
        /\ wpc[u] = "send" /\ wpc'[u] = "receive"
        /\ q' = q /\ s' = s /\ ppc' = ppc /\ i' = i /\ qbytes' = qbytes
    BY <1>17 DEF SendResult, JobInv, Types, q, s, Queued, Workers
  <2>2. h' = h - 1
    BY <2>1, HoldersSteps, ZenonT(40) DEF h
  <2>3. r' = r + 1
    BY <1>17 DEF SendResult, JobInv, Types, r
  <2>4. Bytes' <= qbytes'
    BY <1>1, <1>3, <1>17, <2>1, <2>3, BytesMonotone DEF SendResult, Fits
  <2>5. Sent' = Sent
    BY <2>1 DEF Sent
  <2>6. ppc \in {"fork", "send", "receive"} => q' + h' + r' + s' = Sent'
    BY <1>1, <1>8, <2>1, <2>2, <2>3, <2>5
  <2>7. ppc = "stop" => q' <= i' - 1
    BY <1>8, <2>1
  <2> QED BY <1>6, <2>1, <2>4, <2>6, <2>7
<1>18. CASE UNCHANGED vars
  <2>1. /\ q' = q /\ h' = h /\ r' = r /\ s' = s
        /\ qbytes' = qbytes /\ ppc' = ppc /\ i' = i /\ Sent' = Sent
    BY <1>18 DEF vars, q, h, r, s, Queued, Holders, Workers, Sent
  <2> QED BY <1>3, <1>8, <2>1
<1> QED BY <1>10, <1>11, <1>12, <1>13, <1>14, <1>15, <1>16, <1>17, <1>18 DEF Next, Main, Worker

\* Initially the queue is empty and nobody holds a job.
LEMMA CountInvInit == Init => CountInv
<1> SUFFICES ASSUME Init PROVE CountInv
  OBVIOUS
<1>1. Queued = {} /\ Holders = {} /\ Len(results) = 0 /\ Len(printed) = 0
  BY DEF Init, Queued, Holders, Workers
<1>2. Cardinality(Queued) = 0 /\ Cardinality(Holders) = 0
  BY <1>1, FS_EmptySet
<1>3. qbytes \in Nat /\ Bytes = 0
  BY <1>1, <1>2, QueueAssumption DEF Init, Bytes
<1> QED BY <1>1, <1>2, <1>3 DEF Init, CountInv, Sent

\* The accounts are kept in every reachable state.
THEOREM QueueAccounted == Spec => [](JobInv /\ CountInv)
<1>1. JobInv /\ CountInv /\ [Next]_vars => (JobInv /\ CountInv)'
  BY JobInvStep, CountInvStep
<1>2. Init => JobInv /\ CountInv
  BY JobInvInit, CountInvInit
<1> QED BY <1>1, <1>2, PTL DEF Spec

\* For any number of workers and jobs the variables have their types, and the
\* payload in the queue stays within msg_qbytes.
THEOREM QueueTypes == Spec => []TypeOK
<1>1. JobInv /\ CountInv => TypeOK
  BY DEF JobInv, Types, CountInv, TypeOK
<1> QED BY <1>1, QueueAccounted, PTL

\* q jobs and r results, together at most m messages, take no more than m results
\* do; and q jobs no more than m jobs.
LEMMA BytesBound ==
  ASSUME NEW q \in Nat, NEW r \in Nat, NEW m \in Nat, q + r <= m
  PROVE  /\ JOB_SIZE * q + RESULT_SIZE * r <= m * RESULT_SIZE
         /\ JOB_SIZE * q <= m * JOB_SIZE
<1> DEFINE a == JOB_SIZE
           b == RESULT_SIZE
<1>1. a \in Nat /\ b \in Nat /\ a <= b
  BY QueueAssumption
<1> HIDE DEF a, b
<1>2. PICK d \in Nat : m = q + r + d
  <2>1. m - (q + r) \in Nat /\ m = q + r + (m - (q + r))
    OBVIOUS
  <2> QED BY <2>1
<1>3. PICK e \in Nat : b = a + e
  <2>1. b - a \in Nat /\ b = a + (b - a)
    BY <1>1
  <2> QED BY <2>1
<1>4. m * b = (q + r + d) * b /\ m * a = (q + r + d) * a
  BY <1>2
<1>5. (q + r + d) * b = q * b + r * b + d * b /\ (q + r + d) * a = q * a + r * a + d * a
  BY <1>1
<1>6. q * b = q * a + q * e
  BY <1>1, <1>3
<1>7. /\ q * a \in Nat /\ q * e \in Nat /\ r * b \in Nat /\ d * b \in Nat
      /\ r * a \in Nat /\ d * a \in Nat
  BY <1>1
<1>8. a * q = q * a /\ b * r = r * b
  BY <1>1
<1>9. a * q + b * r <= m * b /\ a * q <= m * a
  BY <1>4, <1>5, <1>6, <1>7, <1>8
<1> QED BY <1>9 DEF a, b

\* With room for the results of all jobs and for all stop messages no msgsnd of
\* main() or of a worker ever blocks, for any number of workers and jobs: what is
\* queued, held or printed adds up to the jobs sent.
THEOREM RoomySendNeverBlocks == Spec => []SendNeverBlocks
<1>1. ASSUME JobInv, CountInv, qbytes >= Room PROVE SendNeverBlocks
  <2> DEFINE q == Cardinality(Queued)
             h == Cardinality(Holders)
             r == Len(results)
             s == Len(printed)
  <2>1. q \in Nat /\ h \in Nat /\ r \in Nat /\ s \in Nat
    BY <1>1, QueuedIs, HoldersSteps DEF JobInv, Types
  <2>2. Bytes = JOB_SIZE * q + RESULT_SIZE * r
    BY DEF Bytes
  <2>3. JOBS \in Nat /\ JOB_SIZE \in Nat /\ RESULT_SIZE \in Nat /\ WORKERS \in Nat
    BY QueueAssumption
  <2>4. /\ ppc \in {"fork", "send", "receive"} => q + h + r + s = Sent
        /\ ppc = "stop" => q <= i - 1
    BY <1>1 DEF CountInv
  <2>5. /\ qbytes \in Nat /\ JOBS * RESULT_SIZE \in Nat /\ WORKERS * JOB_SIZE \in Nat
        /\ JOBS * RESULT_SIZE <= qbytes /\ WORKERS * JOB_SIZE <= qbytes
    <3>1. qbytes \in Nat /\ JOBS * RESULT_SIZE \in Nat /\ WORKERS * JOB_SIZE \in Nat
      BY <1>1, <2>3 DEF CountInv
    <3>2. qbytes >= IF JOBS * RESULT_SIZE > WORKERS * JOB_SIZE
                      THEN JOBS * RESULT_SIZE ELSE WORKERS * JOB_SIZE
      BY <1>1 DEF Room
    <3> HIDE DEF q, h, r, s
    <3> QED BY <3>1, <3>2
  <2>6. ppc \in {"stop", "reap", "removed"}
          => results = << >> /\ \A w \in Workers : wpc[w] # "send"
    <3> SUFFICES ASSUME ppc \in {"stop", "reap", "removed"}
                 PROVE  results = << >> /\ \A w \in Workers : wpc[w] # "send"
      OBVIOUS
    <3>1. JobsIn(results) = {} /\ \A w \in Workers : Held(w) = {}
      BY <1>1, AllPrinted
    <3>2. results = << >>
      <4>1. results \in Seq(Result)
        BY <1>1 DEF JobInv, Types
      <4>2. results # << >> => 1 \in DOMAIN results
        BY <4>1
      <4> QED BY <3>1, <4>1, <4>2, ZenonT(40) DEF JobsIn
    <3> QED BY <3>1, <3>2 DEF Held
  <2>7. ppc = "send" => i \in 1 .. JOBS /\ Sent = i - 1
    BY <1>1 DEF JobInv, Loops, Sent
  <2>8. ppc = "stop" => i \in 1 .. WORKERS
    BY <1>1 DEF JobInv, Loops, Workers
  <2>9. ASSUME NEW w \in Workers, wpc[w] = "send" PROVE h >= 1
    <3>1. w \in Holders
      BY <2>9 DEF Holders
    <3>2. h # 0
      BY <3>1, HoldersSteps, FS_EmptySet
    <3> QED BY <2>1, <3>2
  <2>10. ppc \in {"fork", "send", "receive"} => Sent <= JOBS /\ Sent \in Int
    BY <1>1, <2>3, <2>7 DEF Sent
  <2> HIDE DEF q, h, r, s
  <2>11. ppc = "send" => Fits(JOB_SIZE)
    <3> SUFFICES ASSUME ppc = "send" PROVE Fits(JOB_SIZE)
      OBVIOUS
    <3>1. (q + 1) + r <= JOBS /\ q + 1 \in Nat
      BY <2>1, <2>3, <2>4, <2>7
    <3>2. JOB_SIZE * (q + 1) + RESULT_SIZE * r <= JOBS * RESULT_SIZE
      BY <2>1, <2>3, <3>1, BytesBound, ZenonT(40)
    <3>3. JOB_SIZE * (q + 1) + RESULT_SIZE * r = Bytes + JOB_SIZE /\ Bytes \in Nat
      BY <2>1, <2>2, BytesMonotone
    <3> QED BY <2>3, <2>5, <3>2, <3>3 DEF Fits
  <2>12. ppc = "stop" => Fits(JOB_SIZE)
    <3> SUFFICES ASSUME ppc = "stop" PROVE Fits(JOB_SIZE)
      OBVIOUS
    <3>1. r = 0
      BY <2>6 DEF r
    <3>2. (q + 1) + 0 <= WORKERS /\ q + 1 \in Nat
      BY <2>1, <2>3, <2>4, <2>8
    <3>3. JOB_SIZE * (q + 1) <= WORKERS * JOB_SIZE
      BY <2>3, <3>2, BytesBound
    <3>4. JOB_SIZE * (q + 1) + RESULT_SIZE * r = Bytes + JOB_SIZE /\ Bytes \in Nat
      BY <2>1, <2>2, BytesMonotone
    <3>5. JOB_SIZE * (q + 1) + RESULT_SIZE * r = JOB_SIZE * (q + 1)
      BY <2>1, <2>3, <3>1
    <3> QED BY <2>3, <2>5, <3>3, <3>4, <3>5 DEF Fits
  <2>13. ASSUME NEW w \in Workers, wpc[w] = "send" PROVE Fits(RESULT_SIZE)
    <3>1. ppc \in {"fork", "send", "receive"}
      BY <1>1, <2>6, <2>13 DEF JobInv, Types
    <3>2. q + (r + 1) <= JOBS /\ r + 1 \in Nat
      BY <2>1, <2>3, <2>4, <2>9, <2>10, <2>13, <3>1
    <3>3. JOB_SIZE * q + RESULT_SIZE * (r + 1) <= JOBS * RESULT_SIZE
      BY <2>1, <2>3, <3>2, BytesBound, ZenonT(40)
    <3>4. JOB_SIZE * q + RESULT_SIZE * (r + 1) = Bytes + RESULT_SIZE /\ Bytes \in Nat
      BY <2>1, <2>2, BytesMonotone
    <3> QED BY <2>3, <2>5, <3>3, <3>4 DEF Fits
  <2> QED BY <2>11, <2>12, <2>13 DEF SendNeverBlocks
<1>2. JobInv /\ CountInv => SendNeverBlocks
  BY <1>1 DEF SendNeverBlocks
<1> QED BY <1>2, QueueAccounted, PTL

-----------------------------------------------------------------------------
(* Termination: every step uses up part of a supply fixed at the start, and *)
(* a state without a next step is the end, a queue that is full, or main() *)
(* waiting for the result of a worker that was never forked.               *)

\* The workers that have a result to send or are to be reaped.
Busy == {w \in Workers : wpc[w] \in {"send", "zombie"}}

\* What is left of main(), where sending a message counts for its receipt too
\* and for what its receiver does with it.
MainLeft == CASE ppc = "fork"    -> (WORKERS + 1 - i) + 4 * JOBS + 3 * WORKERS + 1
              [] ppc = "send"    -> 3 * (JOBS + 1 - i) + JOBS + 3 * WORKERS + 1
              [] ppc = "receive" -> (JOBS + 1 - i) + 3 * WORKERS + 1
              [] ppc = "stop"    -> 3 * (WORKERS + 1 - i) + 1
              [] ppc = "reap"    -> 1
              [] ppc = "removed" -> 0

StepsLeft == MainLeft + 2 * Cardinality(Queued) + Cardinality(Busy)

\* Busy grows and shrinks by the worker that takes or answers a message, or is reaped.
LEMMA BusySteps ==
  /\ IsFiniteSet(Busy) /\ Cardinality(Busy) \in Nat
  /\ \A u \in Workers : (\A w \in Workers : w # u => wpc'[w] = wpc[w]) =>
       /\ u \notin Busy /\ wpc'[u] \in {"send", "zombie"} => Cardinality(Busy') = Cardinality(Busy) + 1
       /\ u \in Busy /\ wpc'[u] \notin {"send", "zombie"} => Cardinality(Busy') = Cardinality(Busy) - 1
<1>1. IsFiniteSet(Workers)
  BY FS_Interval, QueueAssumption DEF Workers
<1>2. IsFiniteSet(Busy) /\ Cardinality(Busy) \in Nat
  BY <1>1, FS_Subset, FS_CardinalityType DEF Busy
<1>3. Busy' = {w \in Workers : wpc'[w] \in {"send", "zombie"}}
  BY DEF Busy, Workers
<1>4. ASSUME NEW u \in Workers, \A w \in Workers : w # u => wpc'[w] = wpc[w]
      PROVE  /\ u \notin Busy /\ wpc'[u] \in {"send", "zombie"}
                  => Cardinality(Busy') = Cardinality(Busy) + 1
             /\ u \in Busy /\ wpc'[u] \notin {"send", "zombie"}
                  => Cardinality(Busy') = Cardinality(Busy) - 1
  <2>1. ASSUME u \notin Busy, wpc'[u] \in {"send", "zombie"}
        PROVE  Cardinality(Busy') = Cardinality(Busy) + 1
    <3>1. Busy' = Busy \cup {u}
      BY <1>3, <1>4, <2>1 DEF Busy
    <3> QED BY <1>2, <2>1, <3>1, FS_AddElement, ZenonT(40)
  <2>2. ASSUME u \in Busy, wpc'[u] \notin {"send", "zombie"}
        PROVE  Cardinality(Busy') = Cardinality(Busy) - 1
    <3>1. Busy' = Busy \ {u}
      BY <1>3, <1>4, <2>2 DEF Busy
    <3> QED BY <1>2, <2>2, <3>1, FS_RemoveElement, ZenonT(40)
  <2> QED BY <2>1, <2>2
<1> QED BY <1>2, <1>4, ZenonT(40)

\* The supply is a natural number.
LEMMA StepsLeftNat == JobInv => MainLeft \in Nat /\ Cardinality(Queued) \in Nat
                                /\ Cardinality(Busy) \in Nat /\ StepsLeft \in Nat
<1> SUFFICES ASSUME JobInv
             PROVE  /\ MainLeft \in Nat /\ Cardinality(Queued) \in Nat
                    /\ Cardinality(Busy) \in Nat /\ StepsLeft \in Nat
  OBVIOUS
<1>1. WORKERS \in Nat /\ JOBS \in Nat
  BY QueueAssumption
<1>2. /\ ppc \in {"fork", "send", "receive", "stop", "reap", "removed"}
      /\ ppc \in {"fork", "stop"} => i \in 1 .. WORKERS
      /\ ppc \in {"send", "receive"} => i \in 1 .. JOBS
  BY DEF JobInv, Types, Loops, Workers
<1>3. MainLeft \in Nat
  BY <1>1, <1>2 DEF MainLeft
<1>4. Cardinality(Queued) \in Nat /\ Cardinality(Busy) \in Nat
  BY QueuedIs, BusySteps
<1>5. \A a, b, c \in Nat : a + 2 * b + c \in Nat
  OBVIOUS
<1>6. StepsLeft \in Nat
  BY <1>3, <1>4, <1>5, ZenonT(40) DEF StepsLeft
<1> QED BY <1>3, <1>4, <1>6

\* Four steps for each worker (forked, told to stop, stopping, reaped), four for
\* each job (sent, taken, answered, printed), and the removal of the queue.
LEMMA StepsAtStart == Init => StepsLeft = 4 * (WORKERS + JOBS) + 1
<1> SUFFICES ASSUME Init PROVE StepsLeft = 4 * (WORKERS + JOBS) + 1
  OBVIOUS
<1>1. Queued = {} /\ Busy = {}
  BY DEF Init, Queued, Busy, Workers
<1>2. Cardinality(Queued) = 0 /\ Cardinality(Busy) = 0
  BY <1>1, FS_EmptySet
<1>3. WORKERS \in Nat /\ JOBS \in Nat
  BY QueueAssumption
<1>4. MainLeft = 4 * (WORKERS + JOBS) + 1
  BY <1>3 DEF Init, MainLeft
<1> QED BY <1>2, <1>3, <1>4 DEF StepsLeft

\* Every step uses up some of the supply.
LEMMA EveryStepShrinks == JobInv /\ JobInv' /\ Next => StepsLeft' < StepsLeft
<1> SUFFICES ASSUME JobInv, JobInv', Next PROVE StepsLeft' < StepsLeft
  OBVIOUS
<1> DEFINE m == MainLeft
           q == Cardinality(Queued)
           b == Cardinality(Busy)
<1>1. m \in Nat /\ q \in Nat /\ b \in Nat
  BY StepsLeftNat
<1>2. m' \in Nat /\ q' \in Nat /\ b' \in Nat
  <2>1. (JobInv => MainLeft \in Nat /\ Cardinality(Queued) \in Nat /\ Cardinality(Busy) \in Nat)'
    BY StepsLeftNat, PTL
  <2> QED BY <2>1
<1>3. m' + 2 * q' + b' < m + 2 * q + b => StepsLeft' < StepsLeft
  BY DEF StepsLeft
<1>4. WORKERS \in Nat /\ JOBS \in Nat /\ STOP < 0
  BY QueueAssumption DEF STOP
<1>5. /\ ppc \in {"fork", "stop"} => i \in 1 .. WORKERS
      /\ ppc \in {"send", "receive"} => i \in 1 .. JOBS
  BY DEF JobInv, Loops, Workers
<1> HIDE DEF m, q, b
<1>6. \A x, y, z, x1, y1, z1 \in Nat :
         \/ x1 + 1 <= x /\ y1 = y /\ z1 = z
         \/ x1 + 3 <= x /\ y1 = y + 1 /\ z1 = z
         => x1 + 2 * y1 + z1 < x + 2 * y + z
  OBVIOUS
<1>7. CASE Fork
  <2>1. m' + 1 <= m
    <3>1. ppc = "fork" /\ i \in 1 .. WORKERS
      BY <1>5, <1>7 DEF Fork
    <3>2. m = (WORKERS + 1 - i) + 4 * JOBS + 3 * WORKERS + 1
      BY <3>1 DEF m, MainLeft
    <3>3. CASE i + 1 <= WORKERS
      <4>1. ppc' = "fork" /\ i' = i + 1
        BY <1>7, <3>3 DEF Fork, Loop
      <4>2. m' = (WORKERS + 1 - (i + 1)) + 4 * JOBS + 3 * WORKERS + 1
        BY <4>1 DEF m, MainLeft
      <4> QED BY <1>4, <3>1, <3>2, <3>3, <4>2
    <3>4. CASE ~(i + 1 <= WORKERS) /\ JOBS = 0
      <4>1. ppc' = "stop" /\ i' = 1 /\ i = WORKERS
        BY <1>4, <1>7, <3>1, <3>4 DEF Fork, Loop
      <4>2. m' = 3 * (WORKERS + 1 - 1) + 1
        BY <4>1 DEF m, MainLeft
      <4> QED BY <1>4, <3>1, <3>2, <3>4, <4>1, <4>2
    <3>5. CASE ~(i + 1 <= WORKERS) /\ JOBS # 0
      <4>1. ppc' = "send" /\ i' = 1 /\ i = WORKERS
        BY <1>4, <1>7, <3>1, <3>5 DEF Fork, Loop
      <4>2. m' = 3 * (JOBS + 1 - 1) + JOBS + 3 * WORKERS + 1
        BY <4>1 DEF m, MainLeft
      <4> QED BY <1>4, <3>1, <3>2, <3>5, <4>1, <4>2
    <3> QED BY <3>3, <3>4, <3>5
  <2>2. q' = q
    BY <1>7 DEF Fork, q, Queued, Workers
  <2>3. i \in Workers /\ wpc[i] \notin {"send", "zombie"}
    <3>1. i \in Workers /\ ppc = "fork" /\ Sent = 0
      BY <1>7 DEF Fork, JobInv, Loops, Sent
    <3>2. wpc[i] # "zombie"
      BY <3>1 DEF JobInv, Stops, Stopped
    <3>3. wpc[i] # "send"
      BY <3>1, SMTT(30) DEF JobInv, Own, Held
    <3> QED BY <3>1, <3>2, <3>3
  <2>4. Busy' = Busy
    BY <1>7, <2>3 DEF Fork, Busy, Workers, JobInv, Types
  <2>5. b' = b
    BY <2>4 DEF b
  <2> QED BY <1>1, <1>2, <1>3, <1>6, <2>1, <2>2, <2>5, ZenonT(40)
<1>8. CASE SendJob
  <2>1. i \in 1 .. JOBS /\ WorkerOf(i) \in Workers
    BY <1>8, WorkerOfJob DEF JobInv, Loops, SendJob
  <2>2. q' = q + 1
    <3>1. /\ jobs'[WorkerOf(i)] = Append(jobs[WorkerOf(i)], i)
          /\ jobs[WorkerOf(i)] \in Seq(1 .. JOBS \cup {STOP})
          /\ \A w \in Workers : w # WorkerOf(i) => jobs'[w] = jobs[w]
      BY <1>8, <2>1 DEF SendJob, JobInv, Types
    <3>2. Len(jobs'[WorkerOf(i)]) = Len(jobs[WorkerOf(i)]) + 1
      BY <3>1, <2>1
    <3> QED BY <2>1, <3>1, <3>2, QueuedSteps DEF q
  <2>3. b' = b
    BY <1>8 DEF SendJob, b, Busy, Workers
  <2>4. m' + 3 <= m
    <3>1. ppc = "send" /\ i \in 1 .. JOBS
      BY <1>5, <1>8 DEF SendJob
    <3>2. m = 3 * (JOBS + 1 - i) + JOBS + 3 * WORKERS + 1
      BY <3>1 DEF m, MainLeft
    <3>3. CASE i + 1 <= JOBS
      <4>1. ppc' = "send" /\ i' = i + 1
        BY <1>8, <3>3 DEF SendJob, Loop
      <4>2. m' = 3 * (JOBS + 1 - (i + 1)) + JOBS + 3 * WORKERS + 1
        BY <4>1 DEF m, MainLeft
      <4> QED BY <1>4, <3>1, <3>2, <3>3, <4>2
    <3>4. CASE ~(i + 1 <= JOBS)
      <4>1. ppc' = "receive" /\ i' = 1 /\ i = JOBS
        BY <1>4, <1>8, <3>1, <3>4 DEF SendJob, Loop
      <4>2. m' = (JOBS + 1 - 1) + 3 * WORKERS + 1
        BY <4>1 DEF m, MainLeft
      <4> QED BY <1>4, <3>1, <3>2, <4>1, <4>2
    <3> QED BY <3>3, <3>4
  <2> QED BY <1>1, <1>2, <1>3, <1>6, <2>2, <2>3, <2>4, ZenonT(40)
<1>9. CASE ReceiveResult
  <2>1. q' = q /\ b' = b
    BY <1>9 DEF ReceiveResult, q, b, Queued, Busy, Workers
  <2>2. m' + 1 <= m
    <3>1. ppc = "receive" /\ i \in 1 .. JOBS
      BY <1>5, <1>9 DEF ReceiveResult
    <3>2. m = (JOBS + 1 - i) + 3 * WORKERS + 1
      BY <3>1 DEF m, MainLeft
    <3>3. CASE i + 1 <= JOBS
      <4>1. ppc' = "receive" /\ i' = i + 1
        BY <1>9, <3>3 DEF ReceiveResult, Loop
      <4>2. m' = (JOBS + 1 - (i + 1)) + 3 * WORKERS + 1
        BY <4>1 DEF m, MainLeft
      <4> QED BY <1>4, <3>1, <3>2, <3>3, <4>2
    <3>4. CASE ~(i + 1 <= JOBS)
      <4>1. ppc' = "stop" /\ i' = 1 /\ i = JOBS
        BY <1>4, <1>9, <3>1, <3>4 DEF ReceiveResult, Loop
      <4>2. m' = 3 * (WORKERS + 1 - 1) + 1
        BY <4>1 DEF m, MainLeft
      <4> QED BY <1>4, <3>1, <3>2, <4>1, <4>2
    <3> QED BY <3>3, <3>4
  <2> QED BY <1>1, <1>2, <1>3, <1>6, <2>1, <2>2, ZenonT(40)
<1>10. CASE SendStop
  <2>1. i \in Workers
    BY <1>10 DEF SendStop, JobInv, Loops
  <2>2. q' = q + 1
    <3>1. /\ jobs'[i] = Append(jobs[i], STOP) /\ jobs[i] \in Seq(1 .. JOBS \cup {STOP})
          /\ \A w \in Workers : w # i => jobs'[w] = jobs[w]
      BY <1>10, <2>1 DEF SendStop, JobInv, Types
    <3>2. Len(jobs'[i]) = Len(jobs[i]) + 1
      BY <3>1
    <3> QED BY <2>1, <3>1, <3>2, QueuedSteps DEF q
  <2>3. b' = b
    BY <1>10 DEF SendStop, b, Busy, Workers
  <2>4. m' + 3 <= m
    <3>1. ppc = "stop" /\ i \in 1 .. WORKERS
      BY <1>5, <1>10 DEF SendStop
    <3>2. m = 3 * (WORKERS + 1 - i) + 1
      BY <3>1 DEF m, MainLeft
    <3>3. CASE i + 1 <= WORKERS
      <4>1. ppc' = "stop" /\ i' = i + 1
        BY <1>10, <3>3 DEF SendStop, Loop
      <4>2. m' = 3 * (WORKERS + 1 - (i + 1)) + 1
        BY <4>1 DEF m, MainLeft
      <4> QED BY <1>4, <3>1, <3>2, <3>3, <4>2
    <3>4. CASE ~(i + 1 <= WORKERS)
      <4>1. ppc' = "reap" /\ i' = 1 /\ i = WORKERS
        BY <1>4, <1>10, <3>1, <3>4 DEF SendStop, Loop
      <4>2. m' = 1
        BY <4>1 DEF m, MainLeft
      <4> QED BY <1>4, <3>1, <3>2, <4>1, <4>2
    <3> QED BY <3>3, <3>4
  <2> QED BY <1>1, <1>2, <1>3, <1>6, <2>2, <2>3, <2>4, ZenonT(40)
<1>11. ASSUME NEW u \in Workers, Reap(u) PROVE StepsLeft' < StepsLeft
  <2>1. m' = m /\ q' = q
    BY <1>11 DEF Reap, m, q, MainLeft, Queued, Workers
  <2>2. /\ \A w \in Workers : w # u => wpc'[w] = wpc[w]
        /\ u \in Busy /\ wpc'[u] \notin {"send", "zombie"}
    BY <1>11 DEF Reap, Busy, JobInv, Types
  <2>3. b' = b - 1
    BY <2>2, BusySteps, ZenonT(40) DEF b
  <2> QED BY <1>1, <1>2, <1>3, <2>1, <2>3
<1>12. CASE Remove
  <2>1. m = 1 /\ m' = 0
    BY <1>12 DEF Remove, m, MainLeft
  <2>2. Queued' = {} /\ Busy' = Busy
    BY <1>12 DEF Remove, Queued, Busy, Workers
  <2>3. q' = 0 /\ b' = b
    BY <2>2, FS_EmptySet DEF q, b
  <2> QED BY <1>1, <1>2, <1>3, <2>1, <2>3
<1>13. ASSUME NEW u \in Workers, Receive(u) PROVE StepsLeft' < StepsLeft
  <2>1. /\ \A w \in Workers : w # u => jobs'[w] = jobs[w] /\ wpc'[w] = wpc[w]
        /\ jobs[u] \in Seq(1 .. JOBS \cup {STOP}) /\ jobs[u] # << >> /\ jobs'[u] = Tail(jobs[u])
        /\ u \notin Busy /\ wpc'[u] \in {"send", "zombie"}
    BY <1>13 DEF Receive, JobInv, Types, Busy
  <2>2. q' = q - 1
    <3>1. Len(jobs'[u]) = Len(jobs[u]) - 1
      BY <2>1
    <3> QED BY <2>1, <3>1, QueuedSteps, ZenonT(40) DEF q
  <2>3. b' = b + 1
    BY <2>1, BusySteps, ZenonT(40) DEF b
  <2>4. m' = m
    BY <1>13 DEF Receive, m, MainLeft
  <2> QED BY <1>1, <1>2, <1>3, <2>2, <2>3, <2>4
<1>14. ASSUME NEW u \in Workers, SendResult(u) PROVE StepsLeft' < StepsLeft
  <2>1. m' = m /\ q' = q
    BY <1>14 DEF SendResult, m, q, MainLeft, Queued, Workers
  <2>2. /\ \A w \in Workers : w # u => wpc'[w] = wpc[w]
        /\ u \in Busy /\ wpc'[u] \notin {"send", "zombie"}
    BY <1>14 DEF SendResult, Busy, JobInv, Types
  <2>3. b' = b - 1
    BY <2>2, BusySteps, ZenonT(40) DEF b
  <2> QED BY <1>1, <1>2, <1>3, <2>1, <2>3
<1> QED BY <1>7, <1>8, <1>9, <1>10, <1>11, <1>12, <1>13, <1>14 DEF Next, Main, Worker

\* The program makes at most 4 * (WORKERS + JOBS) + 1 steps, whatever the size of
\* the queue, whichever forks fail and however the processes are scheduled: no
\* message goes round in circles and nobody polls.
THEOREM QueueStepsRunOut == Spec => [](StepsLeft \in Nat) /\ [][StepsLeft' < StepsLeft]_vars
<1>1. JobInv => StepsLeft \in Nat
  BY StepsLeftNat
<1>2. JobInv /\ JobInv' /\ [Next]_vars => [StepsLeft' < StepsLeft]_vars
  BY EveryStepShrinks
<1> QED BY <1>1, <1>2, JobsTracked, PTL DEF Spec

\* A worker that main() has told to stop finds the stop message in the queue.
AwaitStop == \A w \in Workers : wpc[w] \in {"receive", "send"} /\ Stopped(w)
                                  => STOP \in Elems(jobs[w])

\* Nobody but its worker takes a stop message, and taking it ends the worker.
LEMMA AwaitStopStep == JobInv /\ AwaitStop /\ [Next]_vars => AwaitStop'
<1> SUFFICES ASSUME JobInv, AwaitStop, [Next]_vars, NEW w \in Workers,
                    wpc'[w] \in {"receive", "send"}, Stopped(w)'
             PROVE  STOP \in Elems(jobs'[w])
  BY DEF AwaitStop, Workers
<1>1. jobs[w] \in Seq(1 .. JOBS \cup {STOP}) /\ Once(jobs[w])
  BY DEF JobInv, Types, Single
<1>2. i \in Nat /\ WORKERS \in Nat /\ w \in 1 .. WORKERS
  BY QueueAssumption DEF JobInv, Types, Workers
<1>3. wpc[w] \in {"receive", "send"} /\ Stopped(w) => STOP \in Elems(jobs[w])
  BY DEF AwaitStop
<1>4. CASE Fork
  BY <1>2, <1>4 DEF Fork, Loop, Stopped
<1>5. CASE SendJob
  BY <1>2, <1>5 DEF SendJob, Loop, Stopped
<1>6. CASE ReceiveResult
  BY <1>2, <1>6 DEF ReceiveResult, Loop, Stopped
<1>7. CASE SendStop
  <2>1. wpc'[w] = wpc[w] /\ ppc = "stop" /\ i \in 1 .. WORKERS
    BY <1>7 DEF SendStop, JobInv, Loops, Workers
  <2>2. CASE w = i
    <3>1. jobs'[w] = Append(jobs[w], STOP)
      BY <1>7, <2>2 DEF SendStop, JobInv, Types
    <3> QED BY <1>1, <3>1, AppendElem
  <2>3. CASE w # i
    <3>1. jobs'[w] = jobs[w]
      BY <1>7, <2>3 DEF SendStop, JobInv, Types
    <3>2. Stopped(w)
      BY <1>2, <1>7, <2>1, <2>3 DEF SendStop, Loop, Stopped
    <3> QED BY <1>3, <2>1, <3>1, <3>2
  <2> QED BY <2>2, <2>3
<1>8. ASSUME NEW u \in Workers, Reap(u) PROVE STOP \in Elems(jobs'[w])
  <2>1. jobs'[w] = jobs[w] /\ (Stopped(w)' <=> Stopped(w)) /\ wpc'[w] = wpc[w]
    BY <1>8 DEF Reap, Stopped, JobInv, Types
  <2> QED BY <1>3, <2>1
<1>9. CASE Remove
  BY <1>9 DEF Remove
<1>10. ASSUME NEW u \in Workers, Receive(u) PROVE STOP \in Elems(jobs'[w])
  <2>1. Stopped(w)
    BY <1>10 DEF Receive, Stopped
  <2>2. CASE w = u
    <3>1. wpc[w] = "receive" /\ jobs[w] # << >> /\ jobs'[w] = Tail(jobs[w])
      BY <1>10, <2>2 DEF Receive, JobInv, Types
    <3>2. ~(Head(jobs[w]) < 0)
      BY <1>10, <2>2 DEF Receive, JobInv, Types
    <3>3. Head(jobs[w]) # STOP
      BY <3>2 DEF STOP
    <3>4. Elems(Tail(jobs[w])) = Elems(jobs[w]) \ {Head(jobs[w])}
      BY <1>1, <3>1, TailElem
    <3> QED BY <1>3, <2>1, <3>1, <3>3, <3>4
  <2>3. CASE w # u
    BY <1>3, <1>10, <2>1, <2>3 DEF Receive, JobInv, Types
  <2> QED BY <2>2, <2>3
<1>11. ASSUME NEW u \in Workers, SendResult(u) PROVE STOP \in Elems(jobs'[w])
  <2>1. Stopped(w) /\ jobs'[w] = jobs[w]
    BY <1>11 DEF SendResult, Stopped
  <2>2. wpc[w] \in {"receive", "send"}
    BY <1>11 DEF SendResult, JobInv, Types
  <2> QED BY <1>3, <2>1, <2>2
<1>12. CASE UNCHANGED vars
  BY <1>3, <1>12 DEF vars, Stopped
<1> QED BY <1>4, <1>5, <1>6, <1>7, <1>8, <1>9, <1>10, <1>11, <1>12 DEF Next, Main, Worker

\* Some process can go on: the guards of the actions.
CanStep == \/ ppc = "fork"
           \/ ppc \in {"send", "stop"} /\ Fits(JOB_SIZE)
           \/ ppc = "receive" /\ results # << >>
           \/ /\ ppc = "reap"
              /\ \/ \E w \in Workers : wpc[w] = "zombie"
                 \/ \A w \in Workers : wpc[w] \in {"unborn", "reaped"}
           \/ \E w \in Workers : \/ wpc[w] = "receive" /\ jobs[w] # << >>
                                 \/ wpc[w] = "send" /\ Fits(RESULT_SIZE)

\* A process is blocked in msgsnd.
Full == \/ ppc \in {"send", "stop"} /\ ~Fits(JOB_SIZE)
        \/ \E w \in Workers : wpc[w] = "send" /\ ~Fits(RESULT_SIZE)

\* main() waits for a result of a worker whose fork failed; the jobs of the
\* others are printed.
WorkerMissing == /\ ppc = "receive" /\ results = << >>
                 /\ \E k \in 1 .. JOBS : wpc[WorkerOf(k)] = "unborn"
                 /\ \A k \in 1 .. JOBS : \/ wpc[WorkerOf(k)] = "unborn"
                                         \/ \E x \in DOMAIN printed : printed[x].job = k

\* main() can wait in vain for a result only if a worker is missing.
LEMMA ReceiveBlocks ==
  ASSUME JobInv, CountInv, ppc = "receive", ~CanStep, ~Full
  PROVE  WorkerMissing
<1>1. results = << >> /\ JobsIn(results) = {}
  BY DEF CanStep, JobsIn
<1>2. \A w \in Workers : wpc[w] # "send" /\ Held(w) = {}
  BY DEF CanStep, Full, Held
<1>3. ASSUME NEW w \in Workers PROVE wpc[w] = "unborn" \/ (jobs[w] = << >> /\ Elems(jobs[w]) = {})
  <2>1. wpc[w] \in {"unborn", "receive", "send", "zombie", "reaped"}
    BY DEF JobInv, Types
  <2>2. wpc[w] \notin {"zombie", "reaped"}
    BY DEF JobInv, Stops, Stopped
  <2>3. wpc[w] = "receive" => jobs[w] = << >>
    BY DEF CanStep
  <2>4. jobs[w] = << >> => Elems(jobs[w]) = {}
    BY DEF Elems
  <2> QED BY <1>2, <2>1, <2>2, <2>3, <2>4
<1>4. ASSUME NEW k \in 1 .. JOBS, wpc[WorkerOf(k)] # "unborn"
      PROVE  \E x \in DOMAIN printed : printed[x].job = k
  <2>1. WorkerOf(k) \in Workers /\ k \in 1 .. Sent
    BY WorkerOfJob DEF Sent
  <2>2. k \in Elems(jobs[WorkerOf(k)]) \cup Held(WorkerOf(k)) \cup JobsIn(results) \cup JobsIn(printed)
    BY <2>1 DEF JobInv, Cover
  <2>3. k \in JobsIn(printed)
    BY <1>1, <1>2, <1>3, <1>4, <2>1, <2>2
  <2> QED BY <2>3 DEF JobsIn
<1>5. \E k \in 1 .. JOBS : wpc[WorkerOf(k)] = "unborn"
  <2>1. Holders = {}
    BY <1>2 DEF Holders
  <2>2. Cardinality(Holders) = 0 /\ Len(results) = 0
    BY <1>1, <2>1, FS_EmptySet
  <2>3. Len(printed) = i - 1 /\ i \in 1 .. JOBS /\ Sent = JOBS
    BY DEF JobInv, Loops, Sent
  <2>4. Cardinality(Queued) + Cardinality(Holders) + Len(results) + Len(printed) = Sent
    BY DEF CountInv
  <2>5. Cardinality(Queued) # 0
    <3>1. Cardinality(Queued) \in Nat /\ JOBS \in Nat
      BY QueuedIs, QueueAssumption
    <3> QED BY <2>2, <2>3, <2>4, <3>1
  <2>6. PICK p \in Queued : TRUE
    BY <2>5, FS_EmptySet
  <2>7. p[1] \in Workers /\ p[2] \in DOMAIN jobs[p[1]]
    BY <2>6 DEF Queued
  <2> DEFINE w == p[1]
             k == jobs[w][p[2]]
  <2>8. w \in Workers /\ k \in Elems(jobs[w])
    BY <2>7 DEF Elems
  <2>9. wpc[w] = "unborn"
    BY <1>3, <2>8
  <2>10. k # STOP
    BY <2>8 DEF JobInv, Stops, Stopped
  <2>11. k \in 1 .. JOBS /\ WorkerOf(k) = w
    BY <2>3, <2>8, <2>10 DEF JobInv, Own
  <2> QED BY <2>9, <2>11
<1> QED BY <1>1, <1>4, <1>5 DEF WorkerMissing

\* Whatever the size of the queue and whichever forks fail, as long as no process
\* is blocked in a full queue and no worker is missing, some process can go on
\* until main() has removed the queue: no order of sends and receives makes them
\* wait for each other.
THEOREM QueueStopsOnlyAtEnd == Spec => [](CanStep \/ ppc = "removed" \/ Full \/ WorkerMissing)
<1>1. Init => AwaitStop
  BY DEF Init, AwaitStop, Stopped
<1>2. JobInv /\ CountInv /\ AwaitStop => CanStep \/ ppc = "removed" \/ Full \/ WorkerMissing
  <2> SUFFICES ASSUME JobInv, CountInv, AwaitStop, ~CanStep, ~Full
               PROVE  ppc = "removed" \/ WorkerMissing
    OBVIOUS
  <2>1. ppc \in {"receive", "reap", "removed"}
    BY DEF JobInv, Types, CanStep, Full
  <2>2. CASE ppc = "receive"
    BY <2>2, ReceiveBlocks
  <2>3. ASSUME ppc = "reap" PROVE FALSE
    <3>1. PICK w \in Workers : wpc[w] \notin {"unborn", "reaped"}
      BY <2>3 DEF CanStep
    <3>2. wpc[w] \in {"receive", "send"}
      BY <2>3, <3>1 DEF CanStep, JobInv, Types
    <3>3. wpc[w] = "receive"
      BY <2>3, <3>2, AllPrinted DEF Held
    <3>4. STOP \in Elems(jobs[w])
      BY <2>3, <3>3 DEF AwaitStop, Stopped
    <3>5. jobs[w] # << >>
      BY <3>4 DEF Elems
    <3> QED BY <3>3, <3>5 DEF CanStep
  <2> QED BY <2>1, <2>2, <2>3
<1> QED BY <1>1, <1>2, AwaitStopStep, QueueAccounted, PTL DEF Spec

\* With room for all results and all stop messages, as in the program, only a
\* failed fork keeps main() from removing the queue; with every worker of a job
\* forked, the program stops nowhere but at its end.
THEOREM RoomyStopsOnlyAtEnd ==
  Spec => [](qbytes >= Room => CanStep \/ ppc = "removed" \/ WorkerMissing)
<1>1. SendNeverBlocks /\ qbytes >= Room => ~Full
  BY DEF SendNeverBlocks, Full
<1> QED BY <1>1, QueueStopsOnlyAtEnd, RoomySendNeverBlocks, PTL
=============================================================================
