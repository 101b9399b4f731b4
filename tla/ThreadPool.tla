----------------------------- MODULE ThreadPool -----------------------------
(***************************************************************************)
(* src/Shared/ThreadPool.{h,cpp}: worker threads that take jobs from a     *)
(* queue under a mutex and sleep on a condition variable when it is empty. *)
(* What a thread does while it holds the mutex is one action.  A job runs  *)
(* on its worker and may itself call Enqueue; the owner calls the          *)
(* destructor, after its own calls have returned.                          *)
(***************************************************************************)
EXTENDS Naturals, Sequences, FiniteSets

CONSTANTS
  Worker,   \* _threads; hardware_concurrency() may be 0
  Owner,    \* the thread that owns the pool
  Job, NoJob

ASSUME PoolAssumption ==
  /\ IsFiniteSet(Worker)
  /\ Owner \notin Worker
  /\ NoJob \notin Job

Thread == Worker \cup {Owner}

VARIABLES
  queue,            \* _job_queue
  deconstructing,   \* _deconstructing
  state,            \* Worker -> "test" (has or wants the mutex), "waiting", "running", "exited"
  job,              \* Worker -> the job it runs, or NoJob
  notifying,        \* the threads between Enqueue's push and its notify_one
  destructor,       \* "none", "flagged", "joining", "done": how far it is
  submitted,        \* history: the jobs pushed, in order
  started           \* history: the jobs taken, in order

poolVars == <<queue, deconstructing, state, job, notifying, destructor, submitted, started>>

Waiting == {w \in Worker : state[w] = "waiting"}
Pushed(j) == \E i \in DOMAIN submitted : submitted[i] = j
Started(j) == \E i \in DOMAIN started : started[i] = j

PoolInit ==
  /\ queue = << >> /\ deconstructing = FALSE
  /\ state = [w \in Worker |-> "test"]
  /\ job = [w \in Worker |-> NoJob]
  /\ notifying = {}
  /\ destructor = "none"
  /\ submitted = << >> /\ started = << >>

-----------------------------------------------------------------------------
(* ThreadLoop *)

Exit(w) ==
  /\ state[w] = "test" /\ deconstructing
  /\ state' = [state EXCEPT ![w] = "exited"]
  /\ UNCHANGED <<queue, deconstructing, job, notifying, destructor, submitted, started>>

\* Mutant of Wait: wait() without its predicate.
WaitUnconditionally(w) ==
  /\ state[w] = "test" /\ ~deconstructing
  /\ state' = [state EXCEPT ![w] = "waiting"]
  /\ UNCHANGED <<queue, deconstructing, job, notifying, destructor, submitted, started>>

\* wait() with its predicate false: give up the mutex and sleep, at once.
Wait(w) ==
  /\ state[w] = "test" /\ ~deconstructing /\ queue = << >>
  /\ state' = [state EXCEPT ![w] = "waiting"]
  /\ UNCHANGED <<queue, deconstructing, job, notifying, destructor, submitted, started>>

MayTake(w) == state[w] = "test" /\ ~deconstructing /\ queue # << >>

\* Mutants of Taken: the job pushed last is taken; the job is removed from the
\* queue and not copied before.
TakenLast == queue[Len(queue)]

TakenUnassigned == NoJob

Taken == Head(queue)

Take(w) ==
  /\ MayTake(w)
  /\ queue' = Tail(queue)
  /\ job' = [job EXCEPT ![w] = Taken]
  /\ started' = Append(started, Taken)
  /\ state' = [state EXCEPT ![w] = "running"]
  /\ UNCHANGED <<deconstructing, notifying, destructor, submitted>>

\* job() returns.
Finish(w) ==
  /\ state[w] = "running" /\ w \notin notifying
  /\ state' = [state EXCEPT ![w] = "test"]
  /\ job' = [job EXCEPT ![w] = NoJob]
  /\ UNCHANGED <<queue, deconstructing, notifying, destructor, submitted, started>>

\* wait() may return without a notification, and tests its predicate again.
WakeSpuriously(w) ==
  /\ state[w] = "waiting"
  /\ state' = [state EXCEPT ![w] = "test"]
  /\ UNCHANGED <<queue, deconstructing, job, notifying, destructor, submitted, started>>

-----------------------------------------------------------------------------
(* Enqueue, by the owner or by a job *)

MayCall(t) ==
  /\ t \notin notifying
  /\ IF t = Owner THEN destructor = "none" ELSE state[t] = "running"

Push(t, j) ==
  /\ MayCall(t) /\ ~Pushed(j)
  /\ queue' = Append(queue, j)
  /\ submitted' = Append(submitted, j)
  /\ notifying' = notifying \cup {t}
  /\ UNCHANGED <<deconstructing, state, job, destructor, started>>

\* Mutant of Wakes: only the push that ends an empty queue wakes anyone.
WakesFirst == IF Len(queue) = 1 THEN Waiting ELSE {}

\* The workers notify_one may wake.
Wakes == Waiting

NotifyOne(t) ==
  /\ t \in notifying
  /\ notifying' = notifying \ {t}
  /\ IF Wakes = {}
     THEN UNCHANGED state
     ELSE \E w \in Wakes : state' = [state EXCEPT ![w] = "test"]
  /\ UNCHANGED <<queue, deconstructing, job, destructor, submitted, started>>

-----------------------------------------------------------------------------
(* ~ThreadPool *)

SetFlag ==
  /\ destructor = "none" /\ Owner \notin notifying
  /\ destructor' = "flagged"
  /\ deconstructing' = TRUE
  /\ UNCHANGED <<queue, state, job, notifying, submitted, started>>

\* Mutant of Woken: notify_one where notify_all is called.
WokenOne == IF Waiting = {} THEN {} ELSE {CHOOSE w \in Waiting : TRUE}

Woken == Waiting

NotifyAll ==
  /\ destructor = "flagged"
  /\ destructor' = "joining"
  /\ state' = [w \in Worker |-> IF w \in Woken THEN "test" ELSE state[w]]
  /\ UNCHANGED <<queue, deconstructing, job, notifying, submitted, started>>

\* Mutant of Join: the destructor waits for the queue, not for the threads.
JoinWhenIdle ==
  /\ destructor = "joining" /\ queue = << >>
  /\ destructor' = "done"
  /\ UNCHANGED <<queue, deconstructing, state, job, notifying, submitted, started>>

Join ==
  /\ destructor = "joining"
  /\ \A w \in Worker : state[w] = "exited"
  /\ destructor' = "done"
  /\ UNCHANGED <<queue, deconstructing, state, job, notifying, submitted, started>>

-----------------------------------------------------------------------------
PoolNext ==
  \/ \E w \in Worker : Exit(w) \/ Wait(w) \/ Take(w) \/ Finish(w) \/ WakeSpuriously(w)
  \/ \E t \in Thread : NotifyOne(t) \/ \E j \in Job : Push(t, j)
  \/ SetFlag \/ NotifyAll \/ Join

PoolSpec == PoolInit /\ [][PoolNext]_poolVars

(***************************************************************************)
(* Every thread is scheduled, gets the mutex in the end, and its jobs      *)
(* return.  Nobody has to submit a job or to destroy the pool, and nothing *)
(* ever wakes a worker spuriously for certain.                             *)
(***************************************************************************)
PoolFairness ==
  /\ \A w \in Worker : WF_poolVars(Exit(w) \/ Wait(w) \/ Take(w) \/ Finish(w))
  /\ \A t \in Thread : WF_poolVars(NotifyOne(t))
  /\ WF_poolVars(NotifyAll \/ Join)

FairPoolSpec == PoolSpec /\ PoolFairness

-----------------------------------------------------------------------------
(* Properties *)

PoolTypeOK ==
  /\ queue \in Seq(Job) /\ submitted \in Seq(Job) /\ started \in Seq(Job)
  /\ deconstructing \in BOOLEAN
  /\ state \in [Worker -> {"test", "waiting", "running", "exited"}]
  /\ job \in [Worker -> Job \cup {NoJob}]
  /\ notifying \subseteq Thread
  /\ destructor \in {"none", "flagged", "joining", "done"}

\* While a worker sleeps, every queued job has a thread that will see to it: a
\* worker about to look at the queue or a caller about to notify.  Notifying
\* after the mutex is released, one thread per job, loses no wake-up.
NoLostNotification ==
  ~deconstructing /\ Waiting # {} =>
    Len(queue) <= Cardinality({w \in Worker : state[w] = "test"}) + Cardinality(notifying)

\* Jobs start in the order they were pushed, each once: what has started and
\* what is queued is what was submitted.
JobsStartInOrder == started \o queue = submitted

\* The destructor joins no worker that sleeps: once notify_all is done nobody
\* waits again, so there is nobody left whom nothing would wake.
NoSleeperAtJoin == destructor \in {"joining", "done"} => Waiting = {}

\* Nothing of the pool is in use once it is destroyed.  A job may still run, and
\* call Enqueue, during the destruction, and Enqueue notifies after it has given
\* the mutex up: neither may happen on a pool that is gone.
NoUseAfterDestruction ==
  destructor = "done" => notifying = {} /\ \A w \in Worker : job[w] = NoJob

\* With at least one worker a job that is pushed starts, or the pool goes down.
JobsStart ==
  Worker # {} => \A j \in Job : Pushed(j) ~> Started(j) \/ deconstructing

\* The destructor returns.
DestructorReturns == destructor = "flagged" ~> destructor = "done"
=============================================================================
