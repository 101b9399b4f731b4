-------------------------- MODULE ThreadPoolProofs --------------------------
(***************************************************************************)
(* The safety of ThreadPool for every number of workers and jobs.          *)
(***************************************************************************)
EXTENDS ThreadPool, FiniteSetTheorems, TLAPS

-----------------------------------------------------------------------------
(* Types *)

\* The pool's state stays in its types.
THEOREM PoolTypeInvariant == PoolSpec => []PoolTypeOK
<1>1. PoolInit => PoolTypeOK
  <2> SUFFICES ASSUME PoolInit
               PROVE  PoolTypeOK
    OBVIOUS
  <2>1. << >> \in Seq(Job)
    OBVIOUS
  <2>2. state \in [Worker -> {"test", "waiting", "running", "exited"}]
    BY DEF PoolInit
  <2>3. job \in [Worker -> Job \cup {NoJob}]
    BY DEF PoolInit
  <2>4. notifying \subseteq Thread
    BY DEF PoolInit
  <2> QED
    BY <2>1, <2>2, <2>3, <2>4 DEF PoolInit, PoolTypeOK
<1>2. PoolTypeOK /\ [PoolNext]_poolVars => PoolTypeOK'
  <2> SUFFICES ASSUME PoolTypeOK, [PoolNext]_poolVars
               PROVE  PoolTypeOK'
    OBVIOUS
  <2> USE DEF PoolTypeOK
  <2>1. ASSUME NEW w \in Worker, Exit(w) \/ Wait(w) \/ Finish(w) \/ WakeSpuriously(w)
        PROVE  PoolTypeOK'
    BY <2>1 DEF Exit, Wait, Finish, WakeSpuriously
  <2>2. ASSUME NEW w \in Worker, Take(w)
        PROVE  PoolTypeOK'
    <3>1. queue # << >> /\ Taken \in Job /\ Tail(queue) \in Seq(Job)
      BY <2>2 DEF Take, MayTake, Taken
    <3> QED
      BY <2>2, <3>1 DEF Take
  <2>3. ASSUME NEW t \in Thread, NEW j \in Job, Push(t, j)
        PROVE  PoolTypeOK'
    BY <2>3 DEF Push
  <2>4. ASSUME NEW t \in Thread, NotifyOne(t)
        PROVE  PoolTypeOK'
    BY <2>4 DEF NotifyOne, Wakes, Waiting
  <2>5. ASSUME SetFlag \/ NotifyAll \/ Join
        PROVE  PoolTypeOK'
    BY <2>5 DEF SetFlag, NotifyAll, Join
  <2>6. CASE UNCHANGED poolVars
    BY <2>6 DEF poolVars
  <2> QED
    BY <2>1, <2>2, <2>3, <2>4, <2>5, <2>6 DEF PoolNext
<1> QED
  BY <1>1, <1>2, PTL DEF PoolSpec

-----------------------------------------------------------------------------
(* Order of the jobs *)

\* Moving the head of one sequence to the end of another leaves their
\* concatenation as it was.
LEMMA MoveHead ==
  ASSUME NEW S, NEW s \in Seq(S), NEW q \in Seq(S), q # << >>
  PROVE  Append(s, Head(q)) \o Tail(q) = s \o q
OBVIOUS

\* Appending to the second of two sequences appends to their concatenation.
LEMMA AppendToSecond ==
  ASSUME NEW S, NEW s \in Seq(S), NEW q \in Seq(S), NEW e \in S
  PROVE  s \o Append(q, e) = Append(s \o q, e)
OBVIOUS

\* What has started and what is queued is always what was submitted.
THEOREM JobsAlwaysStartInOrder == PoolSpec => []JobsStartInOrder
<1>1. PoolInit => JobsStartInOrder
  BY DEF PoolInit, JobsStartInOrder
<1>2. PoolTypeOK /\ JobsStartInOrder /\ [PoolNext]_poolVars => JobsStartInOrder'
  <2> SUFFICES ASSUME PoolTypeOK, JobsStartInOrder, [PoolNext]_poolVars
               PROVE  JobsStartInOrder'
    OBVIOUS
  <2> USE DEF JobsStartInOrder
  <2>1. ASSUME NEW w \in Worker, Take(w)
        PROVE  JobsStartInOrder'
    BY <2>1, MoveHead DEF Take, MayTake, Taken, PoolTypeOK
  <2>2. ASSUME NEW t \in Thread, NEW j \in Job, Push(t, j)
        PROVE  JobsStartInOrder'
    BY <2>2, AppendToSecond DEF Push, PoolTypeOK
  <2>3. ASSUME UNCHANGED <<queue, submitted, started>>
        PROVE  JobsStartInOrder'
    BY <2>3
  <2> QED
    BY <2>1, <2>2, <2>3
    DEF PoolNext, Exit, Wait, Finish, WakeSpuriously, NotifyOne, SetFlag, NotifyAll, Join, poolVars
<1> QED
  BY <1>1, <1>2, PoolTypeInvariant, PTL DEF PoolSpec

-----------------------------------------------------------------------------
(* The destructor *)

\* The flag is set from the destructor's first step on, and no worker sleeps
\* from its notify_all on: with the flag set Wait is not enabled.
DestructorInv ==
  /\ destructor # "none" => deconstructing
  /\ NoSleeperAtJoin

\* The destructor never joins a worker that sleeps.
THEOREM NoSleeperEverAtJoin == PoolSpec => []NoSleeperAtJoin
<1>1. PoolInit => DestructorInv
  BY DEF PoolInit, DestructorInv, NoSleeperAtJoin
<1>2. PoolTypeOK /\ DestructorInv /\ [PoolNext]_poolVars => DestructorInv'
  <2> SUFFICES ASSUME PoolTypeOK, DestructorInv, [PoolNext]_poolVars
               PROVE  DestructorInv'
    OBVIOUS
  <2> USE DEF DestructorInv, NoSleeperAtJoin, Waiting
  <2>1. ASSUME NEW w \in Worker, Exit(w) \/ Wait(w) \/ Take(w) \/ Finish(w) \/ WakeSpuriously(w)
        PROVE  DestructorInv'
    BY <2>1 DEF PoolTypeOK, Exit, Wait, Take, MayTake, Finish, WakeSpuriously
  <2>2. ASSUME NEW t \in Thread, NEW j \in Job, Push(t, j)
        PROVE  DestructorInv'
    BY <2>2 DEF Push
  <2>3. ASSUME NEW t \in Thread, NotifyOne(t)
        PROVE  DestructorInv'
    BY <2>3 DEF PoolTypeOK, NotifyOne, Wakes
  <2>4. ASSUME NotifyAll
        PROVE  DestructorInv'
    BY <2>4 DEF PoolTypeOK, NotifyAll, Woken
  <2>5. ASSUME SetFlag \/ Join
        PROVE  DestructorInv'
    BY <2>5 DEF SetFlag, Join
  <2>6. CASE UNCHANGED poolVars
    BY <2>6 DEF poolVars
  <2> QED
    BY <2>1, <2>2, <2>3, <2>4, <2>5, <2>6 DEF PoolNext
<1>3. DestructorInv => NoSleeperAtJoin
  BY DEF DestructorInv
<1> QED
  BY <1>1, <1>2, <1>3, PoolTypeInvariant, PTL DEF PoolSpec

\* Who is between a push and its notification: the owner, which then has not
\* begun to destroy the pool, or a worker, which then runs a job.  A worker has
\* a job only while it runs it.
UseInv ==
  /\ Owner \in notifying => destructor = "none"
  /\ \A w \in Worker :
       /\ w \in notifying => state[w] = "running"
       /\ job[w] # NoJob => state[w] = "running"
  /\ destructor = "done" => \A w \in Worker : state[w] = "exited"

\* Once the destructor has returned no job runs and no Enqueue is under way.
THEOREM NeverUsedAfterDestruction == PoolSpec => []NoUseAfterDestruction
<1>1. PoolInit => UseInv
  BY DEF PoolInit, UseInv
<1>2. PoolTypeOK /\ UseInv /\ [PoolNext]_poolVars => UseInv'
  <2> SUFFICES ASSUME PoolTypeOK, UseInv, [PoolNext]_poolVars
               PROVE  UseInv'
    OBVIOUS
  <2> USE DEF UseInv
  <2>1. ASSUME NEW w \in Worker, Exit(w) \/ Wait(w) \/ Take(w) \/ Finish(w) \/ WakeSpuriously(w)
        PROVE  UseInv'
    BY <2>1 DEF PoolTypeOK, Exit, Wait, Take, MayTake, Finish, WakeSpuriously
  <2>2. ASSUME NEW t \in Thread, NEW j \in Job, Push(t, j)
        PROVE  UseInv'
    BY <2>2, PoolAssumption DEF Push, MayCall, Thread
  <2>3. ASSUME NEW t \in Thread, NotifyOne(t)
        PROVE  UseInv'
    BY <2>3 DEF PoolTypeOK, NotifyOne, Wakes, Waiting
  <2>4. ASSUME NotifyAll
        PROVE  UseInv'
    BY <2>4 DEF PoolTypeOK, NotifyAll, Woken, Waiting
  <2>5. ASSUME SetFlag \/ Join
        PROVE  UseInv'
    BY <2>5 DEF SetFlag, Join
  <2>6. CASE UNCHANGED poolVars
    BY <2>6 DEF poolVars
  <2> QED
    BY <2>1, <2>2, <2>3, <2>4, <2>5, <2>6 DEF PoolNext
<1>3. PoolTypeOK /\ UseInv => NoUseAfterDestruction
  BY DEF UseInv, NoUseAfterDestruction, PoolTypeOK, Thread
<1> QED
  BY <1>1, <1>2, <1>3, PoolTypeInvariant, PTL DEF PoolSpec

-----------------------------------------------------------------------------
(* Wake-ups *)

\* The workers about to look at the queue.
Testing == {w \in Worker : state[w] = "test"}

\* Both counts of NoLostNotification are of finite sets.
LEMMA CountsAreFinite ==
  ASSUME PoolTypeOK
  PROVE  /\ IsFiniteSet(Testing) /\ Cardinality(Testing) \in Nat
         /\ IsFiniteSet(notifying) /\ Cardinality(notifying) \in Nat
         /\ Len(queue) \in Nat
<1>1. Testing \subseteq Worker
  BY DEF Testing
<1>2. IsFiniteSet(Testing)
  BY <1>1, PoolAssumption, FS_Subset
<1>3. IsFiniteSet(Thread)
  BY PoolAssumption, FS_AddElement DEF Thread
<1>4. IsFiniteSet(notifying)
  BY <1>3, FS_Subset DEF PoolTypeOK
<1>5. Len(queue) \in Nat
  BY DEF PoolTypeOK
<1> QED
  BY <1>2, <1>4, <1>5, FS_CardinalityType

\* A worker that comes to look at the queue adds one to Testing and takes
\* nobody else out of it.
LEMMA OneMoreTests ==
  ASSUME PoolTypeOK, NEW w \in Worker, state[w] # "test",
         state' = [state EXCEPT ![w] = "test"]
  PROVE  Cardinality(Testing') = Cardinality(Testing) + 1
<1>1. Testing' = Testing \cup {w} /\ w \notin Testing
  BY DEF Testing, PoolTypeOK
<1> QED
  BY <1>1, CountsAreFinite, FS_AddElement

\* A worker that leaves the "test" state takes one from Testing.
LEMMA OneLessTests ==
  ASSUME PoolTypeOK, NEW w \in Worker, state[w] = "test",
         NEW s \in {"waiting", "running", "exited"}, state' = [state EXCEPT ![w] = s]
  PROVE  Cardinality(Testing') = Cardinality(Testing) - 1
<1>1. Testing' = Testing \ {w} /\ w \in Testing
  BY DEF Testing, PoolTypeOK
<1> QED
  BY <1>1, CountsAreFinite, FS_RemoveElement

\* While a worker sleeps, every queued job has a worker about to look at the
\* queue or a caller about to notify: the count is kept by the push, which
\* brings its own notification, by the notification, which turns into a worker,
\* and by the worker, which leaves with a job or finds the queue empty.
THEOREM NoNotificationLost == PoolSpec => []NoLostNotification
<1> DEFINE Covered ==
             Len(queue) <= Cardinality(Testing) + Cardinality(notifying)
           Inv == ~deconstructing /\ Waiting # {} => Covered
           Flagged == destructor # "none" => deconstructing
<1>1. Inv <=> NoLostNotification
  BY DEF NoLostNotification, Testing
<1>2. PoolInit => Inv /\ Flagged
  BY DEF PoolInit, Waiting
<1>3. PoolTypeOK /\ Inv /\ Flagged /\ [PoolNext]_poolVars => Inv' /\ Flagged'
  <2> SUFFICES ASSUME PoolTypeOK, Inv, Flagged, [PoolNext]_poolVars
               PROVE  Inv' /\ Flagged'
    OBVIOUS
  <2>0. Flagged'
    BY DEF PoolNext, Exit, Wait, Take, Finish, WakeSpuriously, Push, NotifyOne,
           SetFlag, NotifyAll, Join, poolVars
  <2>1. ASSUME NEW w \in Worker, Wait(w)
        PROVE  Inv'
    <3>1. Len(queue') = 0
      BY <2>1 DEF Wait
    <3>2. notifying' = notifying /\ Testing' \subseteq Testing
      BY <2>1 DEF Wait, Testing, PoolTypeOK
    <3>3. Cardinality(Testing') \in Nat /\ Cardinality(notifying') \in Nat
      BY <3>2, CountsAreFinite, FS_Subset, FS_CardinalityType
    <3> QED
      BY <3>1, <3>3
  <2>2. ASSUME NEW w \in Worker, Take(w)
        PROVE  Inv'
    <3>1. Len(queue') = Len(queue) - 1
      BY <2>2 DEF Take, MayTake, PoolTypeOK
    <3>2. Cardinality(Testing') = Cardinality(Testing) - 1
      BY <2>2, OneLessTests DEF Take, MayTake
    <3>3. Waiting' = Waiting /\ UNCHANGED <<deconstructing, notifying>>
      BY <2>2 DEF Take, MayTake, Waiting, PoolTypeOK
    <3> HIDE DEF Waiting
    <3> QED
      BY <3>1, <3>2, <3>3, CountsAreFinite
  <2>3. ASSUME NEW w \in Worker, Finish(w) \/ WakeSpuriously(w)
        PROVE  Inv'
    <3>1. Cardinality(Testing') = Cardinality(Testing) + 1
      BY <2>3, OneMoreTests DEF Finish, WakeSpuriously
    <3>2. Waiting' \subseteq Waiting /\ UNCHANGED <<queue, deconstructing, notifying>>
      BY <2>3 DEF Finish, WakeSpuriously, Waiting, PoolTypeOK
    <3> QED
      BY <3>1, <3>2, CountsAreFinite
  <2>4. ASSUME NEW t \in Thread, NEW j \in Job, Push(t, j)
        PROVE  Inv'
    <3>1. Len(queue') = Len(queue) + 1
      BY <2>4 DEF Push, PoolTypeOK
    <3>2. Cardinality(notifying') = Cardinality(notifying) + 1
      BY <2>4, CountsAreFinite, FS_AddElement DEF Push, MayCall
    <3>3. Waiting' = Waiting /\ Testing' = Testing /\ UNCHANGED deconstructing
      BY <2>4 DEF Push, Waiting, Testing
    <3> QED
      BY <3>1, <3>2, <3>3, CountsAreFinite
  <2>5. ASSUME NEW t \in Thread, NotifyOne(t)
        PROVE  Inv'
    <3>1. Cardinality(notifying') = Cardinality(notifying) - 1
      BY <2>5, CountsAreFinite, FS_RemoveElement DEF NotifyOne
    <3>2. UNCHANGED <<queue, deconstructing>>
      BY <2>5 DEF NotifyOne
    <3>3. CASE Waiting = {}
      <4>1. Waiting' = {}
        BY <2>5, <3>3 DEF NotifyOne, Wakes, Waiting
      <4> QED
        BY <4>1
    <3>4. CASE Waiting # {}
      <4>1. PICK w \in Waiting : state' = [state EXCEPT ![w] = "test"]
        BY <2>5, <3>4 DEF NotifyOne, Wakes
      <4>2. Cardinality(Testing') = Cardinality(Testing) + 1
        BY <4>1, OneMoreTests DEF Waiting
      <4> QED
        BY <3>1, <3>2, <3>4, <4>2, CountsAreFinite
    <3> QED
      BY <3>3, <3>4
  <2>6. ASSUME deconstructing'
        PROVE  Inv'
    BY <2>6
  <2>7. CASE UNCHANGED poolVars
    BY <2>7 DEF poolVars, Waiting, Testing
  <2>8. \A w \in Worker : Exit(w) => deconstructing'
    BY DEF Exit
  <2>9. SetFlag \/ NotifyAll \/ Join => deconstructing'
    BY DEF SetFlag, NotifyAll, Join
  <2> QED
    BY <2>0, <2>1, <2>2, <2>3, <2>4, <2>5, <2>6, <2>7, <2>8, <2>9 DEF PoolNext
<1> QED
  BY <1>1, <1>2, <1>3, PoolTypeInvariant, PTL DEF PoolSpec
=============================================================================
