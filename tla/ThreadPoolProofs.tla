-------------------------- MODULE ThreadPoolProofs --------------------------
(***************************************************************************)
(* Proofs about ThreadPool for every number of workers, tasks, queue size  *)
(* and I/O limit.  One inductive invariant, IInv, carries all of them.     *)
(***************************************************************************)
EXTENDS ThreadPool, FiniteSetTheorems, TLAPS

\* A worker holds a closure exactly while it is busy.
Holding == \A w \in Workers : pc[w] = "busy" <=> current[w] # NoTask

\* The queue stays empty while a worker that found it so is about to sleep;
\* a worker that returned saw stop_flag and an empty queue, and stop_flag
\* keeps it empty.
PcMeansQueue ==
    /\ \A w \in Workers : pc[w] = "checked" => queue = {}
    /\ \A w \in Workers : pc[w] \in Gone => MayExit

ClockBound == \A t \in Tasks : stamp[t] <= clock

SlotsBound == slots < SizeMod

\* Until stop() the subtraction has not wrapped.
NoWrapYet == Limited /\ ~Stopping => slots + active = MaxActiveIOs

JoinedAll == stopper = "joined" => \A w \in Workers : pc[w] \in Gone

IInv == /\ TypeOK
        /\ Accounting
        /\ Holding
        /\ CountersExact
        /\ SlotsBound
        /\ NoWrapYet
        /\ ClockBound
        /\ FifoWithinPriority
        /\ PcMeansQueue
        /\ NoStrandedTask
        /\ NoForgottenWaiter
        /\ JoinedAll
-----------------------------------------------------------------------------
(* The slot arithmetic of size_t *)

\* Taking a slot keeps slots + active equal to the limit modulo SizeMod, also
\* when slots wraps below zero, and keeps it a natural number below SizeMod.
LEMMA TakeSlot ==
  ASSUME NEW m \in Nat, NEW lim \in Nat, lim < m,
         NEW s \in 0..(m - 1), NEW a \in Nat, a + lim < m, (s + a) % m = lim
  PROVE  /\ (((s - 1) % m) + (a + 1)) % m = lim
         /\ (s - 1) % m \in 0..(m - 1)
<1>1. CASE s = 0
  <2>1. (s - 1) % m = m - 1
    BY <1>1
  <2>2. a = lim
    BY <1>1
  <2>3. (m - 1 + (a + 1)) % m = lim
    BY <2>2
  <2>4. QED
    BY <2>1, <2>3
<1>2. CASE s > 0
  <2>1. (s - 1) % m = s - 1
    BY <1>2
  <2>2. s - 1 + (a + 1) = s + a
    OBVIOUS
  <2>3. QED
    BY <1>2, <2>1, <2>2
<1>3. QED
  BY <1>1, <1>2

\* Giving a slot back keeps the same sum, also when slots wraps up to zero.
LEMMA FinishSlot ==
  ASSUME NEW m \in Nat, NEW lim \in Nat, lim < m,
         NEW s \in 0..(m - 1), NEW a \in Nat \ {0}, (s + a) % m = lim
  PROVE  /\ (((s + 1) % m) + (a - 1)) % m = lim
         /\ (s + 1) % m \in 0..(m - 1)
  BY SMTT(30)

\* Busy is finite and no larger than the pool.
LEMMA BusyFinite ==
  /\ IsFiniteSet(Busy)
  /\ Cardinality(Busy) \in Nat
  /\ Cardinality(Busy) <= Cardinality(Workers)
  /\ Cardinality(Workers) \in Nat
  /\ Cardinality(Busy) = 0 <=> Busy = {}
<1>1. Busy \subseteq Workers
  BY DEF Busy
<1>2. QED
  BY <1>1, WorkersAssumption, FS_Subset, FS_CardinalityType, FS_EmptySet
-----------------------------------------------------------------------------
(* The inductive invariant *)

\* A pool just constructed satisfies the inductive invariant.
THEOREM InitIInv == Init => IInv
<1> SUFFICES ASSUME Init
             PROVE  IInv
  OBVIOUS
<1> USE DEF Init
<1>1. TypeOK
  BY LimitsAssumption DEF TypeOK, PCs, Limited
<1>2. Busy = {} /\ Running = {} /\ Accepted = {}
  BY DEF Busy, Running, Accepted
<1>3. Accounting
  BY <1>2 DEF Accounting
<1>4. CountersExact /\ SlotsBound /\ NoWrapYet
  <2>1. Cardinality(Busy) = 0
    BY <1>2, FS_EmptySet
  <2>2. Limited => (MaxActiveIOs + 0) % SizeMod = MaxActiveIOs
    BY LimitsAssumption DEF Limited
  <2>3. QED
    BY <2>1, <2>2, LimitsAssumption DEF CountersExact, SlotsBound, NoWrapYet, Limited
<1>5. Holding /\ ClockBound /\ PcMeansQueue /\ NoStrandedTask /\ NoForgottenWaiter /\ JoinedAll
  BY DEF Holding, ClockBound, PcMeansQueue, Gone, NoStrandedTask, NoForgottenWaiter, JoinedAll
<1>6. FifoWithinPriority
  BY <1>2 DEF FifoWithinPriority
<1>7. QED
  BY <1>1, <1>3, <1>4, <1>5, <1>6 DEF IInv

\* A step that keeps the set of busy workers and what they hold keeps Running.
LEMMA SameRunning ==
  ASSUME current' = current, Busy' = Busy
  PROVE  Running' = Running
  BY DEF Running

\* A worker that moves between two places that are not "busy".
LEMMA GotoIInv ==
  ASSUME IInv, NEW w \in Workers, NEW where \in PCs,
         Goto(w, where), pc[w] # "busy", where # "busy",
         pc[w] \notin Gone,
         where = "checked" => queue = {},
         where \in Gone => MayExit,
         where = "waiting" => queue = {}
  PROVE  IInv'
<1> USE DEF IInv, Goto, poolVars
<1>1. TypeOK'
  BY DEF TypeOK
<1>2. Busy' = Busy
  BY DEF TypeOK, Busy
<1>3. Running' = Running /\ Accepted' = Accepted
  BY <1>2, SameRunning DEF Accepted
<1>4. Accounting' /\ CountersExact' /\ SlotsBound' /\ NoWrapYet'
  BY <1>2, <1>3 DEF Accounting, CountersExact, SlotsBound, NoWrapYet, Stopping
<1>5. Holding' /\ ClockBound' /\ FifoWithinPriority'
  BY <1>3 DEF TypeOK, Holding, ClockBound, FifoWithinPriority
<1>6. PcMeansQueue'
  BY DEF TypeOK, PcMeansQueue, MayExit, Stopping
<1>7. NoStrandedTask'
  BY DEF TypeOK, NoStrandedTask, PCs, Gone, MayExit
<1>8. NoForgottenWaiter'
  BY <1>2 DEF NoForgottenWaiter
<1>9. JoinedAll'
  BY DEF TypeOK, JoinedAll
<1>10. QED
  BY <1>1, <1>4, <1>5, <1>6, <1>7, <1>8, <1>9

\* A worker takes the first task and starts running it.
LEMMA TakeIInv ==
  ASSUME IInv, NEW w \in Workers, pc[w] \in {"loop", "ioWait"}, MutexFree, SlotOrStop, Take(w)
  PROVE  IInv'
<1> USE DEF IInv
<1>1. PICK t \in Tasks : /\ IsTop(t)
                        /\ queue' = queue \ {t}
                        /\ pc' = [pc EXCEPT ![w] = "busy"]
                        /\ current' = [current EXCEPT ![w] = t]
                        /\ active' = active + 1
                        /\ slots' = SlotsAfterTake
                        /\ UNCHANGED <<stamp, clock, refused, notifying, done, stopper, waiter, fate>>
  BY DEF Take
<1>2. t \in queue /\ w \notin Busy /\ current[w] = NoTask
  BY <1>1 DEF IsTop, Busy, Holding
<1>3. Busy' = Busy \cup {w}
  BY <1>1 DEF TypeOK, Busy
<1>4. Running' = Running \cup {t}
  <2>1. \A v \in Busy : current'[v] = current[v]
    BY <1>1, <1>2 DEF TypeOK, Busy
  <2>2. current'[w] = t
    BY <1>1 DEF TypeOK
  <2>3. QED
    BY <1>3, <2>1, <2>2 DEF Running
<1>5. Accepted' = Accepted
  BY <1>1 DEF Accepted
<1>6. Accounting'
  <2>1. \A v \in Busy : current[v] \in Running
    BY DEF Running
  <2>2. \A v \in Busy : current'[v] = current[v] /\ current[v] # t
    BY <1>1, <1>2, <2>1 DEF TypeOK, Busy, Accounting
  <2>3. current'[w] = t
    BY <1>1 DEF TypeOK
  <2>4. (\A u, v \in Busy : current[u] = current[v] => u = v)'
    BY <1>3, <2>2, <2>3 DEF Accounting
  <2>5. QED
    BY <1>1, <1>2, <1>4, <1>5, <2>4 DEF Accounting
<1>7. active' = Cardinality(Busy')
  BY <1>1, <1>2, <1>3, BusyFinite, FS_AddElement DEF CountersExact
<1>8. CountersExact' /\ SlotsBound' /\ slots' \in Nat
  <2>1. CASE ~Limited
    BY <1>1, <1>7, <2>1 DEF CountersExact, SlotsBound, SlotsAfterTake, TypeOK
  <2>2. CASE Limited
    <3>1. active \in Nat /\ active + MaxActiveIOs < SizeMod
      BY BusyFinite, LimitsAssumption DEF CountersExact
    <3>2. slots \in 0..(SizeMod - 1) /\ (slots + active) % SizeMod = MaxActiveIOs
      BY <2>2, LimitsAssumption DEF CountersExact, SlotsBound, TypeOK
    <3>3. /\ (((slots - 1) % SizeMod) + (active + 1)) % SizeMod = MaxActiveIOs
          /\ (slots - 1) % SizeMod \in 0..(SizeMod - 1)
      BY <3>1, <3>2, TakeSlot, LimitsAssumption
    <3>4. slots' = (slots - 1) % SizeMod /\ active' = active + 1
      BY <1>1, <2>2 DEF SlotsAfterTake
    <3>5. QED
      BY <1>7, <3>3, <3>4, LimitsAssumption DEF CountersExact, SlotsBound
  <2>3. QED
    BY <2>1, <2>2
<1>9. TypeOK'
  BY <1>1, <1>8 DEF TypeOK, PCs
<1>10. Holding'
  BY <1>1, TasksAssumption DEF TypeOK, Holding
<1>11. ClockBound'
  BY <1>1 DEF ClockBound
<1>12. FifoWithinPriority'
  <2> SUFFICES ASSUME NEW a \in Accepted, NEW b \in Accepted,
                      Priority[a] = Priority[b], stamp[a] < stamp[b], a \in queue, a # t
               PROVE  b \in queue /\ b # t
    BY <1>1, <1>5 DEF FifoWithinPriority
  <2>1. b \in queue
    BY DEF FifoWithinPriority
  <2>2. Before(t, a)
    BY <1>1 DEF IsTop
  <2>3. Priority[t] = Priority[a] => stamp[t] < stamp[a]
    BY <2>2, PriorityAssumption DEF Before, TypeOK, Accepted
  <2>4. stamp[a] \in Nat /\ stamp[b] \in Nat
    BY DEF TypeOK, Accepted
  <2>5. QED
    BY <2>1, <2>3, <2>4
<1>13. PcMeansQueue'
  BY <1>1, <1>2 DEF TypeOK, PcMeansQueue, MutexFree, MayExit, Stopping, Gone
<1>14. NoStrandedTask' /\ NoForgottenWaiter'
  BY <1>1, <1>3 DEF TypeOK, NoStrandedTask, NoForgottenWaiter
<1>15. JoinedAll'
  BY <1>1 DEF TypeOK, JoinedAll, Gone
<1>16. NoWrapYet'
  BY <1>1, LimitsAssumption DEF NoWrapYet, Stopping, SlotOrStop, SlotsAfterTake, SlotsBound, TypeOK
<1>17. QED
  BY <1>6, <1>8, <1>9, <1>10, <1>11, <1>12, <1>13, <1>14, <1>15, <1>16

\* The block after task(): the counters, the slot and the waiters of wait_all.
LEMMA FinishIInv ==
  ASSUME IInv, NEW w \in Workers, Finish(w)
  PROVE  IInv'
<1> USE DEF IInv, Finish, poolVars
<1>1. w \in Busy /\ current[w] \in Tasks /\ current[w] \in Running
  BY DEF TypeOK, Holding, Busy, Running
<1>2. Busy' = Busy \ {w}
  BY DEF TypeOK, Busy
<1>3. Running' = Running \ {current[w]}
  <2>1. \A v \in Busy \ {w} : current'[v] = current[v] /\ current[v] # current[w]
    BY <1>1 DEF TypeOK, Busy, Accounting
  <2>2. QED
    BY <1>1, <1>2, <2>1 DEF Running
<1>4. Accepted' = Accepted
  BY DEF Accepted
<1>5. Accounting'
  <2>1. (\A u, v \in Busy : current[u] = current[v] => u = v)'
    BY <1>2 DEF TypeOK, Busy, Accounting
  <2>2. QED
    BY <1>1, <1>3, <1>4, <2>1 DEF Accounting
<1>6. active' = Cardinality(Busy') /\ active > 0 /\ active' \in Nat
  <2>1. Cardinality(Busy') = Cardinality(Busy) - 1
    BY <1>1, <1>2, BusyFinite, FS_RemoveElement
  <2>2. Cardinality(Busy) # 0
    BY <1>1, BusyFinite
  <2>3. QED
    BY <2>1, <2>2, BusyFinite DEF CountersExact
<1>7. CountersExact' /\ SlotsBound' /\ slots' \in Nat
  <2>1. CASE ~Limited
    BY <1>6, <2>1 DEF CountersExact, SlotsBound, SlotsAfterFinish, TypeOK
  <2>2. CASE Limited
    <3>1. slots \in 0..(SizeMod - 1) /\ (slots + active) % SizeMod = MaxActiveIOs
      BY <2>2, LimitsAssumption DEF CountersExact, SlotsBound, TypeOK
    <3>2. active \in Nat \ {0}
      BY <1>6 DEF TypeOK
    <3>3. /\ (((slots + 1) % SizeMod) + (active - 1)) % SizeMod = MaxActiveIOs
          /\ (slots + 1) % SizeMod \in 0..(SizeMod - 1)
      BY <3>1, <3>2, FinishSlot, LimitsAssumption
    <3>4. slots' = (slots + 1) % SizeMod /\ active' = active - 1
      BY <2>2 DEF SlotsAfterFinish
    <3>5. QED
      BY <1>6, <3>3, <3>4, LimitsAssumption DEF CountersExact, SlotsBound
  <2>3. QED
    BY <2>1, <2>2
<1>8. TypeOK'
  BY <1>1, <1>6, <1>7 DEF TypeOK, PCs
<1>9. Holding'
  BY DEF TypeOK, Holding
<1>10. ClockBound'
  BY DEF ClockBound
<1>11. FifoWithinPriority'
  BY <1>4 DEF FifoWithinPriority
<1>12. PcMeansQueue'
  BY DEF TypeOK, PcMeansQueue, MayExit, Stopping, Gone
<1>13. NoStrandedTask'
  BY DEF TypeOK, NoStrandedTask
<1>14. NoForgottenWaiter'
  BY DEF TypeOK, NoForgottenWaiter
<1>15. JoinedAll'
  BY DEF TypeOK, JoinedAll, Gone
<1>16. NoWrapYet'
  BY <1>6, LimitsAssumption DEF NoWrapYet, Stopping, SlotsAfterFinish, SlotsBound, TypeOK
<1>17. QED
  BY <1>5, <1>7, <1>8, <1>9, <1>10, <1>11, <1>12, <1>13, <1>14, <1>15, <1>16

\* An enqueue that returns true: the new task is the youngest of all.
LEMMA AcceptIInv ==
  ASSUME IInv, NEW t \in Tasks, Accept(t)
  PROVE  IInv'
<1> USE DEF IInv, Accept, workVars
<1>1. TypeOK'
  BY DEF TypeOK
<1>2. Busy' = Busy /\ Running' = Running
  BY DEF Busy, Running
<1>3. Accepted' = Accepted \cup {t} /\ t \notin Accepted
  BY DEF TypeOK, Accepted
<1>4. Accounting'
  BY <1>2, <1>3 DEF Accounting, Busy
<1>5. CountersExact' /\ SlotsBound' /\ NoWrapYet' /\ Holding'
  BY <1>2 DEF CountersExact, SlotsBound, NoWrapYet, Stopping, Holding
<1>6. ClockBound'
  BY DEF TypeOK, ClockBound
<1>7. FifoWithinPriority'
  <2> SUFFICES ASSUME NEW a \in Accepted', NEW b \in Accepted', Priority[a] = Priority[b],
                      stamp'[a] < stamp'[b], a \in queue'
               PROVE  b \in queue'
    BY DEF FifoWithinPriority
  <2>1. a # t
    BY DEF TypeOK, ClockBound, Accepted
  <2>2. CASE b = t
    BY <2>2
  <2>3. CASE b # t
    BY <1>3, <2>1, <2>3 DEF TypeOK, FifoWithinPriority
  <2>4. QED
    BY <2>2, <2>3
<1>8. PcMeansQueue'
  BY DEF PcMeansQueue, MutexFree, MayExit, Stopping
<1>9. NoStrandedTask' /\ NoForgottenWaiter' /\ JoinedAll'
  BY <1>2 DEF NoStrandedTask, NoForgottenWaiter, JoinedAll
<1>10. QED
  BY <1>1, <1>4, <1>5, <1>6, <1>7, <1>8, <1>9

\* The notify_one of enqueue: a sleeper wakes, or every worker is awake.
LEMMA NotifyOneIInv ==
  ASSUME IInv, NEW t \in Tasks, NotifyOne(t)
  PROVE  IInv'
<1> USE DEF IInv, NotifyOne
<1>1. pc' = pc \/ \E w \in Workers : pc[w] = "waiting" /\ pc' = [pc EXCEPT ![w] = "loop"]
  OBVIOUS
<1>2. TypeOK'
  BY <1>1 DEF TypeOK, PCs
<1>3. Busy' = Busy
  BY <1>1 DEF TypeOK, Busy
<1>4. Running' = Running /\ Accepted' = Accepted
  BY <1>3, SameRunning DEF Accepted
<1>5. Accounting' /\ CountersExact' /\ SlotsBound' /\ NoWrapYet' /\ ClockBound'
        /\ FifoWithinPriority'
  BY <1>3, <1>4 DEF Accounting, CountersExact, SlotsBound, NoWrapYet, Stopping, ClockBound,
         FifoWithinPriority
<1>6. Holding' /\ PcMeansQueue' /\ JoinedAll'
  BY <1>1 DEF TypeOK, Holding, PcMeansQueue, JoinedAll, MayExit, Stopping, Gone
<1>7. NoStrandedTask'
  <2> SUFFICES ASSUME queue # {}
               PROVE  \E w \in Workers : pc'[w] \in {"loop", "ioWait", "busy"}
    BY DEF NoStrandedTask
  <2>1. CASE \E w \in Workers : pc[w] = "waiting" /\ pc' = [pc EXCEPT ![w] = "loop"]
    BY <2>1 DEF TypeOK
  <2>2. CASE (\A w \in Workers : pc[w] # "waiting") /\ pc' = pc
    <3>1. PICK w \in Workers : TRUE
      BY WorkersAssumption
    <3>2. pc[w] \notin Gone \cup {"checked", "waiting"}
      BY <2>2 DEF PcMeansQueue, MayExit
    <3>3. QED
      BY <2>2, <3>2 DEF TypeOK, PCs, Gone
  <2>3. QED
    BY <2>1, <2>2
<1>8. NoForgottenWaiter'
  BY <1>3 DEF NoForgottenWaiter
<1>9. QED
  BY <1>2, <1>5, <1>6, <1>7, <1>8

\* The notify_all of stop_internal: nobody sleeps afterwards.
LEMMA NotifyAllIInv ==
  ASSUME IInv, NotifyAll
  PROVE  IInv'
<1> USE DEF IInv, NotifyAll, poolVars
<1>1. TypeOK'
  BY DEF TypeOK, PCs
<1>2. Busy' = Busy
  BY DEF TypeOK, Busy
<1>3. Running' = Running /\ Accepted' = Accepted
  BY <1>2, SameRunning DEF Accepted
<1>4. Accounting' /\ CountersExact' /\ SlotsBound' /\ NoWrapYet' /\ ClockBound'
        /\ FifoWithinPriority'
  BY <1>2, <1>3 DEF Accounting, CountersExact, SlotsBound, NoWrapYet, Stopping, ClockBound,
         FifoWithinPriority
<1>5. Holding' /\ PcMeansQueue' /\ JoinedAll'
  BY DEF TypeOK, Holding, PcMeansQueue, JoinedAll, MayExit, Stopping, Gone
<1>6. NoStrandedTask' /\ NoForgottenWaiter'
  BY <1>2 DEF TypeOK, NoStrandedTask, NoForgottenWaiter
<1>7. QED
  BY <1>1, <1>4, <1>5, <1>6

\* Steps that move neither a task nor a worker.
LEMMA QuietIInv ==
  ASSUME IInv, UNCHANGED <<queue, stamp, clock, notifying, workVars>>,
         \/ \E t \in Tasks : Refuse(t)
         \/ TopOfEmpty
         \/ \E w \in Workers : Throw(w)
         \/ RaiseStop \/ Join \/ WaitAll
         \/ UNCHANGED vars
  PROVE  IInv'
<1> USE DEF IInv, workVars
<1>1. TypeOK'
  BY DEF TypeOK, Refuse, TopOfEmpty, Throw, RaiseStop, Join, WaitAll, vars, poolVars
<1>2. Busy' = Busy /\ Running' = Running /\ Accepted' = Accepted
  BY DEF Busy, Running, Accepted
<1>3. Accounting' /\ CountersExact' /\ SlotsBound' /\ ClockBound' /\ FifoWithinPriority'
  BY <1>2 DEF Accounting, CountersExact, SlotsBound, ClockBound, FifoWithinPriority, Busy
<1>4. Holding' /\ NoStrandedTask'
  BY DEF Holding, NoStrandedTask
<1>5. PcMeansQueue' /\ NoWrapYet' /\ JoinedAll'
  BY DEF PcMeansQueue, NoWrapYet, JoinedAll, MayExit, Stopping, Refuse, TopOfEmpty, Throw, RaiseStop,
         Join, WaitAll, vars, poolVars
<1>6. NoForgottenWaiter'
  <2>1. CASE waiter' = waiter
    BY <1>2, <2>1 DEF NoForgottenWaiter
  <2>2. CASE WaitAll
    BY <1>2, <2>2, BusyFinite DEF WaitAll, AllDone, NoForgottenWaiter, CountersExact
  <2>3. QED
    BY <2>1, <2>2 DEF Refuse, TopOfEmpty, Throw, RaiseStop, Join, vars
<1>7. QED
  BY <1>1, <1>3, <1>4, <1>5, <1>6

\* Every step of every thread preserves the inductive invariant.
THEOREM NextIInv == IInv /\ [Next]_vars => IInv'
<1> SUFFICES ASSUME IInv, [Next]_vars
             PROVE  IInv'
  OBVIOUS
<1>1. ASSUME NEW t \in Tasks, Accept(t) PROVE IInv'
  BY <1>1, AcceptIInv
<1>2. ASSUME NEW t \in Tasks, Refuse(t) PROVE IInv'
  BY <1>2, QuietIInv DEF Refuse
<1>3. ASSUME NEW t \in Tasks, NotifyOne(t) PROVE IInv'
  BY <1>3, NotifyOneIInv
<1>4. ASSUME NEW w \in Workers, FoundNothing(w) PROVE IInv'
  BY <1>4, GotoIInv DEF FoundNothing, WakeUp, PCs, Gone
<1>5. ASSUME NEW w \in Workers, Sleep(w) PROVE IInv'
  BY <1>5, GotoIInv DEF Sleep, PCs, Gone, IInv, PcMeansQueue
<1>6. ASSUME NEW w \in Workers, SpuriousWake(w) PROVE IInv'
  BY <1>6, GotoIInv DEF SpuriousWake, PCs, Gone
<1>7. ASSUME NEW w \in Workers, Leave(w) PROVE IInv'
  BY <1>7, GotoIInv DEF Leave, PCs, Gone
<1>8. ASSUME NEW w \in Workers, TakeNow(w) PROVE IInv'
  BY <1>8, TakeIInv DEF TakeNow
<1>9. ASSUME NEW w \in Workers, AwaitSlot(w) PROVE IInv'
  BY <1>9, GotoIInv DEF AwaitSlot, PCs, Gone
<1>10. ASSUME NEW w \in Workers, SlotGranted(w) PROVE IInv'
  <2>1. CASE MayExit /\ Goto(w, "leaked")
    BY <1>10, <2>1, GotoIInv DEF SlotGranted, PCs, Gone
  <2>2. CASE TopOfEmpty
    BY <2>2, QuietIInv DEF TopOfEmpty, poolVars
  <2>3. CASE Take(w)
    BY <1>10, <2>3, TakeIInv DEF SlotGranted
  <2>4. QED
    BY <1>10, <2>1, <2>2, <2>3 DEF SlotGranted
<1>11. ASSUME NEW w \in Workers, SlotTimeout(w) PROVE IInv'
  <2>1. CASE Goto(w, "loop")
    BY <1>11, <2>1, GotoIInv DEF SlotTimeout, PCs, Gone
  <2>2. CASE TopOfEmpty
    BY <2>2, QuietIInv DEF TopOfEmpty, poolVars
  <2>3. QED
    BY <1>11, <2>1, <2>2 DEF SlotTimeout
<1>12. ASSUME NEW w \in Workers, Finish(w) PROVE IInv'
  BY <1>12, FinishIInv
<1>13. ASSUME NEW w \in Workers, Throw(w) PROVE IInv'
  BY <1>13, QuietIInv DEF Throw, poolVars
<1>14. CASE RaiseStop \/ Join \/ WaitAll
  BY <1>14, QuietIInv DEF RaiseStop, Join, WaitAll, poolVars
<1>15. CASE NotifyAll
  BY <1>15, NotifyAllIInv
<1>16. CASE UNCHANGED vars
  BY <1>16, QuietIInv DEF vars, workVars
<1>17. QED
  BY <1>1, <1>2, <1>3, <1>4, <1>5, <1>6, <1>7, <1>8, <1>9, <1>10, <1>11, <1>12, <1>13,
     <1>14, <1>15, <1>16 DEF Next, Step

\* The inductive invariant holds in every reachable state of the pool.
LEMMA SpecIInv == Spec => []IInv
  BY InitIInv, NextIInv, PTL DEF Spec
-----------------------------------------------------------------------------
(* The theorems *)

\* Every variable of the pool keeps its type; active_tasks and
\* io_slots_available in particular never leave Nat.
THEOREM PoolTypeOK == Spec => []TypeOK
<1>1. IInv => TypeOK
  BY DEF IInv
<1>2. QED
  BY SpecIInv, <1>1, PTL

\* Exactly once: no accepted task is lost, duplicated or run by two workers.
THEOREM PoolAccounting == Spec => []Accounting
<1>1. IInv => Accounting
  BY DEF IInv
<1>2. QED
  BY SpecIInv, <1>1, PTL

\* The counters of the pool agree with what the workers do, across the wrap
\* of io_slots_available that a stop can cause, and at most max_active_ios
\* tasks run at a time until stop() is called.
THEOREM PoolIOAccounting == Spec => []IOAccounting
<1>1. IInv => CountersExact
  BY DEF IInv
<1>2. IInv => IOLimitBeforeStop
  BY BusyFinite DEF IInv, CountersExact, NoWrapYet, IOLimitBeforeStop, TypeOK
<1>3. QED
  BY SpecIInv, <1>1, <1>2, PTL DEF IOAccounting

\* No notify_one of enqueue is lost, for any number of workers.
THEOREM PoolNoStrandedTask == Spec => []NoStrandedTask
<1>1. IInv => NoStrandedTask
  BY DEF IInv
<1>2. QED
  BY SpecIInv, <1>1, PTL

\* First in, first out within a priority, for any number of workers.
THEOREM PoolFifo == Spec => []FifoWithinPriority
<1>1. IInv => FifoWithinPriority
  BY DEF IInv
<1>2. QED
  BY SpecIInv, <1>1, PTL

\* When stop() returns, everything accepted has run.
LEMMA JoinedIsDrained == IInv => StopDrains
<1> SUFFICES ASSUME IInv, stopper = "joined"
             PROVE  queue = {} /\ Busy = {} /\ done = Accepted
  BY DEF StopDrains
<1>1. \A w \in Workers : pc[w] \in Gone
  BY DEF IInv, JoinedAll
<1>2. queue = {}
  BY <1>1, WorkersAssumption DEF IInv, PcMeansQueue, MayExit
<1>3. Busy = {}
  BY <1>1 DEF Busy, Gone
<1>4. Running = {}
  BY <1>3 DEF Running
<1>5. QED
  BY <1>2, <1>3, <1>4 DEF IInv, Accounting

\* stop() returns only when every task enqueue accepted has run to its end.
THEOREM PoolStopDrains == Spec => []StopDrains
  BY SpecIInv, JoinedIsDrained, PTL

\* No thread stays blocked in wait_all with nothing left to finish.
THEOREM PoolNoForgottenWaiter == Spec => []NoForgottenWaiter
<1>1. IInv => NoForgottenWaiter
  BY DEF IInv
<1>2. QED
  BY SpecIInv, <1>1, PTL

\* Idle, by its counters, is idle by its workers.
LEMMA AllDoneIsDone == IInv /\ AllDone => done = Accepted /\ Running = {}
<1> SUFFICES ASSUME IInv, AllDone
             PROVE  done = Accepted /\ Running = {}
  OBVIOUS
<1>1. Busy = {}
  BY BusyFinite DEF IInv, CountersExact, AllDone
<1>2. Running = {}
  BY <1>1 DEF Running
<1>3. QED
  BY <1>2 DEF IInv, Accounting, AllDone

\* wait_all returns only with every accepted task done.
THEOREM PoolWaitAll == Spec => WaitAllSeesAllDone
<1>1. IInv /\ [Next]_vars => [waiter # "returned" /\ waiter' = "returned" => done = Accepted]_vars
  <2> SUFFICES ASSUME IInv, Next, waiter # "returned", waiter' = "returned"
               PROVE  done = Accepted
    OBVIOUS
  <2>1. WaitAll
    BY DEF Next, Step, Accept, Refuse, NotifyOne, FoundNothing, Sleep, SpuriousWake, Leave,
           TakeNow, AwaitSlot, SlotGranted, SlotTimeout, Finish, Throw, RaiseStop, NotifyAll,
           Join, Goto, Take, TopOfEmpty
  <2>2. AllDone
    BY <2>1 DEF WaitAll
  <2>3. QED
    BY <2>2, AllDoneIsDone
<1>2. QED
  BY SpecIInv, <1>1, PTL DEF Spec, WaitAllSeesAllDone
-----------------------------------------------------------------------------
(* The refinement *)

\* Executor's Cardinality is the one of FiniteSets.
LEMMA SameCardinality == Exec!Cardinality(queue) = Cardinality(queue)
  BY DEF Exec!Cardinality, Cardinality

\* What a worker does when it takes a task is Start, from either place.
LEMMA TakeIsStart ==
  ASSUME IInv, NEW w \in Workers, pc[w] \in {"loop", "ioWait"}, Take(w)
  PROVE  \E t \in Tasks : Exec!Start(t)
<1> USE DEF IInv
<1>1. PICK t \in Tasks : /\ IsTop(t)
                        /\ queue' = queue \ {t}
                        /\ pc' = [pc EXCEPT ![w] = "busy"]
                        /\ current' = [current EXCEPT ![w] = t]
                        /\ UNCHANGED <<done, stopper>>
  BY DEF Take
<1>2. Busy' = Busy \cup {w} /\ w \notin Busy
  BY <1>1 DEF TypeOK, Busy
<1>3. Running' = Running \cup {t}
  <2>1. \A v \in Busy : current'[v] = current[v]
    BY <1>1, <1>2 DEF TypeOK, Busy
  <2>2. current'[w] = t
    BY <1>1 DEF TypeOK
  <2>3. QED
    BY <1>2, <2>1, <2>2 DEF Running
<1>4. QED
  BY <1>1, <1>3 DEF Exec!Start, IsTop, Phase

\* The block after task() is Complete of the task the worker held.
LEMMA FinishIsComplete ==
  ASSUME IInv, NEW w \in Workers, Finish(w)
  PROVE  \E t \in Tasks : Exec!Complete(t)
<1> USE DEF IInv, Finish, poolVars
<1>1. w \in Busy /\ current[w] \in Tasks /\ current[w] \in Running
  BY DEF TypeOK, Holding, Busy, Running
<1>2. Busy' = Busy \ {w}
  BY DEF TypeOK, Busy
<1>3. Running' = Running \ {current[w]}
  <2>1. \A v \in Busy \ {w} : current'[v] = current[v] /\ current[v] # current[w]
    BY <1>1 DEF TypeOK, Busy, Accounting
  <2>2. QED
    BY <1>1, <1>2, <2>1 DEF Running
<1>4. Exec!Complete(current[w])
  BY <1>1, <1>3 DEF Exec!Complete, Phase
<1>5. QED
  BY <1>1, <1>4

\* A worker that moves between two places that are not "busy" is not seen.
LEMMA GotoIsStutter ==
  ASSUME IInv, NEW w \in Workers, NEW where \in PCs,
         Goto(w, where), pc[w] # "busy", where # "busy"
  PROVE  UNCHANGED <<queue, Running, done, Phase>>
<1>1. Busy' = Busy
  BY DEF IInv, TypeOK, Busy, Goto
<1>2. QED
  BY <1>1, SameRunning DEF Goto, poolVars, Phase

\* Every step of a worker is a step of the executor or invisible to it.
LEMMA StepRefines ==
  ASSUME IInv, NEW w \in Workers, Step(w) \/ SpuriousWake(w) \/ Throw(w)
  PROVE  Exec!ENext \/ UNCHANGED <<queue, Running, done, Phase>>
<1>1. CASE Finish(w)
  BY <1>1, FinishIsComplete DEF Exec!ENext
<1>2. CASE Take(w) /\ pc[w] \in {"loop", "ioWait"}
  BY <1>2, TakeIsStart DEF Exec!ENext
<1>3. CASE TopOfEmpty \/ Throw(w)
  BY <1>3 DEF TopOfEmpty, Throw, poolVars, workVars, Running, Busy, Phase
<1>4. CASE pc[w] # "busy" /\ \E where \in PCs \ {"busy"} : Goto(w, where)
  BY <1>4, GotoIsStutter
<1>5. QED
  BY <1>1, <1>2, <1>3, <1>4
     DEF Step, FoundNothing, Sleep, SpuriousWake, Leave, TakeNow, AwaitSlot, SlotGranted,
         SlotTimeout, PCs

\* Every step of the pool is a step of the executor or invisible to it.
LEMMA NextRefines ==
  IInv /\ [Next]_vars => Exec!ENext \/ UNCHANGED <<queue, Running, done, Phase>>
<1> SUFFICES ASSUME IInv, [Next]_vars
             PROVE  Exec!ENext \/ UNCHANGED <<queue, Running, done, Phase>>
  OBVIOUS
<1>1. ASSUME NEW t \in Tasks, Accept(t) PROVE Exec!ENext
  <2>1. t \notin Accepted
    BY <1>1 DEF Accept, Accepted
  <2>2. Running' = Running /\ Phase = "open" /\ Phase' = "open"
    BY <1>1 DEF Accept, workVars, Running, Busy, Phase, Stopping
  <2>3. Exec!Submit(t)
    BY <1>1, <2>1, <2>2, SameCardinality DEF Accept, Room, Exec!Submit, IInv, Accounting, workVars
  <2>4. QED
    BY <2>3 DEF Exec!ENext
<1>2. ASSUME NEW t \in Tasks, Refuse(t) \/ NotifyOne(t)
      PROVE  UNCHANGED <<queue, Running, done, Phase>>
  <2>1. Busy' = Busy /\ current' = current
    BY <1>2 DEF IInv, TypeOK, Busy, Refuse, NotifyOne, workVars
  <2>2. QED
    BY <1>2, <2>1, SameRunning DEF Refuse, NotifyOne, workVars, Phase
<1>3. CASE RaiseStop \/ NotifyAll
  <2>1. Busy' = Busy /\ current' = current
    BY <1>3 DEF IInv, TypeOK, Busy, RaiseStop, NotifyAll, workVars
  <2>2. CASE RaiseStop
    <3>1. Phase = "open" /\ Phase' = "closing"
      BY <2>2 DEF RaiseStop, Phase
    <3>2. QED
      BY <2>1, <2>2, <3>1, SameRunning DEF RaiseStop, poolVars, workVars, Exec!BeginClose, Exec!ENext
  <2>3. CASE NotifyAll
    BY <2>1, <2>3, SameRunning DEF NotifyAll, poolVars, Phase
  <2>4. QED
    BY <1>3, <2>2, <2>3
<1>4. CASE Join
  <2>1. IInv'
    BY NextIInv
  <2>2. (StopDrains)'
    BY <2>1, JoinedIsDrained, PTL
  <2>3. queue = {} /\ Busy = {} /\ Running' = Running /\ done' = done /\ queue' = queue
    BY <1>4, <2>2 DEF Join, StopDrains, poolVars, workVars, Busy, Running
  <2>4. Running = {}
    BY <2>3 DEF Running
  <2>5. Phase = "closing" /\ Phase' = "closed"
    BY <1>4 DEF Join, Phase
  <2>6. QED
    BY <2>3, <2>4, <2>5 DEF Exec!EndClose, Exec!ENext
<1>5. CASE WaitAll \/ UNCHANGED vars
  BY <1>5 DEF WaitAll, poolVars, workVars, vars, Running, Busy, Phase
<1>6. QED
  BY <1>1, <1>2, <1>3, <1>4, <1>5, StepRefines DEF Next

\* The pool implements the executor: workers, locks, notifications, slots
\* and the order of the queue are invisible to its user.
THEOREM PoolImplementsExecutor == Spec => ImplementsExecutor
<1>1. Init => Exec!EInit
  BY DEF Init, Exec!EInit, Running, Busy, Phase
<1>2. IInv /\ [Next]_vars => [Exec!ENext]_(Exec!evars)
  BY NextRefines DEF Exec!evars
<1>3. QED
  BY SpecIInv, <1>1, <1>2, PTL DEF Spec, ImplementsExecutor, Exec!ESpec
=============================================================================
