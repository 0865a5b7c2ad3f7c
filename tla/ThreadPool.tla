----------------------------- MODULE ThreadPool -----------------------------
(***************************************************************************)
(* class ThreadPool (src/src/threadpool.h): a bounded priority queue of    *)
(* tasks, worker threads that sleep on `condition`, an optional limit of   *)
(* I/O slots that workers await with a 5 s timeout, wait_all and stop.     *)
(*                                                                         *)
(* Grain of atomicity.  Everything done under queue_mutex is one step,     *)
(* with one exception: a worker whose predicate was false still holds the  *)
(* mutex until condition.wait has put it to sleep (pc "checked"), because  *)
(* stop_internal sets stop_flag and notifies WITHOUT the mutex and can run *)
(* in that window.  notify_one in enqueue is a step of its own, after the  *)
(* mutex has been released.  A thread woken on `condition` is back at      *)
(* "loop": it has to take the mutex and look again.                        *)
(***************************************************************************)
EXTENDS Integers, FiniteSets

CONSTANTS Workers,       \* threads of the pool
          Tasks,         \* every closure any caller ever enqueues
          Priority,      \* TaskPriority of each task: 0 LOW, 1 NORMAL, 2 HIGH
          MaxQueueSize,  \* max_queue_size
          MaxActiveIOs,  \* m_max_active_ios, 0 = no limit
          SizeMod,       \* 2^64 of size_t; smaller in model checking
          MayThrow,      \* tasks that may leave by an exception
          NoTask         \* no closure

ASSUME WorkersAssumption == Workers # {} /\ IsFiniteSet(Workers)
ASSUME TasksAssumption == IsFiniteSet(Tasks) /\ NoTask \notin Tasks
ASSUME PriorityAssumption == Priority \in [Tasks -> 0..2]
ASSUME LimitsAssumption == /\ MaxQueueSize \in Nat
                           /\ MaxActiveIOs \in Nat
                           /\ SizeMod \in Nat
                           /\ MaxActiveIOs < SizeMod
                           /\ Cardinality(Workers) + MaxActiveIOs < SizeMod
ASSUME ThrowAssumption == MayThrow \subseteq Tasks

VARIABLES queue,      \* tasks
          stamp,      \* PrioritizedTask::enqueue_time, 0 = never accepted
          clock,      \* steady_clock at the last acceptance
          refused,    \* tasks whose enqueue returned false
          notifying,  \* pushed tasks whose notify_one has not run yet
          pc,         \* where each worker is
          current,    \* the closure each worker has taken
          done,       \* closures that ran to the end
          active,     \* active_tasks
          slots,      \* io_slots_available
          stopper,    \* progress of the stop() that won the CAS on `stopped`
          waiter,     \* a caller of wait_all
          fate        \* of the process: a std::terminate, or a top() of an empty queue

poolVars == <<queue, stamp, clock, refused, notifying>>
workVars == <<pc, current, done, active, slots>>
vars == <<queue, stamp, clock, refused, notifying, pc, current, done, active,
          slots, stopper, waiter, fate>>

PCs == {"loop", "checked", "waiting", "ioWait", "busy", "exited", "leaked"}
Gone == {"exited", "leaked"}

TypeOK == /\ queue \in SUBSET Tasks
          /\ stamp \in [Tasks -> Nat]
          /\ clock \in Nat
          /\ refused \in SUBSET Tasks
          /\ notifying \in SUBSET Tasks
          /\ pc \in [Workers -> PCs]
          /\ current \in [Workers -> Tasks \cup {NoTask}]
          /\ done \in SUBSET Tasks
          /\ active \in Nat
          /\ slots \in Nat
          /\ stopper \in {"idle", "flagged", "notified", "joined"}
          /\ waiter \in {"off", "blocked", "woken", "returned"}
          /\ fate \in {"alive", "terminated", "undefined"}
-----------------------------------------------------------------------------
Limited == MaxActiveIOs > 0
Stopping == stopper # "idle"                    \* stop_flag
MutexFree == fate = "alive" /\ \A w \in Workers : pc[w] # "checked"

Busy == {w \in Workers : pc[w] = "busy"}
Running == {current[w] : w \in Busy}
Accepted == {t \in Tasks : stamp[t] > 0}

\* Mutant of Before: the comparison of enqueue_time turned round.
LastInFirstOut(a, b) == \/ Priority[a] > Priority[b]
                        \/ Priority[a] = Priority[b] /\ stamp[a] > stamp[b]

\* !(b < a): a leaves the queue before b.
Before(a, b) == \/ Priority[a] > Priority[b]
                \/ Priority[a] = Priority[b] /\ stamp[a] < stamp[b]
IsTop(t) == t \in queue /\ \A u \in queue \ {t} : Before(t, u)

\* Mutants: > for >= in the bound; predicates that forget one of their terms.
RoomForOneMore == Cardinality(queue) <= MaxQueueSize
WakeUpForTasksOnly == queue # {}
ExitOnStop == Stopping
AnySlot == TRUE

Room == Cardinality(queue) < MaxQueueSize
WakeUp == Stopping \/ queue # {}                \* predicate of `condition`
MayExit == Stopping /\ queue = {}
SlotOrStop == ~Limited \/ slots > 0 \/ Stopping \* predicate of io_slot_available
AllDone == queue = {} /\ active = 0             \* predicate of wait_all

\* --io_slots_available and ++io_slots_available, on a size_t.
SlotsAfterTake == IF Limited THEN (slots - 1) % SizeMod ELSE slots
SlotsAfterFinish == IF Limited THEN (slots + 1) % SizeMod ELSE slots

Init == /\ queue = {}
        /\ stamp = [t \in Tasks |-> 0]
        /\ clock = 0
        /\ refused = {}
        /\ notifying = {}
        /\ pc = [w \in Workers |-> "loop"]
        /\ current = [w \in Workers |-> NoTask]
        /\ done = {}
        /\ active = 0
        /\ slots = IF Limited THEN MaxActiveIOs ELSE SizeMod - 1
        /\ stopper = "idle"
        /\ waiter = "off"
        /\ fate = "alive"
-----------------------------------------------------------------------------
\* enqueue.  Two acceptances are further apart than a tick of steady_clock,
\* so enqueue_time orders the tasks as they were accepted.
Accept(t) == /\ MutexFree
             /\ stamp[t] = 0
             /\ t \notin refused
             /\ ~Stopping
             /\ Room
             /\ queue' = queue \cup {t}
             /\ clock' = clock + 1
             /\ stamp' = [stamp EXCEPT ![t] = clock + 1]
             /\ notifying' = notifying \cup {t}
             /\ UNCHANGED <<refused, workVars, stopper, waiter, fate>>

Refuse(t) == /\ MutexFree
             /\ stamp[t] = 0
             /\ t \notin refused
             /\ Stopping \/ ~Room
             /\ refused' = refused \cup {t}
             /\ UNCHANGED <<queue, stamp, clock, notifying, workVars, stopper, waiter, fate>>

\* Mutant of NotifyOne: it notifies a condition variable nobody waits on.
NotifyNobody(t) ==
    /\ fate = "alive"
    /\ t \in notifying
    /\ notifying' = notifying \ {t}
    /\ UNCHANGED <<queue, stamp, clock, refused, workVars, stopper, waiter, fate>>

\* condition.notify_one() wakes some sleeping worker, if there is one.
NotifyOne(t) ==
    /\ fate = "alive"
    /\ t \in notifying
    /\ notifying' = notifying \ {t}
    /\ \/ \E w \in Workers : /\ pc[w] = "waiting"
                             /\ pc' = [pc EXCEPT ![w] = "loop"]
       \/ /\ \A w \in Workers : pc[w] # "waiting"
          /\ pc' = pc
    /\ UNCHANGED <<queue, stamp, clock, refused, current, done, active, slots,
                   stopper, waiter, fate>>
-----------------------------------------------------------------------------
\* A worker moves its program counter and changes nothing else.
Goto(w, where) == /\ pc' = [pc EXCEPT ![w] = where]
                  /\ UNCHANGED <<poolVars, current, done, active, slots, stopper, waiter, fate>>

\* Mutant of Take: without tasks.pop().
TakeWithoutPop(w) == \E t \in Tasks :
             /\ IsTop(t)
             /\ pc' = [pc EXCEPT ![w] = "busy"]
             /\ current' = [current EXCEPT ![w] = t]
             /\ active' = active + 1
             /\ slots' = SlotsAfterTake
             /\ UNCHANGED <<poolVars, done, stopper, waiter, fate>>

Take(w) == \E t \in Tasks :
             /\ IsTop(t)
             /\ queue' = queue \ {t}
             /\ pc' = [pc EXCEPT ![w] = "busy"]
             /\ current' = [current EXCEPT ![w] = t]
             /\ active' = active + 1
             /\ slots' = SlotsAfterTake
             /\ UNCHANGED <<stamp, clock, refused, notifying, done, stopper, waiter, fate>>

\* tasks.top() of an empty priority_queue: undefined behaviour, after which
\* nothing can be said of the program, so the model stops there.
TopOfEmpty == /\ fate' = "undefined"
              /\ UNCHANGED <<poolVars, workVars, stopper, waiter>>

FoundNothing(w) == pc[w] = "loop" /\ MutexFree /\ ~WakeUp /\ Goto(w, "checked")

Sleep(w) == fate = "alive" /\ pc[w] = "checked" /\ Goto(w, "waiting")

SpuriousWake(w) == fate = "alive" /\ pc[w] = "waiting" /\ Goto(w, "loop")

Leave(w) == pc[w] = "loop" /\ MutexFree /\ MayExit /\ Goto(w, "exited")

TakeNow(w) == /\ pc[w] = "loop"
              /\ MutexFree
              /\ queue # {}
              /\ SlotOrStop
              /\ Take(w)

AwaitSlot(w) == /\ pc[w] = "loop"
                /\ MutexFree
                /\ queue # {}
                /\ ~SlotOrStop
                /\ Goto(w, "ioWait")

\* wait_for released the mutex: by now another worker may have taken the task.
SlotGranted(w) == /\ pc[w] = "ioWait"
                  /\ MutexFree
                  /\ SlotOrStop
                  /\ \/ MayExit /\ Goto(w, "leaked")   \* return without cleanup_thread_cache()
                     \/ ~MayExit /\ queue = {} /\ TopOfEmpty
                     \/ Take(w)

\* The task is popped and pushed back with its old priority and time: the
\* queue is what it was.
SlotTimeout(w) == /\ pc[w] = "ioWait"
                  /\ MutexFree
                  /\ ~SlotOrStop
                  /\ \/ queue # {} /\ Goto(w, "loop")
                     \/ queue = {} /\ TopOfEmpty

\* Mutant of Finish: without task_done.notify_all().
FinishQuietly(w) == /\ pc[w] = "busy"
                    /\ MutexFree
                    /\ pc' = [pc EXCEPT ![w] = "loop"]
                    /\ current' = [current EXCEPT ![w] = NoTask]
                    /\ done' = done \cup {current[w]}
                    /\ active' = active - 1
                    /\ slots' = SlotsAfterFinish
                    /\ UNCHANGED <<poolVars, stopper, waiter, fate>>

Finish(w) == /\ pc[w] = "busy"
             /\ MutexFree
             /\ pc' = [pc EXCEPT ![w] = "loop"]
             /\ current' = [current EXCEPT ![w] = NoTask]
             /\ done' = done \cup {current[w]}
             /\ active' = active - 1
             /\ slots' = SlotsAfterFinish
             /\ waiter' = IF waiter = "blocked" THEN "woken" ELSE waiter  \* task_done.notify_all
             /\ UNCHANGED <<poolVars, stopper, fate>>

\* Nothing catches what a task throws: it leaves the thread function.
Throw(w) == /\ fate = "alive"
            /\ pc[w] = "busy"
            /\ current[w] \in MayThrow
            /\ fate' = "terminated"
            /\ UNCHANGED <<poolVars, workVars, stopper, waiter>>
-----------------------------------------------------------------------------
\* stop(): stop_internal of the caller that set `stopped`.
RaiseStop == /\ fate = "alive"
             /\ stopper = "idle"
             /\ stopper' = "flagged"
             /\ UNCHANGED <<poolVars, workVars, waiter, fate>>

NotifyAll == /\ fate = "alive"
             /\ stopper = "flagged"
             /\ stopper' = "notified"
             /\ pc' = [w \in Workers |-> IF pc[w] = "waiting" THEN "loop" ELSE pc[w]]
             /\ UNCHANGED <<poolVars, current, done, active, slots, waiter, fate>>

Join == /\ fate = "alive"
        /\ stopper = "notified"
        /\ \A w \in Workers : pc[w] \in Gone
        /\ stopper' = "joined"
        /\ UNCHANGED <<poolVars, workVars, waiter, fate>>

\* wait_all(): the first look at the predicate and every later one.
WaitAll == /\ MutexFree
           /\ waiter \in {"off", "woken"}
           /\ waiter' = IF AllDone THEN "returned" ELSE "blocked"
           /\ UNCHANGED <<poolVars, workVars, stopper, fate>>
-----------------------------------------------------------------------------
\* What a worker thread does when it is scheduled and gets the mutex.
Step(w) == \/ FoundNothing(w) \/ Sleep(w) \/ Leave(w)
           \/ TakeNow(w) \/ AwaitSlot(w) \/ SlotGranted(w) \/ SlotTimeout(w)
           \/ Finish(w)

Next == \/ \E t \in Tasks : Accept(t) \/ Refuse(t) \/ NotifyOne(t)
        \/ \E w \in Workers : Step(w) \/ SpuriousWake(w) \/ Throw(w)
        \/ RaiseStop \/ NotifyAll \/ Join \/ WaitAll

Spec == Init /\ [][Next]_vars

\* Every thread is scheduled, and a thread that keeps asking for the mutex
\* gets it (strong fairness: others may take it in between).  Nobody has to
\* enqueue, to stop, to call wait_all or to be woken spuriously.
Fairness == /\ \A w \in Workers : SF_vars(Step(w))
            /\ \A t \in Tasks : WF_vars(NotifyOne(t))
            /\ WF_vars(NotifyAll)
            /\ WF_vars(Join)
            /\ SF_vars(waiter = "woken" /\ WaitAll)

FairSpec == Spec /\ Fairness
-----------------------------------------------------------------------------
(* Safety *)

\* Exactly once: a task is in the queue, or held by one worker, or done, from
\* the moment enqueue returns true; never lost by a move out of top(), never
\* taken by two workers.
Accounting == /\ queue \cup Running \cup done = Accepted
              /\ queue \cap done = {}
              /\ Running \cap (queue \cup done) = {}
              /\ \A v, w \in Busy : current[v] = current[w] => v = w

CountersExact == /\ active = Cardinality(Busy)
                 /\ Limited => (slots + active) % SizeMod = MaxActiveIOs

IOLimitBeforeStop == Limited /\ ~Stopping => Cardinality(Busy) <= MaxActiveIOs

\* active_tasks counts the running tasks, io_slots_available is what the limit
\* leaves over, even while it has wrapped below zero during a stop, and
\* max_active_ios is respected for as long as stop() has not been called.
IOAccounting == CountersExact /\ IOLimitBeforeStop

\* No wakeup of enqueue is lost: with a task queued and no notify_one on its
\* way, some worker is awake, or waits for a slot (which times out).
NoStrandedTask == queue # {} /\ notifying = {} =>
                    \E w \in Workers : pc[w] \in {"loop", "ioWait", "busy"}

\* Within a priority tasks are started in the order they were accepted,
\* whatever the workers, the slots and the requeueing did in between.
FifoWithinPriority ==
    \A t, u \in Accepted : /\ Priority[t] = Priority[u]
                           /\ stamp[t] < stamp[u]
                           /\ t \in queue
                           => u \in queue

\* stop() returns only when every task enqueue ever accepted has run.
StopDrains == stopper = "joined" => queue = {} /\ Busy = {} /\ done = Accepted

\* A thread blocked in wait_all has something left to wait for: the
\* notification of the last task cannot pass it by.
NoForgottenWaiter == waiter = "blocked" => queue # {} \/ Busy # {}

\* wait_all returns in a step in which every accepted task is done.
WaitAllSeesAllDone ==
    [][waiter # "returned" /\ waiter' = "returned" => done = Accepted]_vars

\* The pool implements the executor.
Phase == IF stopper = "idle" THEN "open"
         ELSE IF stopper = "joined" THEN "closed" ELSE "closing"
Exec == INSTANCE Executor WITH pending <- queue, running <- Running,
                               finished <- done, phase <- Phase,
                               Capacity <- MaxQueueSize
ImplementsExecutor == Exec!ESpec
-----------------------------------------------------------------------------
(* Liveness, as long as the process lives: a task that throws, and the top() *)
(* of an empty queue, end it.                                              *)

\* Every accepted task is executed, even across a stop(), and however often
\* it is put back for want of an I/O slot.
AcceptedFinishes == \A t \in Tasks : t \in queue ~> (t \in done \/ fate # "alive")

\* wait_all returns.
WaitAllReturns == waiter = "blocked" ~> (waiter = "returned" \/ fate # "alive")

\* stop() returns if no worker is asleep, or about to be, when the
\* notifications have been sent: the window between a worker's look at its
\* predicate and its sleep is the only way for stop() to hang.
StopReturnsUnlessAsleep ==
    (stopper = "notified" /\ \A w \in Workers : pc[w] \notin {"checked", "waiting"})
        ~> (stopper = "joined" \/ fate # "alive")
-----------------------------------------------------------------------------
(* What comments and tests say, and the code does not do *)

\* "the worker must finish, because stop_flag is set and notify_all called"
\* (the comment on join in stop_internal).
StopReturns == stopper = "flagged" ~> stopper = "joined"
=============================================================================
