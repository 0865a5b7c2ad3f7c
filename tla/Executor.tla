------------------------------ MODULE Executor ------------------------------
(***************************************************************************)
(* What the daemon expects of its thread pool (class ThreadPool, src/      *)
(* threadpool.h), without threads, locks or condition variables: a task is *)
(* accepted while the executor is open and has room, runs at most once,    *)
(* and the executor is closed only when nothing it accepted is left.       *)
(* ThreadPool.tla implements this module.                                  *)
(***************************************************************************)
EXTENDS Naturals, FiniteSets

CONSTANTS Tasks,      \* the closures handed to enqueue
          Capacity    \* the most that may be pending at once

VARIABLES pending,    \* accepted, not started
          running,    \* being executed
          finished,   \* executed to the end
          phase       \* "open", "closing" or "closed"

evars == <<pending, running, finished, phase>>

EInit == /\ pending = {}
         /\ running = {}
         /\ finished = {}
         /\ phase = "open"

Submit(t) == /\ phase = "open"
             /\ t \notin pending \cup running \cup finished
             /\ Cardinality(pending) < Capacity
             /\ pending' = pending \cup {t}
             /\ UNCHANGED <<running, finished, phase>>

Start(t) == /\ t \in pending
            /\ pending' = pending \ {t}
            /\ running' = running \cup {t}
            /\ UNCHANGED <<finished, phase>>

Complete(t) == /\ t \in running
               /\ running' = running \ {t}
               /\ finished' = finished \cup {t}
               /\ UNCHANGED <<pending, phase>>

BeginClose == /\ phase = "open"
              /\ phase' = "closing"
              /\ UNCHANGED <<pending, running, finished>>

EndClose == /\ phase = "closing"
            /\ pending = {}
            /\ running = {}
            /\ phase' = "closed"
            /\ UNCHANGED <<pending, running, finished>>

ENext == \/ \E t \in Tasks : Submit(t) \/ Start(t) \/ Complete(t)
         \/ BeginClose
         \/ EndClose

ESpec == EInit /\ [][ENext]_evars
=============================================================================
