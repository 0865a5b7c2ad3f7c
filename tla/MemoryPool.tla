----------------------------- MODULE MemoryPool -----------------------------
(***************************************************************************)
(* class MemoryPool (src/src/memory_pool.h) behind buffer_pool(): buffers  *)
(* for reading files, kept in a cache per thread (thread_local), in a      *)
(* global list under mutex_, and tracked in allocated_set_.                *)
(*                                                                         *)
(* Grain of atomicity.  A critical section is one step; the cache of a     *)
(* thread is its own, so what the thread does to it may join that step.    *)
(* aligned_free locks mutex_: where the code calls it with mutex_ already  *)
(* held, the thread waits for itself and keeps the mutex for ever          *)
(* ("stuck").  The caches and the list are sets: buffers are alike.  The   *)
(* pool of the daemon has no NUMA node (compressor.cpp:43).                *)
(***************************************************************************)
EXTENDS Naturals, FiniteSets

CONSTANTS Threads,      \* threads that use the pool
          Buffers,      \* addresses malloc can return
          Hold,         \* how many buffers each thread takes before it returns one
          CacheSize,    \* THREAD_CACHE_SIZE
          MaxPoolSize,  \* max_pool_size_
          KeepCount     \* argument of shrink

ASSUME ThreadsAssumption == IsFiniteSet(Threads)
ASSUME BuffersAssumption == IsFiniteSet(Buffers)
ASSUME HoldAssumption == Hold \in [Threads -> Nat]
ASSUME SizesAssumption == CacheSize \in Nat \ {0} /\ MaxPoolSize \in Nat /\ KeepCount \in Nat

VARIABLES pool,     \* the static object: not constructed yet, open, or being destroyed
          thread,   \* what each thread is doing
          held,     \* buffers in the hands of each thread's task
          cache,    \* get_thread_cache() of each thread
          free,     \* free_buffers_
          tracked,  \* allocated_set_
          live,     \* memory that has not been given back to malloc
          lost      \* live memory nobody points to any more

vars == <<pool, thread, held, cache, free, tracked, live, lost>>

TypeOK == /\ pool \in {"none", "open", "destroyed", "hung"}
          /\ thread \in [Threads -> {"run", "stuck", "gone"}]
          /\ held \in [Threads -> SUBSET Buffers]
          /\ cache \in [Threads -> SUBSET Buffers]
          /\ free \in SUBSET Buffers
          /\ tracked \in SUBSET Buffers
          /\ live \in SUBSET Buffers
          /\ lost \in SUBSET Buffers

Unlocked == pool # "hung" /\ \A t \in Threads : thread[t] # "stuck"

CacheIsFull(t) == Cardinality(cache[t]) >= CacheSize

Init == /\ pool = "none"
        /\ thread = [t \in Threads |-> "run"]
        /\ held = [t \in Threads |-> {}]
        /\ cache = [t \in Threads |-> {}]
        /\ free = {}
        /\ tracked = {}
        /\ live = {}
        /\ lost = {}
-----------------------------------------------------------------------------
\* The first call of buffer_pool().  The loop that preallocates buffers takes
\* the one it has just returned out of the caller's cache again: one buffer.
Construct(t, b) == /\ pool = "none"
                   /\ thread[t] = "run"
                   /\ pool' = "open"
                   /\ live' = {b}
                   /\ cache' = [cache EXCEPT ![t] = {b}]
                   /\ UNCHANGED <<thread, held, free, tracked, lost>>

\* A task of t may ask for a(nother) buffer.
Asks(t) == /\ pool = "open"
           /\ thread[t] = "run"
           /\ Cardinality(held[t]) < Hold[t]

AllocateCached(t, b) == /\ Asks(t)
                        /\ b \in cache[t]
                        /\ cache' = [cache EXCEPT ![t] = @ \ {b}]
                        /\ held' = [held EXCEPT ![t] = @ \cup {b}]
                        /\ UNCHANGED <<pool, thread, free, tracked, live, lost>>

\* Mutant of AllocateFree: without free_buffers_.pop().
AllocateUnpopped(t, b) == /\ Asks(t)
                          /\ cache[t] = {}
                          /\ Unlocked
                          /\ b \in free
                          /\ held' = [held EXCEPT ![t] = @ \cup {b}]
                          /\ UNCHANGED <<pool, thread, cache, free, tracked, live, lost>>

\* A buffer from the list does not go back into allocated_set_.
AllocateFree(t, b) == /\ Asks(t)
                      /\ cache[t] = {}
                      /\ Unlocked
                      /\ b \in free
                      /\ free' = free \ {b}
                      /\ held' = [held EXCEPT ![t] = @ \cup {b}]
                      /\ UNCHANGED <<pool, thread, cache, tracked, live, lost>>

\* Mutant of AllocateNew: it does not look into the caller's cache first.
AllocatePastTheCache(t, b) == /\ Asks(t)
                              /\ Unlocked
                              /\ free = {}
                              /\ b \notin live
                              /\ live' = live \cup {b}
                              /\ tracked' = tracked \cup {b}
                              /\ held' = [held EXCEPT ![t] = @ \cup {b}]
                              /\ UNCHANGED <<pool, thread, cache, free, lost>>

AllocateNew(t, b) == /\ Asks(t)
                     /\ cache[t] = {}
                     /\ Unlocked
                     /\ free = {}
                     /\ b \notin live
                     /\ live' = live \cup {b}
                     /\ tracked' = tracked \cup {b}
                     /\ held' = [held EXCEPT ![t] = @ \cup {b}]
                     /\ UNCHANGED <<pool, thread, cache, free, lost>>
-----------------------------------------------------------------------------
\* Mutant of ReleaseToCache: the buffer stays in allocated_set_.
ReleaseTracked(t, b) == /\ b \in held[t]
                        /\ thread[t] = "run"
                        /\ ~CacheIsFull(t)
                        /\ Unlocked
                        /\ held' = [held EXCEPT ![t] = @ \ {b}]
                        /\ cache' = [cache EXCEPT ![t] = @ \cup {b}]
                        /\ UNCHANGED <<pool, thread, free, tracked, live, lost>>

ReleaseToCache(t, b) == /\ b \in held[t]
                        /\ thread[t] = "run"
                        /\ ~CacheIsFull(t)
                        /\ Unlocked
                        /\ tracked' = tracked \ {b}
                        /\ held' = [held EXCEPT ![t] = @ \ {b}]
                        /\ cache' = [cache EXCEPT ![t] = @ \cup {b}]
                        /\ UNCHANGED <<pool, thread, free, live, lost>>

\* With the cache full.  aligned_free is called under the mutex it locks; a
\* buffer that came from a cache or the list is taken for a double free.
ReleaseToPool(t, b) ==
    /\ b \in held[t]
    /\ thread[t] = "run"
    /\ CacheIsFull(t)
    /\ Unlocked
    /\ \/ /\ Cardinality(free) >= MaxPoolSize
          /\ thread' = [thread EXCEPT ![t] = "stuck"]
          /\ UNCHANGED <<held, free, tracked, lost>>
       \/ /\ Cardinality(free) < MaxPoolSize
          /\ held' = [held EXCEPT ![t] = @ \ {b}]
          /\ tracked' = tracked \ {b}
          /\ IF b \in tracked THEN free' = free \cup {b} /\ lost' = lost
                              ELSE lost' = lost \cup {b} /\ free' = free
          /\ UNCHANGED thread
    /\ UNCHANGED <<pool, cache, live>>

\* compress_task returns without release_raw: the file was truncated while it
\* was read, or an exception came before the release.
Lose(t, b) == /\ thread[t] = "run"
              /\ b \in held[t]
              /\ held' = [held EXCEPT ![t] = @ \ {b}]
              /\ lost' = lost \cup {b}
              /\ UNCHANGED <<pool, thread, cache, free, tracked, live>>

\* shrink(KeepCount): more than KeepCount free buffers, and it frees one under
\* the mutex.
Shrink(t) == /\ pool = "open"
             /\ thread[t] = "run"
             /\ Unlocked
             /\ Cardinality(free) > KeepCount
             /\ thread' = [thread EXCEPT ![t] = "stuck"]
             /\ UNCHANGED <<pool, held, cache, free, tracked, live, lost>>
-----------------------------------------------------------------------------
\* A worker ends, by way of cleanup_thread_cache() or (after the wait for an
\* I/O slot, and for a thread that is no worker) without it.
Exit(t) == /\ thread[t] = "run"
           /\ held[t] = {}
           /\ thread' = [thread EXCEPT ![t] = "gone"]
           /\ cache' = [cache EXCEPT ![t] = {}]
           /\ \/ live' = live \ cache[t] /\ lost' = lost
              \/ lost' = lost \cup cache[t] /\ live' = live
           /\ UNCHANGED <<pool, held, free, tracked>>

\* ~MemoryPool, when main returns: the first buffer it frees, it frees under
\* the mutex.
Destroy == /\ pool = "open"
           /\ \A t \in Threads : thread[t] = "gone"
           /\ pool' = IF free = {} /\ tracked = {} THEN "destroyed" ELSE "hung"
           /\ UNCHANGED <<thread, held, cache, free, tracked, live, lost>>
-----------------------------------------------------------------------------
Next == \/ \E t \in Threads, b \in Buffers :
              \/ Construct(t, b)
              \/ AllocateCached(t, b) \/ AllocateFree(t, b) \/ AllocateNew(t, b)
              \/ ReleaseToCache(t, b) \/ ReleaseToPool(t, b)
              \/ Lose(t, b)
        \/ \E t \in Threads : Shrink(t) \/ Exit(t)
        \/ Destroy

Spec == Init /\ [][Next]_vars
-----------------------------------------------------------------------------
(* Safety *)

\* What a thread points to, through its task or through its cache.
Mine(t) == held[t] \cup cache[t]

\* A buffer has one owner: a task, a cache or the list.  Two files are never
\* read into the same memory, what is handed out has not been freed, and what
\* has leaked is not handed out again.
NoSharing ==
    /\ \A t, u \in Threads : t # u => Mine(t) \cap Mine(u) = {}
    /\ \A t \in Threads : /\ held[t] \cap cache[t] = {}
                          /\ Mine(t) \cap (free \cup lost) = {}
                          /\ Mine(t) \subseteq live
    /\ free \cap lost = {}
    /\ free \cup lost \subseteq live

\* allocated_set_ holds buffers that are out, or were lost while they were:
\* never one of a cache or of the list, which the destructor and
\* cleanup_thread_cache would both free.
TrackedIsOut == \A b \in tracked : b \in lost \/ \E t \in Threads : b \in held[t]

\* A thread that holds one buffer at a time (every worker of the daemon) has
\* one buffer for all its life: its cache never fills, so it never reaches
\* the list, the false double free or the free under the mutex.
OneBufferPerWorker ==
    \A t \in Threads : Hold[t] = 1 =>
       Cardinality(held[t]) + Cardinality(cache[t]) <= 1

\* The exit hangs in the destructor over a new buffer that a task lost, or over
\* the list, to which only a thread that takes more at once than its cache
\* holds brings any: in the daemon, over a loss.
HangsByLossOnly ==
    pool = "hung" => \/ tracked \cap lost # {}
                     \/ free # {} /\ \E t \in Threads : Hold[t] > CacheSize
=============================================================================
