---------------------------- MODULE RateLimiter ----------------------------
(***************************************************************************)
(* security::RateLimiter (src/src/security.cpp): at most MaxOperations     *)
(* grants in any Window.  try_acquire reads the clock twice under its      *)
(* mutex, once to drop what has left the window and once to stamp the      *)
(* grant, and time may pass in between.                                    *)
(***************************************************************************)
EXTENDS Naturals, Sequences

CONSTANTS Threads,        \* callers
          NoThread,
          MaxOperations,  \* m_max_operations
          Window,         \* m_window_seconds
          MaxClock        \* bound of the clock

ASSUME ThreadAssumption == NoThread \notin Threads
ASSUME LimitAssumption == MaxOperations \in Nat \ {0} /\ Window \in Nat /\ MaxClock \in Nat

VARIABLES clock,   \* steady_clock
          times,   \* when each grant since the last reset() was stamped
          first,   \* m_timestamps is times from here on
          holder,  \* the thread in try_acquire that holds m_mutex
          looked   \* the clock at its cleanup, and at the last one before

vars == <<clock, times, first, holder, looked>>

TypeOK == /\ clock \in Nat
          /\ times \in Seq(Nat)
          /\ first \in 1..(Len(times) + 1)
          /\ holder \in Threads \cup {NoThread}
          /\ looked \in Nat

Kept == Len(times) + 1 - first     \* m_timestamps.size()

\* Mutant of Expired: what has just reached the end of the window is dropped.
ExpiredOrDue(i, now) == times[i] + Window <= now
\* m_timestamps.front() < now - window
Expired(i, now) == times[i] + Window < now

Init == clock = 0 /\ times = <<>> /\ first = 1 /\ holder = NoThread /\ looked = 0
-----------------------------------------------------------------------------
Tick == /\ clock < MaxClock
        /\ clock' = clock + 1
        /\ UNCHANGED <<times, first, holder, looked>>

\* Mutant of Cleanup: nothing is ever dropped.
NoCleanup == looked' = clock /\ UNCHANGED <<clock, times, first>>

\* cleanup_old_entries: drops entries from the front while they are expired.
Cleanup == /\ looked' = clock
           /\ \E f \in first..(Len(times) + 1) :
                 /\ \A i \in first..(f - 1) : Expired(i, clock)
                 /\ f <= Len(times) => ~Expired(f, clock)
                 /\ first' = f
           /\ UNCHANGED <<clock, times>>

\* try_acquire: the lock and the cleanup.
Look(t) == /\ holder = NoThread
           /\ Cleanup
           /\ holder' = t

\* try_acquire returns true.
Grant(t) == /\ holder = t
            /\ Kept < MaxOperations
            /\ times' = Append(times, clock)
            /\ holder' = NoThread
            /\ UNCHANGED <<clock, first, looked>>

\* try_acquire returns false.
Refuse(t) == /\ holder = t
             /\ Kept >= MaxOperations
             /\ holder' = NoThread
             /\ UNCHANGED <<clock, times, first, looked>>

\* available() cleans up too.
Available == holder = NoThread /\ Cleanup /\ UNCHANGED holder

Reset == /\ holder = NoThread
         /\ times' = <<>>
         /\ first' = 1
         /\ UNCHANGED <<clock, holder, looked>>

Next == \/ Tick \/ Available \/ Reset
        \/ \E t \in Threads : Look(t) \/ Grant(t) \/ Refuse(t)

Spec == Init /\ [][Next]_vars
-----------------------------------------------------------------------------
(* Safety *)

\* Never more than MaxOperations grants within a Window, wherever it begins
\* and whatever time passed between the two readings of the clock.
WithinRate ==
    \A i \in 1..Len(times) :
       i + MaxOperations <= Len(times) => times[i + MaxOperations] - times[i] > Window

\* A call is refused only if, when it looked, the window was really full.
RefusesOnlyWhenFull ==
    [][\A t \in Threads : Refuse(t) =>
          /\ Len(times) >= MaxOperations
          /\ looked - times[Len(times) + 1 - MaxOperations] <= Window]_vars
=============================================================================
