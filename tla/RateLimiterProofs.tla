------------------------- MODULE RateLimiterProofs -------------------------
(***************************************************************************)
(* The window of RateLimiter for every limit, window and set of callers.   *)
(***************************************************************************)
EXTENDS RateLimiter, TLAPS

\* Grants are stamped in order, none in the future.
Ordered == /\ \A i, j \in 1..Len(times) : i <= j => times[i] <= times[j]
           /\ \A i \in 1..Len(times) : times[i] <= clock
           /\ looked <= clock

\* What has been dropped had left the window at the last cleanup.
DroppedAreOld == \A i \in 1..Len(times) : i < first => times[i] + Window < looked

\* What is kept by a caller about to decide was in the window when it looked.
KeptAreRecent == holder # NoThread =>
                   \A i \in 1..Len(times) : i >= first => times[i] + Window >= looked

IInv == TypeOK /\ Ordered /\ DroppedAreOld /\ KeptAreRecent /\ WithinRate
-----------------------------------------------------------------------------
LEMMA InitIInv == Init => IInv
BY LimitAssumption DEF Init, IInv, TypeOK, Ordered, DroppedAreOld, KeptAreRecent, WithinRate

\* A cleanup keeps the window's bounds, whoever calls it.
LEMMA CleanupPreserves ==
  ASSUME IInv, Cleanup
  PROVE  /\ first' \in 1..(Len(times') + 1)
         /\ looked' \in Nat
         /\ Ordered'
         /\ DroppedAreOld'
         /\ \A i \in 1..Len(times) : i >= first' => times[i] + Window >= looked'
<1> USE LimitAssumption DEF IInv, Cleanup
<1>1. PICK f \in first..(Len(times) + 1) :
          /\ \A i \in first..(f - 1) : Expired(i, clock)
          /\ f <= Len(times) => ~Expired(f, clock)
          /\ first' = f
  OBVIOUS
<1>2. Len(times) \in Nat /\ first \in 1..(Len(times) + 1) /\ f \in 1..(Len(times) + 1)
  BY DEF TypeOK
<1>3. \A i \in 1..Len(times) : times[i] \in Nat
  BY DEF TypeOK
<1>4. clock \in Nat /\ looked \in Nat /\ looked <= clock
  BY DEF TypeOK, Ordered
<1>5. first' \in 1..(Len(times') + 1) /\ looked' \in Nat
  BY <1>1, <1>2, <1>4
<1>6. Ordered'
  BY <1>4 DEF Ordered
<1>7. DroppedAreOld'
  <2> SUFFICES ASSUME NEW i \in 1..Len(times), i < f
               PROVE  times[i] + Window < clock
    BY <1>1 DEF DroppedAreOld
  <2>1. CASE i < first
    BY <2>1, <1>3, <1>4 DEF DroppedAreOld
  <2>2. CASE i >= first
    <3>1. i \in first..(f - 1)
      BY <2>2, <1>2
    <3> QED
      BY <3>1, <1>1 DEF Expired
  <2> QED
    BY <2>1, <2>2, <1>2
<1>8. \A i \in 1..Len(times) : i >= first' => times[i] + Window >= looked'
  <2> SUFFICES ASSUME NEW i \in 1..Len(times), i >= f
               PROVE  times[i] + Window >= clock
    BY <1>1
  <2>1. f \in 1..Len(times)
    BY <1>2
  <2>2. times[f] + Window >= clock
    BY <1>1, <1>3, <1>4, <2>1 DEF Expired
  <2>3. times[f] <= times[i]
    BY <2>1 DEF Ordered
  <2> QED
    BY <1>3, <1>4, <2>1, <2>2, <2>3
<1> QED
  BY <1>5, <1>6, <1>7, <1>8

\* The entry MaxOperations before a new grant has been dropped, so it is old.
LEMMA GrantPreserves ==
  ASSUME IInv, NEW t \in Threads, Grant(t)
  PROVE  IInv'
<1> USE LimitAssumption, ThreadAssumption DEF IInv, Grant
<1> DEFINE n == Len(times)
<1>1. /\ n \in Nat /\ first \in 1..(n + 1) /\ clock \in Nat /\ looked \in Nat
      /\ \A i \in 1..n : times[i] \in Nat
  BY DEF TypeOK
<1>2. /\ Len(times') = n + 1
      /\ times'[n + 1] = clock
      /\ \A i \in 1..n : times'[i] = times[i]
  BY DEF TypeOK
<1>3. TypeOK'
  BY <1>1, <1>2 DEF TypeOK
<1>4. Ordered'
  BY <1>1, <1>2 DEF Ordered
<1>5. DroppedAreOld'
  <2>1. \A i \in 1..(n + 1) : i < first => i \in 1..n
    BY <1>1
  <2> QED
    BY <1>1, <1>2, <2>1 DEF DroppedAreOld
<1>6. KeptAreRecent'
  BY DEF KeptAreRecent
<1>7. WithinRate'
  <2> SUFFICES ASSUME NEW i \in 1..(n + 1), i + MaxOperations <= n + 1
               PROVE  times'[i + MaxOperations] - times'[i] > Window
    BY <1>2 DEF WithinRate
  <2>1. i \in 1..n
    BY <1>1
  <2>2. CASE i + MaxOperations <= n
    <3>1. i + MaxOperations \in 1..n
      BY <2>1, <2>2, <1>1
    <3> QED
      BY <2>1, <2>2, <3>1, <1>2 DEF WithinRate
  <2>3. CASE i + MaxOperations = n + 1
    <3>1. i < first
      BY <1>1, <2>3 DEF Kept
    <3>2. times[i] + Window < looked
      BY <2>1, <3>1 DEF DroppedAreOld
    <3>3. looked <= clock
      BY DEF Ordered
    <3> QED
      BY <1>1, <1>2, <2>1, <2>3, <3>2, <3>3
  <2>4. i + MaxOperations <= n \/ i + MaxOperations = n + 1
    <3> HIDE DEF Grant, IInv, n
    <3>1. n \in Nat /\ MaxOperations \in Nat
      BY <1>1
    <3> QED
      BY <3>1
  <2> QED
    BY ONLY <2>2, <2>3, <2>4
<1> QED
  BY <1>3, <1>4, <1>5, <1>6, <1>7

LEMMA NextIInv == IInv /\ [Next]_vars => IInv'
<1> SUFFICES ASSUME IInv, [Next]_vars PROVE IInv'
  OBVIOUS
<1> USE LimitAssumption, ThreadAssumption
<1>1. CASE Tick
  BY <1>1 DEF Tick, IInv, TypeOK, Ordered, DroppedAreOld, KeptAreRecent, WithinRate
<1>2. CASE Available
  <2> USE <1>2 DEF Available
  <2>1. TypeOK'
    BY CleanupPreserves DEF IInv, TypeOK, Cleanup
  <2>2. KeptAreRecent'
    BY DEF KeptAreRecent
  <2>3. WithinRate'
    BY DEF IInv, WithinRate, Cleanup
  <2> QED
    BY <2>1, <2>2, <2>3, CleanupPreserves DEF IInv
<1>3. CASE Reset
  BY <1>3 DEF Reset, IInv, TypeOK, Ordered, DroppedAreOld, KeptAreRecent, WithinRate
<1>4. ASSUME NEW t \in Threads, Look(t) PROVE IInv'
  <2> USE <1>4 DEF Look
  <2>1. TypeOK'
    BY CleanupPreserves DEF IInv, TypeOK, Cleanup
  <2>2. KeptAreRecent'
    BY CleanupPreserves DEF KeptAreRecent, Cleanup
  <2>3. WithinRate'
    BY DEF IInv, WithinRate, Cleanup
  <2> QED
    BY <2>1, <2>2, <2>3, CleanupPreserves DEF IInv
<1>5. ASSUME NEW t \in Threads, Refuse(t) PROVE IInv'
  BY <1>5 DEF Refuse, IInv, TypeOK, Ordered, DroppedAreOld, KeptAreRecent, WithinRate
<1>6. CASE UNCHANGED vars
  BY <1>6 DEF vars, IInv, TypeOK, Ordered, DroppedAreOld, KeptAreRecent, WithinRate
<1> QED
  BY <1>1, <1>2, <1>3, <1>4, <1>5, <1>6, GrantPreserves DEF Next

\* The window never shrinks below its own bound: the oldest kept entry of a
\* caller that is refused.
LEMMA RefusedStep ==
  ASSUME IInv, NEW t \in Threads, Refuse(t)
  PROVE  /\ Len(times) >= MaxOperations
         /\ looked - times[Len(times) + 1 - MaxOperations] <= Window
<1> USE LimitAssumption, ThreadAssumption DEF IInv, Refuse
<1> DEFINE i == Len(times) + 1 - MaxOperations
<1>1. /\ Len(times) \in Nat /\ first \in 1..(Len(times) + 1) /\ looked \in Nat
      /\ \A j \in 1..Len(times) : times[j] \in Nat
  BY DEF TypeOK
<1>2. i >= first /\ i \in 1..Len(times)
  BY <1>1 DEF Kept
<1>3. times[i] + Window >= looked
  BY <1>2 DEF KeptAreRecent
<1> QED
  BY <1>1, <1>2, <1>3
-----------------------------------------------------------------------------
LEMMA SpecIInv == Spec => []IInv
BY InitIInv, NextIInv, PTL DEF Spec

\* The limiter's variables keep their types.
THEOREM RateLimiterTypeCorrect == Spec => []TypeOK
<1>1. IInv => TypeOK BY DEF IInv
<1> QED BY SpecIInv, <1>1, PTL

\* No window of time ever holds more than MaxOperations grants (try_acquire).
THEOREM RateIsKept == Spec => []WithinRate
<1>1. IInv => WithinRate BY DEF IInv
<1> QED BY SpecIInv, <1>1, PTL

\* try_acquire refuses only when the window that ends at its look is full.
THEOREM RefusalsAreDue == Spec => RefusesOnlyWhenFull
<1>1. IInv /\ [Next]_vars =>
        [\A t \in Threads : Refuse(t) =>
           /\ Len(times) >= MaxOperations
           /\ looked - times[Len(times) + 1 - MaxOperations] <= Window]_vars
  BY RefusedStep
<1> QED BY SpecIInv, <1>1, PTL DEF Spec, RefusesOnlyWhenFull
=============================================================================
