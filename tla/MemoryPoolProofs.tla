-------------------------- MODULE MemoryPoolProofs --------------------------
(***************************************************************************)
(* The safety of MemoryPool for every number of threads and buffers, every *)
(* cache and pool size and every appetite of the threads.                  *)
(***************************************************************************)
EXTENDS MemoryPool, FiniteSetTheorems, TLAPS

\* Before the first call of buffer_pool() nothing exists.
Untouched == pool = "none" => /\ live = {} /\ free = {} /\ tracked = {} /\ lost = {}
                              /\ \A t \in Threads : held[t] = {} /\ cache[t] = {}

TrackedIsLive == tracked \subseteq live

\* OneBufferPerWorker without counting.
Single == \A t \in Threads : Hold[t] = 1 => \A a, b \in Mine(t) : a = b

\* A thread has no more buffers than it may hold; the first call leaves one.
Appetite == \A t \in Threads : Cardinality(Mine(t)) <= 1 \/ Cardinality(Mine(t)) <= Hold[t]

\* Only threads that hold more than a cache bring any to the list; a thread
\* that has ended holds nothing; the destructor hangs over a buffer it found.
ListNeedsMany ==
    /\ \A t \in Threads : held[t] # {} => Hold[t] > 0
    /\ free # {} => \E t \in Threads : Hold[t] > CacheSize
    /\ \A t \in Threads : thread[t] = "gone" => held[t] = {}
    /\ pool \in {"destroyed", "hung"} => \A t \in Threads : thread[t] = "gone"
    /\ pool = "hung" => free # {} \/ tracked # {}

IInv == TypeOK /\ Untouched /\ TrackedIsLive /\ NoSharing /\ TrackedIsOut /\ Single /\ Appetite /\ ListNeedsMany

-----------------------------------------------------------------------------
\* Sets of buffers are finite, and a set of fewer than one buffer is empty.
LEMMA FewerThanOne == ASSUME NEW S \in SUBSET Buffers, Cardinality(S) < 1
                      PROVE  S = {}
<1>1. IsFiniteSet(S) BY BuffersAssumption, FS_Subset
<1>2. Cardinality(S) \in Nat BY <1>1, FS_CardinalityType
<1>3. Cardinality(S) = 0 BY <1>2
<1> QED BY <1>1, <1>3, FS_EmptySet

\* Two disjoint sets with at most one element between them.
LEMMA OneBetweenTwo == ASSUME NEW S \in SUBSET Buffers, NEW T \in SUBSET Buffers,
                              S \cap T = {}, \A a, b \in S \cup T : a = b
                       PROVE  Cardinality(S) + Cardinality(T) <= 1
<1>1. Cardinality({}) = 0 BY FS_EmptySet
<1>2. \A b : Cardinality({b}) = 1 BY FS_Singleton
<1>3. CASE S \cup T = {}
  <2>1. S = {} /\ T = {} BY <1>3
  <2> QED BY <1>1, <2>1
<1>4. CASE S \cup T # {}
  <2>1. PICK b : b \in S \cup T BY <1>4
  <2>2. CASE b \in S
    <3>1. S = {b} /\ T = {} BY <2>2
    <3> QED BY <1>1, <1>2, <3>1
  <2>3. CASE b \in T
    <3>1. T = {b} /\ S = {} BY <2>3
    <3> QED BY <1>1, <1>2, <3>1
  <2> QED BY <2>1, <2>2, <2>3
<1> QED BY <1>3, <1>4

\* A thread that holds one buffer at a time and asks for one holds none.
LEMMA AsksEmptyHanded == ASSUME TypeOK, NEW t \in Threads, Asks(t), Hold[t] = 1
                         PROVE  held[t] = {}
<1>1. held[t] \in SUBSET Buffers BY DEF TypeOK
<1>2. Cardinality(held[t]) < 1 BY DEF Asks
<1> QED BY <1>1, <1>2, FewerThanOne

\* What a thread has is a finite set; a part of it is not larger, and the
\* buffers that leave its cache for its task, or the reverse, change nothing.
LEMMA AppetiteKept ==
  ASSUME TypeOK, Appetite, \A t \in Threads : Mine(t)' \subseteq Mine(t)
  PROVE  Appetite'
<1> SUFFICES ASSUME NEW t \in Threads
             PROVE  Cardinality(Mine(t)') <= 1 \/ Cardinality(Mine(t)') <= Hold[t]
  BY DEF Appetite
<1>1. Mine(t) \subseteq Buffers BY DEF Mine, TypeOK
<1>2. IsFiniteSet(Mine(t)) BY <1>1, BuffersAssumption, FS_Subset
<1>3. IsFiniteSet(Mine(t)') /\ Cardinality(Mine(t)') <= Cardinality(Mine(t))
  BY <1>2, FS_Subset
<1>4. Cardinality(Mine(t)) \in Nat /\ Cardinality(Mine(t)') \in Nat
  BY <1>2, <1>3, FS_CardinalityType
<1>5. Cardinality(Mine(t)) <= 1 \/ Cardinality(Mine(t)) <= Hold[t] BY DEF Appetite
<1> HIDE DEF Appetite
<1>6. Hold[t] \in Nat BY HoldAssumption
<1> QED BY <1>3, <1>4, <1>5, <1>6

\* A buffer more in hands that are not full.
LEMMA OneMore == ASSUME NEW S \in SUBSET Buffers, NEW b, NEW n \in Nat, Cardinality(S) < n
                 PROVE  Cardinality(S \cup {b}) <= n
<1>1. IsFiniteSet(S) BY BuffersAssumption, FS_Subset
<1>2. Cardinality(S) \in Nat BY <1>1, FS_CardinalityType
<1>3. Cardinality(S \cup {b}) = Cardinality(S) \/ Cardinality(S \cup {b}) = Cardinality(S) + 1
  BY <1>1, FS_AddElement
<1> QED BY <1>2, <1>3
-----------------------------------------------------------------------------
LEMMA InitIInv == Init => IInv
<1>1. Cardinality({}) = 0 BY FS_EmptySet
<1>2. Init => Appetite BY <1>1 DEF Init, Appetite, Mine
<1> QED BY <1>2 DEF Init, IInv, TypeOK, Untouched, TrackedIsLive, NoSharing, TrackedIsOut, Single, ListNeedsMany, Mine

\* What AllocateCached, AllocateFree and AllocateNew preserve.
LEMMA AllocatePreserves ==
  ASSUME IInv, NEW t \in Threads, NEW b \in Buffers,
         AllocateCached(t, b) \/ AllocateFree(t, b) \/ AllocateNew(t, b)
  PROVE  IInv'
<1> USE DEF IInv, Mine
<1>0. Asks(t) BY DEF AllocateCached, AllocateFree, AllocateNew
<1>1. Hold[t] = 1 => held[t] = {} BY <1>0, AsksEmptyHanded
<1>9. pool = "open" /\ thread[t] = "run" /\ Hold[t] > 0
  <2>1. Cardinality(held[t]) \in Nat BY BuffersAssumption, FS_Subset, FS_CardinalityType DEF TypeOK
  <2> QED BY <1>0, <2>1, HoldAssumption DEF Asks
<1>2. CASE AllocateCached(t, b)
  <2> USE <1>2 DEF AllocateCached
  <2>1. TypeOK' BY DEF TypeOK
  <2>2. Untouched' BY <1>0 DEF Untouched, Asks
  <2>3. TrackedIsLive' BY DEF TrackedIsLive
  <2>4. NoSharing' BY DEF NoSharing, TypeOK
  <2>5. TrackedIsOut' BY DEF TrackedIsOut, TypeOK
  <2>6. Single' BY <1>1 DEF Single, TypeOK
  <2>7. ListNeedsMany' BY <1>9 DEF ListNeedsMany, TypeOK, Asks
  <2>8. Appetite'
    <3>1. \A u \in Threads : Mine(u)' \subseteq Mine(u) BY DEF TypeOK
    <3> QED BY <3>1, AppetiteKept
  <2> QED BY <2>1, <2>2, <2>3, <2>4, <2>5, <2>6, <2>7, <2>8
<1>3. CASE AllocateFree(t, b)
  <2> USE <1>3 DEF AllocateFree
  <2>1. TypeOK' BY DEF TypeOK
  <2>2. Untouched' BY <1>0 DEF Untouched, Asks
  <2>3. TrackedIsLive' BY DEF TrackedIsLive
  <2>4. NoSharing' BY DEF NoSharing, TypeOK
  <2>5. TrackedIsOut' BY DEF TrackedIsOut, TypeOK
  <2>6. Single' BY <1>1 DEF Single, TypeOK
  <2>7. ListNeedsMany' BY <1>9 DEF ListNeedsMany, TypeOK, Asks
  <2>8. Appetite'
    <3>1. held[t] \in SUBSET Buffers /\ Hold[t] \in Nat BY HoldAssumption DEF TypeOK
    <3>2. Cardinality(held[t] \cup {b}) <= Hold[t] BY <1>0, <3>1, OneMore DEF Asks
    <3>3. Mine(t)' = held[t] \cup {b} /\ \A u \in Threads \ {t} : Mine(u)' = Mine(u)
      BY DEF TypeOK
    <3> QED BY <3>2, <3>3 DEF Appetite
  <2> QED BY <2>1, <2>2, <2>3, <2>4, <2>5, <2>6, <2>7, <2>8
<1>4. CASE AllocateNew(t, b)
  <2> USE <1>4 DEF AllocateNew
  <2>1. TypeOK' BY DEF TypeOK
  <2>2. Untouched' BY <1>0 DEF Untouched, Asks
  <2>3. TrackedIsLive' BY DEF TrackedIsLive
  <2>4. NoSharing' BY DEF NoSharing, TypeOK
  <2>5. TrackedIsOut' BY DEF TrackedIsOut, TypeOK
  <2>6. Single' BY <1>1 DEF Single, TypeOK
  <2>7. ListNeedsMany' BY <1>9 DEF ListNeedsMany, TypeOK, Asks
  <2>8. Appetite'
    <3>1. held[t] \in SUBSET Buffers /\ Hold[t] \in Nat BY HoldAssumption DEF TypeOK
    <3>2. Cardinality(held[t] \cup {b}) <= Hold[t] BY <1>0, <3>1, OneMore DEF Asks
    <3>3. Mine(t)' = held[t] \cup {b} /\ \A u \in Threads \ {t} : Mine(u)' = Mine(u)
      BY DEF TypeOK
    <3> QED BY <3>2, <3>3 DEF Appetite
  <2> QED BY <2>1, <2>2, <2>3, <2>4, <2>5, <2>6, <2>7, <2>8
<1> QED BY <1>2, <1>3, <1>4

\* What ReleaseToCache, ReleaseToPool and Lose preserve.
LEMMA ReleasePreserves ==
  ASSUME IInv, NEW t \in Threads, NEW b \in Buffers,
         ReleaseToCache(t, b) \/ ReleaseToPool(t, b) \/ Lose(t, b)
  PROVE  IInv'
<1> USE DEF IInv, Mine
<1>9. CacheIsFull(t) /\ b \in held[t] => Hold[t] > CacheSize
  <2> SUFFICES ASSUME CacheIsFull(t), b \in held[t] PROVE Hold[t] > CacheSize OBVIOUS
  <2>1. cache[t] \in SUBSET Buffers /\ held[t] \in SUBSET Buffers BY DEF TypeOK
  <2>2. IsFiniteSet(cache[t]) /\ IsFiniteSet(Mine(t)) BY <2>1, BuffersAssumption, FS_Subset
  <2>3. b \notin cache[t] /\ cache[t] \cup {b} \subseteq Mine(t) BY DEF NoSharing
  <2>4. /\ Cardinality(cache[t] \cup {b}) = Cardinality(cache[t]) + 1
        /\ IsFiniteSet(cache[t] \cup {b})
    BY <2>2, <2>3, FS_AddElement
  <2>5. Cardinality(cache[t] \cup {b}) <= Cardinality(Mine(t)) BY <2>2, <2>3, FS_Subset
  <2>6. Cardinality(Mine(t)) <= 1 \/ Cardinality(Mine(t)) <= Hold[t] BY DEF Appetite
  <2>7. Cardinality(cache[t]) \in Nat /\ Cardinality(Mine(t)) \in Nat
    BY <2>2, FS_CardinalityType
  <2>8. Cardinality(cache[t]) >= CacheSize BY DEF CacheIsFull
  <2>9. Hold[t] \in Nat /\ CacheSize \in Nat \ {0} BY HoldAssumption, SizesAssumption
  <2> HIDE DEF Mine, IInv
  <2> QED BY <2>4, <2>5, <2>6, <2>7, <2>8, <2>9
<1>2. CASE ReleaseToCache(t, b)
  <2> USE <1>2 DEF ReleaseToCache
  <2>1. TypeOK' BY DEF TypeOK
  <2>2. Untouched' BY DEF Untouched
  <2>3. TrackedIsLive' BY DEF TrackedIsLive
  <2>4. NoSharing' BY DEF NoSharing, TypeOK
  <2>5. TrackedIsOut' BY DEF TrackedIsOut, TypeOK
  <2>6. Single' BY DEF Single, TypeOK
  <2>7. ListNeedsMany' BY <1>9 DEF ListNeedsMany, TypeOK, Asks
  <2>8. Appetite'
    <3>1. \A u \in Threads : Mine(u)' \subseteq Mine(u) BY DEF TypeOK
    <3> QED BY <3>1, AppetiteKept
  <2> QED BY <2>1, <2>2, <2>3, <2>4, <2>5, <2>6, <2>7, <2>8
<1>3. CASE ReleaseToPool(t, b)
  <2> USE <1>3 DEF ReleaseToPool
  <2>1. TypeOK' BY DEF TypeOK
  <2>2. Untouched' BY DEF Untouched
  <2>3. TrackedIsLive' BY DEF TrackedIsLive
  <2>4. NoSharing' BY DEF NoSharing, TypeOK
  <2>5. TrackedIsOut' BY DEF TrackedIsOut, TypeOK
  <2>6. Single' BY DEF Single, TypeOK
  <2>7. ListNeedsMany' BY <1>9 DEF ListNeedsMany, TypeOK, Asks
  <2>8. Appetite'
    <3>1. \A u \in Threads : Mine(u)' \subseteq Mine(u) BY DEF TypeOK
    <3> QED BY <3>1, AppetiteKept
  <2> QED BY <2>1, <2>2, <2>3, <2>4, <2>5, <2>6, <2>7, <2>8
<1>4. CASE Lose(t, b)
  <2> USE <1>4 DEF Lose
  <2>1. TypeOK' BY DEF TypeOK
  <2>2. Untouched' BY DEF Untouched
  <2>3. TrackedIsLive' BY DEF TrackedIsLive
  <2>4. NoSharing' BY DEF NoSharing, TypeOK
  <2>5. TrackedIsOut' BY DEF TrackedIsOut, TypeOK
  <2>6. Single' BY DEF Single, TypeOK
  <2>7. ListNeedsMany' BY <1>9 DEF ListNeedsMany, TypeOK, Asks
  <2>8. Appetite'
    <3>1. \A u \in Threads : Mine(u)' \subseteq Mine(u) BY DEF TypeOK
    <3> QED BY <3>1, AppetiteKept
  <2> QED BY <2>1, <2>2, <2>3, <2>4, <2>5, <2>6, <2>7, <2>8
<1> QED BY <1>2, <1>3, <1>4

LEMMA ConstructPreserves ==
  ASSUME IInv, NEW t \in Threads, NEW b \in Buffers, Construct(t, b)
  PROVE  IInv'
<1> USE DEF IInv, Mine, Construct
<1>0. Untouched /\ pool = "none" OBVIOUS
<1>1. TypeOK' BY DEF TypeOK
<1>2. Untouched' BY DEF Untouched
<1>3. TrackedIsLive' BY <1>0 DEF Untouched, TrackedIsLive
<1>4. NoSharing' BY <1>0 DEF NoSharing, TypeOK, Untouched
<1>5. TrackedIsOut' BY <1>0 DEF TrackedIsOut, Untouched
<1>6. Single' BY <1>0 DEF Single, TypeOK, Untouched
<1>7. ListNeedsMany' BY DEF ListNeedsMany, TypeOK, Untouched
<1>8. Appetite'
  <2>1. Mine(t)' = {b} /\ \A u \in Threads \ {t} : Mine(u)' = Mine(u)
    BY <1>0 DEF TypeOK, Untouched
  <2>2. Cardinality({b}) = 1 BY FS_Singleton
  <2> QED BY <2>1, <2>2 DEF Appetite
<1> QED BY <1>1, <1>2, <1>3, <1>4, <1>5, <1>6, <1>7, <1>8

LEMMA ExitPreserves ==
  ASSUME IInv, NEW t \in Threads, Exit(t)
  PROVE  IInv'
<1> USE DEF IInv, Mine, Exit
<1>1. TypeOK' BY DEF TypeOK
<1>2. Untouched' BY DEF Untouched, TypeOK
<1>3. TrackedIsLive'
  <2>1. tracked \cap cache[t] = {} BY DEF TrackedIsOut, NoSharing, TypeOK
  <2> QED BY <2>1 DEF TrackedIsLive
<1>4. NoSharing' BY DEF NoSharing, TypeOK
<1>5. TrackedIsOut' BY DEF TrackedIsOut, TypeOK
<1>6. Single' BY DEF Single, TypeOK
<1>7. ListNeedsMany' BY DEF ListNeedsMany, TypeOK, Untouched
<1>8. Appetite'
  <2>1. \A u \in Threads : Mine(u)' \subseteq Mine(u) BY DEF TypeOK
  <2> QED BY <2>1, AppetiteKept
<1> QED BY <1>1, <1>2, <1>3, <1>4, <1>5, <1>6, <1>7, <1>8

LEMMA NextIInv == IInv /\ [Next]_vars => IInv'
<1> SUFFICES ASSUME IInv, [Next]_vars PROVE IInv' OBVIOUS
<1>1. ASSUME NEW t \in Threads, Shrink(t) PROVE IInv'
  BY <1>1 DEF IInv, TypeOK, Untouched, TrackedIsLive, NoSharing, TrackedIsOut, Single, Appetite, ListNeedsMany, Mine, Shrink
<1>2. CASE Destroy
  BY <1>2 DEF IInv, TypeOK, Untouched, TrackedIsLive, NoSharing, TrackedIsOut, Single, Appetite, ListNeedsMany, Mine, Destroy
<1>3. CASE UNCHANGED vars
  BY <1>3 DEF IInv, TypeOK, Untouched, TrackedIsLive, NoSharing, TrackedIsOut, Single, Appetite, ListNeedsMany, Mine, vars
<1> QED BY <1>1, <1>2, <1>3, ConstructPreserves, AllocatePreserves, ReleasePreserves,
           ExitPreserves DEF Next
-----------------------------------------------------------------------------
LEMMA SpecIInv == Spec => []IInv
BY InitIInv, NextIInv, PTL DEF Spec

\* The pool's variables keep their types.
THEOREM MemoryPoolTypeCorrect == Spec => []TypeOK
<1>1. IInv => TypeOK BY DEF IInv
<1> QED BY SpecIInv, <1>1, PTL

\* No buffer ever has two owners, and none is handed out after it was freed
\* (allocate_raw, release_raw, cleanup_thread_cache).
THEOREM BuffersHaveOneOwner == Spec => []NoSharing
<1>1. IInv => NoSharing BY DEF IInv
<1> QED BY SpecIInv, <1>1, PTL

\* allocated_set_ never holds a cached or free buffer.
THEOREM TrackedBuffersAreOut == Spec => []TrackedIsOut
<1>1. IInv => TrackedIsOut BY DEF IInv
<1> QED BY SpecIInv, <1>1, PTL

\* A worker that holds one buffer at a time keeps one buffer in all.
THEOREM WorkersKeepOneBuffer == Spec => []OneBufferPerWorker
<1>1. IInv => OneBufferPerWorker
  <2> SUFFICES ASSUME IInv, NEW t \in Threads, Hold[t] = 1
               PROVE  Cardinality(held[t]) + Cardinality(cache[t]) <= 1
    BY DEF OneBufferPerWorker
  <2>1. held[t] \in SUBSET Buffers /\ cache[t] \in SUBSET Buffers BY DEF IInv, TypeOK
  <2>2. held[t] \cap cache[t] = {} BY DEF IInv, NoSharing
  <2>3. \A a, b \in held[t] \cup cache[t] : a = b BY DEF IInv, Single, Mine
  <2> QED BY <2>1, <2>2, <2>3, OneBetweenTwo
<1> QED BY SpecIInv, <1>1, PTL

\* An exit that hangs in ~MemoryPool is the work of a lost buffer, or of a
\* thread that held more at once than a cache takes.
THEOREM DestructorHangsByLossOnly == Spec => []HangsByLossOnly
<1>1. IInv => HangsByLossOnly
  BY DEF IInv, HangsByLossOnly, ListNeedsMany, TrackedIsOut, TypeOK
<1> QED BY SpecIInv, <1>1, PTL
=============================================================================
